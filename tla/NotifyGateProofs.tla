-------------------------- MODULE NotifyGateProofs --------------------------
(***************************************************************************)
(* Proofs about NotifyGate, for any participants, requests and number of   *)
(* requests served: types, the quota of reminders, the three counts, and   *)
(* what a closed gate says.                                                *)
(***************************************************************************)
EXTENDS NotifyGate, TLAPS

-----------------------------------------------------------------------------
(***************************************************************************)
(* Types                                                                   *)
(***************************************************************************)

\* The steps, one by one.
LEMMA Steps ==
  ASSUME Next
  PROVE  \/ \E p \in Participants : WindowEnds(p)
         \/ \E r \in Requests :
              \/ \E force \in BOOLEAN : Send(r, force)
              \/ \E p \in Rows : SendReminder(r, p) \/ Retry(r, p)
              \/ \E p \in Participants : AddParticipant(r, p) \/ RemoveParticipant(r, p)
              \/ \E p \in Participants, to \in Unpaid \cup {"paid"} : Pay(r, p, to)
              \/ BulkReminder(r) \/ EditSession(r) \/ EditBill(r)
              \/ Count(r) \/ List(r) \/ Batch(r) \/ MarkNotified(r) \/ Update(r)
              \/ FindByID(r) \/ Dispatch(r) \/ BumpNotificationCount(r)
              \/ GetReminderStatus(r) \/ BulkDispatch(r) \/ BulkEnds(r)
              \/ FindLatest(r) \/ CheckReminderRateLimit(r) \/ RetryDispatch(r) \/ Fail(r)
BY Zenon DEF Next, NotificationRoutes, SessionRoutes, PaymentRoutes, Statements

LEMMA GoToTyped ==
  ASSUME TypeOK, NEW r \in Requests, NEW state \in Request, GoTo(r, state)
  PROVE  req' \in [Requests -> Request]
BY DEF TypeOK, GoTo

LEMMA IdleTyped == Idle \in Request
BY DEF Idle, Request

LEMMA RowsTyped == Rows \in SUBSET Participants
BY DEF Rows

\* Requests that read and write nothing but where they are.
LEMMA GoTyped ==
  ASSUME TypeOK, req' \in [Requests -> Request],
         UNCHANGED <<session, status, latest, limits, now, informed, missed, reverted>>,
         served' \in 0..MaxServed, changed' \in SUBSET Requests
  PROVE  TypeOK'
BY DEF TypeOK, session, limits

LEMMA StartsTyped ==
  ASSUME TypeOK, NEW r \in Requests, Starts(r)
  PROVE  served' \in 0..MaxServed
BY GateAssumption DEF TypeOK, Starts

LEMMA BeginsTyped ==
  ASSUME TypeOK, NEW r \in Requests, Begins(r)
  PROVE  served' \in 0..MaxServed /\ changed' \in SUBSET Requests
BY StartsTyped DEF TypeOK, Begins

LEMMA LimitsTyped ==
  ASSUME TypeOK, NEW p \in Participants, Allowed(p) \/ Refused(p)
  PROVE  token' \in SUBSET Participants /\ granted' \in SUBSET Participants
BY DEF TypeOK, Allowed, Refused, Take

LEMMA DispatchedTyped ==
  ASSUME TypeOK, NEW r \in Requests, NEW p, NEW type \in Types, Dispatched(r, p, type)
  PROVE  /\ p \in Participants
         /\ latest' \in [Participants -> Types \cup {"none"}]
         /\ informed' \in SUBSET Participants
<1>1. p \in Participants
  BY DEF Dispatched, Rows
<1>2. latest' \in [Participants -> Types \cup {"none"}]
  BY <1>1 DEF Dispatched, TypeOK
<1> QED  BY <1>1, <1>2 DEF Dispatched, TypeOK

LEMMA TouchTyped ==
  ASSUME TypeOK, Touch
  PROVE  updated' \in Nat /\ now' \in Nat
BY DEF TypeOK, Touch

\* Requests that begin, and what other modules do to the rows.
LEMMA RouteTypes ==
  ASSUME TypeOK, NEW r \in Requests
  PROVE  /\ \A force \in BOOLEAN : Send(r, force) => TypeOK'
         /\ \A p \in Rows : SendReminder(r, p) \/ Retry(r, p) => TypeOK'
         /\ \A p \in Participants : AddParticipant(r, p) \/ RemoveParticipant(r, p) => TypeOK'
         /\ \A p \in Participants, to \in Unpaid \cup {"paid"} : Pay(r, p, to) => TypeOK'
         /\ BulkReminder(r) \/ EditSession(r) \/ EditBill(r) => TypeOK'
<1>1. ASSUME NEW force \in BOOLEAN, Send(r, force) PROVE TypeOK'
  <2>1. Open \in BOOLEAN
    BY DEF Open
  <2>2. [pc |-> "count", of |-> "pending", open |-> Open, unpaid |-> FALSE, force |-> force,
         present |-> Rows] \in Request
    BY <2>1, RowsTyped DEF Request, Unpaid
  <2>3. req' \in [Requests -> Request]
    BY <1>1, <2>2, GoToTyped DEF Send
  <2> QED  BY <1>1, <2>3, BeginsTyped, GoTyped DEF Send
<1>2. ASSUME NEW p \in Rows, SendReminder(r, p) PROVE TypeOK'
  <2>1. p \in Participants
    BY DEF Rows
  <2>2. [pc |-> "remind", of |-> p] \in Request
    BY <2>1 DEF Request
  <2>3. req' \in [Requests -> Request]
    BY <1>2, <2>2, IdleTyped, GoToTyped DEF SendReminder, Done
  <2>4. token' \in SUBSET Participants /\ granted' \in SUBSET Participants
    BY <1>2, <2>1, LimitsTyped DEF SendReminder
  <2>5. served' \in 0..MaxServed /\ changed' \in SUBSET Requests
    BY <1>2, BeginsTyped DEF SendReminder
  <2> QED  BY <1>2, <2>3, <2>4, <2>5 DEF SendReminder, TypeOK, session
<1>3. ASSUME NEW p \in Rows, Retry(r, p) PROVE TypeOK'
  <2>1. [pc |-> "look", of |-> p] \in Request
    BY RowsTyped DEF Request
  <2>2. req' \in [Requests -> Request]
    BY <1>3, <2>1, GoToTyped DEF Retry
  <2> QED  BY <1>3, <2>2, BeginsTyped, GoTyped DEF Retry
<1>4. ASSUME NEW p \in Participants, AddParticipant(r, p) \/ RemoveParticipant(r, p) PROVE TypeOK'
  <2>1. status' \in [Participants -> Unpaid \cup {"none", "paid", "removed"}]
    BY <1>4 DEF AddParticipant, RemoveParticipant, TypeOK, Unpaid
  <2>2. served' \in 0..MaxServed /\ updated' \in Nat /\ now' \in Nat
    BY <1>4, StartsTyped, TouchTyped DEF AddParticipant, RemoveParticipant
  <2>3. changed' \in SUBSET Requests /\ informed' \in SUBSET Participants
    BY <1>4 DEF AddParticipant, RemoveParticipant, Changes
  <2>4. UNCHANGED <<req, notified, latest, limits, missed, reverted>>
    BY <1>4 DEF AddParticipant, RemoveParticipant
  <2> QED  BY <2>1, <2>2, <2>3, <2>4 DEF TypeOK, limits
<1>5. ASSUME NEW p \in Participants, NEW to \in Unpaid \cup {"paid"}, Pay(r, p, to) PROVE TypeOK'
  <2>1. status' \in [Participants -> Unpaid \cup {"none", "paid", "removed"}]
    BY <1>5 DEF Pay, TypeOK
  <2>2. latest' \in [Participants -> Types \cup {"none"}]
    BY <1>5 DEF Pay, TypeOK, Types
  <2>3. served' \in 0..MaxServed /\ updated' \in Nat /\ now' \in Nat
    BY <1>5, StartsTyped, TouchTyped DEF Pay
  <2>4. Forward(status[p], to) \in BOOLEAN
    BY DEF Forward
  <2>5. reverted' \in BOOLEAN
    BY <1>5, <2>4 DEF Pay, TypeOK
  <2> QED  BY <1>5, <2>1, <2>2, <2>3, <2>5 DEF Pay, TypeOK, limits
<1>6. CASE BulkReminder(r)
  <2>1. [pc |-> "bulk", left |-> {p \in Rows : status[p] \in Unpaid}] \in Request
    BY RowsTyped DEF Request
  <2>2. req' \in [Requests -> Request]
    BY <1>6, <2>1, GoToTyped DEF BulkReminder
  <2> QED  BY <1>6, <2>2, BeginsTyped, GoTyped DEF BulkReminder
<1>7. CASE EditSession(r)
  <2>1. [pc |-> "edit", at |-> now + 1] \in Request /\ now + 1 \in Nat
    BY DEF Request, TypeOK
  <2>2. req' \in [Requests -> Request]
    BY <1>7, <2>1, GoToTyped DEF EditSession
  <2>3. served' \in 0..MaxServed
    BY <1>7, StartsTyped DEF EditSession
  <2> QED  BY <1>7, <2>1, <2>2, <2>3 DEF EditSession, TypeOK, session, limits
<1>8. CASE EditBill(r)
  <2>1. served' \in 0..MaxServed /\ updated' \in Nat /\ now' \in Nat
    BY <1>8, StartsTyped, TouchTyped DEF EditBill
  <2> QED  BY <1>8, <2>1 DEF EditBill, Changes, TypeOK, limits
<1> QED  BY <1>1, <1>2, <1>3, <1>4, <1>5, <1>6, <1>7, <1>8

\* What a request has read, from where it is.
LEMMA Fields ==
  ASSUME TypeOK, NEW r \in Requests
  PROVE  /\ req[r].pc = "edit" => req[r].at \in Nat
         /\ req[r].pc = "count" => /\ req[r].of \in Unpaid /\ req[r].open \in BOOLEAN
                                   /\ req[r].unpaid \in BOOLEAN /\ req[r].force \in BOOLEAN
                                   /\ req[r].present \in SUBSET Participants
                                   /\ DOMAIN req[r] = {"pc", "of", "open", "unpaid", "force", "present"}
         /\ req[r].pc = "list" => /\ req[r].open \in BOOLEAN /\ req[r].unpaid \in BOOLEAN
                                  /\ req[r].force \in BOOLEAN /\ req[r].present \in SUBSET Participants
         /\ req[r].pc = "batch" => /\ req[r] \in [pc: {"batch"}, left: SUBSET Participants, queued: SUBSET Participants]
                                   /\ req[r].left \in SUBSET Participants /\ req[r].queued \in SUBSET Participants
         /\ req[r].pc \in {"remind", "look", "try"} => req[r].of \in Participants
         /\ req[r].pc \in {"dispatch", "bump"} => /\ req[r].of \in Participants /\ req[r].status \in Unpaid
                                                  /\ req[r] \in [pc: {"dispatch", "bump"}, of: Participants, status: Unpaid]
         /\ req[r].pc = "retry" => req[r].of \in Participants /\ req[r].type \in Types
         /\ req[r].pc = "bulk" => req[r].left \in SUBSET Participants
         /\ req[r].pc = "turn" => req[r].of \in Participants /\ req[r].left \in SUBSET Participants
<1>1. req[r] \in Request
  BY DEF TypeOK
<1> HIDE DEF TypeOK
<1> QED  BY <1>1 DEF Request

LEMMA CountTyped ==
  ASSUME TypeOK, NEW r \in Requests, Count(r)
  PROVE  TypeOK'
<1> DEFINE q == req[r]
           unpaid == q.unpaid \/ \E p \in Rows : status[p] = q.of
           more == [q EXCEPT !.of = After(q.of), !.unpaid = unpaid]
           last == [pc |-> "list", open |-> q.open, unpaid |-> unpaid, force |-> q.force, present |-> q.present]
<1>1. /\ q \in [pc: {"count"}, of: Unpaid, open: BOOLEAN, unpaid: BOOLEAN, force: BOOLEAN, present: SUBSET Participants]
      /\ unpaid \in BOOLEAN
  <2>1. req[r] \in Request /\ req[r].pc = "count"
    BY DEF TypeOK, Count
  <2> QED  BY <2>1 DEF Request
<1>2. GoTo(r, IF After(q.of) # "none" THEN more ELSE last)
  BY DEF Count
<1>3. last \in Request
  BY <1>1 DEF Request
<1>4. ASSUME After(q.of) # "none" PROVE more \in Request
  <2>1. After(q.of) \in Unpaid
    BY <1>4 DEF After, Unpaid
  <2> HIDE DEF unpaid
  <2> QED  BY <1>1, <2>1 DEF Request
<1>5. req' \in [Requests -> Request]
  <2> HIDE DEF more, last, q
  <2> QED  BY <1>2, <1>3, <1>4, GoToTyped
<1> QED  BY <1>5, GoTyped DEF Count, TypeOK

LEMMA BatchTyped ==
  ASSUME TypeOK, NEW r \in Requests
  PROVE  List(r) \/ Batch(r) \/ MarkNotified(r) \/ Update(r) => TypeOK'
<1>1. CASE List(r)
  <2>1. [pc |-> "batch", left |-> Rows, queued |-> {}] \in Request
    BY RowsTyped DEF Request
  <2>2. req' \in [Requests -> Request]
    BY <1>1, <2>1, IdleTyped, GoToTyped DEF List, Done
  <2> QED  BY <1>1, <2>2, GoTyped DEF List, TypeOK
<1>2. CASE Batch(r)
  <2>1. PICK p \in req[r].left :
           \/ /\ Dispatched(r, p, "initial")
              /\ GoTo(r, [req[r] EXCEPT !.left = @ \ {p}, !.queued = @ \cup {p}])
           \/ GoTo(r, [req[r] EXCEPT !.left = @ \ {p}]) /\ UNCHANGED <<latest, informed>>
    BY <1>2 DEF Batch
  <2>2. req[r] \in [pc: {"batch"}, left: SUBSET Participants, queued: SUBSET Participants] /\ p \in Participants
    BY <1>2, Fields DEF Batch
  <2>3. /\ [req[r] EXCEPT !.left = @ \ {p}, !.queued = @ \cup {p}] \in Request
        /\ [req[r] EXCEPT !.left = @ \ {p}] \in Request
    BY <2>2 DEF Request
  <2>4. req' \in [Requests -> Request]
    BY <2>1, <2>3, GoToTyped
  <2>5. latest' \in [Participants -> Types \cup {"none"}] /\ informed' \in SUBSET Participants
    <3>1. "initial" \in Types
      BY DEF Types
    <3> QED  BY <2>1, <3>1, DispatchedTyped DEF TypeOK
  <2> QED  BY <1>2, <2>4, <2>5 DEF Batch, TypeOK, session, limits
<1>3. CASE MarkNotified(r)
  <2>1. req' \in [Requests -> Request]
    BY <1>3, IdleTyped, GoToTyped DEF MarkNotified, Done
  <2> QED  BY <1>3, <2>1 DEF MarkNotified, TypeOK, limits
<1>4. CASE Update(r)
  <2>1. req' \in [Requests -> Request] /\ updated' \in Nat
    BY <1>4, Fields, IdleTyped, GoToTyped DEF Update, Done
  <2> QED  BY <1>4, <2>1 DEF Update, Changes, TypeOK, limits
<1> QED  BY <1>1, <1>2, <1>3, <1>4

LEMMA ReminderTyped ==
  ASSUME TypeOK, NEW r \in Requests
  PROVE  FindByID(r) \/ Dispatch(r) \/ BumpNotificationCount(r) => TypeOK'
<1>1. CASE FindByID(r)
  <2>1. req[r].of \in Participants
    BY <1>1, Fields DEF FindByID
  <2>2. status[req[r].of] \in Unpaid => [pc |-> "dispatch", of |-> req[r].of, status |-> status[req[r].of]] \in Request
    BY <2>1 DEF Request
  <2>3. req' \in [Requests -> Request]
    BY <1>1, <2>2, IdleTyped, GoToTyped DEF FindByID, Done
  <2> QED  BY <1>1, <2>3, GoTyped DEF FindByID, TypeOK
<1>2. CASE Dispatch(r)
  <2>1. req[r] \in [pc: {"dispatch", "bump"}, of: Participants, status: Unpaid]
    BY <1>2, Fields DEF Dispatch
  <2>2. [req[r] EXCEPT !.pc = "bump"] \in Request
    BY <2>1 DEF Request
  <2>3. req' \in [Requests -> Request]
    BY <1>2, <2>2, GoToTyped DEF Dispatch
  <2>4. latest' \in [Participants -> Types \cup {"none"}] /\ informed' \in SUBSET Participants
    <3>1. "reminder" \in Types
      BY DEF Types
    <3> QED  BY <1>2, <3>1, DispatchedTyped DEF Dispatch
  <2>5. reminded' \in [Participants -> Nat]
    <3>1. req[r].of \in Participants /\ reminded[req[r].of] + 1 \in Nat
      BY <2>1 DEF TypeOK
    <3>2. reminded' = [reminded EXCEPT ![req[r].of] = reminded[req[r].of] + 1]
      BY <1>2 DEF Dispatch
    <3> QED  BY <3>1, <3>2 DEF TypeOK
  <2> QED  BY <1>2, <2>3, <2>4, <2>5 DEF Dispatch, TypeOK, session
<1>3. CASE BumpNotificationCount(r)
  <2>1. req[r].of \in Participants /\ req[r].status \in Unpaid
    BY <1>3, Fields DEF BumpNotificationCount
  <2>2. req' \in [Requests -> Request]
    BY <1>3, IdleTyped, GoToTyped DEF BumpNotificationCount, Done
  <2>3. status' \in [Participants -> Unpaid \cup {"none", "paid", "removed"}]
    BY <1>3, <2>1 DEF BumpNotificationCount, TypeOK
  <2>4. updated' \in Nat /\ now' \in Nat
    BY <1>3, TouchTyped DEF BumpNotificationCount, TypeOK
  <2>5. reverted' \in BOOLEAN
    BY <1>3 DEF BumpNotificationCount, TypeOK
  <2> QED  BY <1>3, <2>2, <2>3, <2>4, <2>5 DEF BumpNotificationCount, TypeOK, limits
<1> QED  BY <1>1, <1>2, <1>3

LEMMA BulkTyped ==
  ASSUME TypeOK, NEW r \in Requests
  PROVE  GetReminderStatus(r) \/ BulkDispatch(r) \/ BulkEnds(r) \/ Fail(r) => TypeOK'
<1>1. CASE GetReminderStatus(r)
  <2>1. PICK p \in req[r].left : \/ GoTo(r, [pc |-> "turn", of |-> p, left |-> req[r].left \ {p}])
                                 \/ GoTo(r, [pc |-> "bulk", left |-> req[r].left \ {p}])
    BY <1>1 DEF GetReminderStatus
  <2>2. /\ [pc |-> "turn", of |-> p, left |-> req[r].left \ {p}] \in Request
        /\ [pc |-> "bulk", left |-> req[r].left \ {p}] \in Request
    <3>1. req[r].left \in SUBSET Participants /\ p \in Participants
      BY <1>1, Fields DEF GetReminderStatus
    <3> QED  BY <3>1 DEF Request
  <2>3. req' \in [Requests -> Request]
    BY <2>1, <2>2, GoToTyped
  <2> QED  BY <1>1, <2>3, GoTyped DEF GetReminderStatus, TypeOK
<1>2. CASE BulkDispatch(r)
  <2>1. req[r].left \in SUBSET Participants
    BY <1>2, Fields DEF BulkDispatch
  <2>2. [pc |-> "bulk", left |-> req[r].left] \in Request
    BY <2>1 DEF Request
  <2>3. req' \in [Requests -> Request]
    BY <1>2, <2>2, GoToTyped DEF BulkDispatch
  <2>4. latest' \in [Participants -> Types \cup {"none"}] /\ informed' \in SUBSET Participants
    <3>1. "reminder" \in Types
      BY DEF Types
    <3> QED  BY <1>2, <3>1, DispatchedTyped DEF BulkDispatch, TypeOK
  <2> QED  BY <1>2, <2>3, <2>4 DEF BulkDispatch, TypeOK, session, limits
<1>3. CASE BulkEnds(r) \/ Fail(r)
  <2>1. req' \in [Requests -> Request]
    BY <1>3, IdleTyped, GoToTyped DEF BulkEnds, Fail, Done
  <2> QED  BY <1>3, <2>1, GoTyped DEF BulkEnds, Fail, TypeOK
<1> QED  BY <1>1, <1>2, <1>3

LEMMA RetryTyped ==
  ASSUME TypeOK, NEW r \in Requests
  PROVE  FindLatest(r) \/ CheckReminderRateLimit(r) \/ RetryDispatch(r) => TypeOK'
<1>1. CASE FindLatest(r)
  <2>1. PICK p \in Participants : p = req[r].of
    BY <1>1, Fields DEF FindLatest
  <2>2. latest[p] \in Types \cup {"none"} /\ "initial" \in Types
    BY DEF TypeOK, Types
  <2>3. PICK type \in Types : type = IF latest[p] = "none" THEN "initial" ELSE latest[p]
    BY <2>2
  <2>4. [pc |-> "try", of |-> p] \in Request /\ [pc |-> "retry", of |-> p, type |-> type] \in Request
    BY DEF Request
  <2>5. req' \in [Requests -> Request]
    BY <1>1, <2>1, <2>3, <2>4, GoToTyped DEF FindLatest
  <2> QED  BY <1>1, <2>5, GoTyped DEF FindLatest, TypeOK
<1>2. CASE CheckReminderRateLimit(r)
  <2>1. PICK p \in Participants : p = req[r].of
    BY <1>2, Fields DEF CheckReminderRateLimit
  <2>2. [pc |-> "retry", of |-> p, type |-> "reminder"] \in Request
    BY DEF Request, Types
  <2>3. req' \in [Requests -> Request]
    BY <1>2, <2>1, <2>2, IdleTyped, GoToTyped DEF CheckReminderRateLimit, Done
  <2>4. token' \in SUBSET Participants /\ granted' \in SUBSET Participants
    BY <1>2, <2>1, LimitsTyped DEF CheckReminderRateLimit
  <2> QED  BY <1>2, <2>3, <2>4 DEF CheckReminderRateLimit, TypeOK, session
<1>3. CASE RetryDispatch(r)
  <2>1. req[r].of \in Participants /\ req[r].type \in Types
    BY <1>3, Fields DEF RetryDispatch
  <2>2. req' \in [Requests -> Request]
    BY <1>3, IdleTyped, GoToTyped DEF RetryDispatch, Done
  <2>3. latest' \in [Participants -> Types \cup {"none"}] /\ informed' \in SUBSET Participants
    BY <1>3, <2>1, DispatchedTyped DEF RetryDispatch
  <2>4. reminded' \in [Participants -> Nat]
    <3>1. reminded[req[r].of] + 1 \in Nat
      BY <2>1 DEF TypeOK
    <3>2. reminded' = reminded \/ reminded' = [reminded EXCEPT ![req[r].of] = reminded[req[r].of] + 1]
      BY <1>3 DEF RetryDispatch
    <3> QED  BY <2>1, <3>1, <3>2 DEF TypeOK
  <2> QED  BY <1>3, <2>2, <2>3, <2>4 DEF RetryDispatch, TypeOK, session
<1> QED  BY <1>1, <1>2, <1>3

LEMMA TypeStep == TypeOK /\ [Next]_vars => TypeOK'
<1> SUFFICES ASSUME TypeOK, [Next]_vars PROVE TypeOK'
  OBVIOUS
<1>1. ASSUME NEW p \in Participants, WindowEnds(p) PROVE TypeOK'
  BY <1>1 DEF WindowEnds, TypeOK, session
<1>2. CASE UNCHANGED vars
  BY <1>2 DEF TypeOK, vars, session, limits
<1> QED
  BY <1>1, <1>2, Steps, RouteTypes, CountTyped, BatchTyped, ReminderTyped, BulkTyped, RetryTyped, Zenon

\* Times, statuses, the limiter's tokens, and what each request has read.
THEOREM TypeCorrect == Spec => []TypeOK
<1>1. ASSUME Init PROVE TypeOK
  <2>1. req \in [Requests -> Request]
    BY <1>1, IdleTyped DEF Init
  <2>2. status \in [Participants -> Unpaid \cup {"none", "paid", "removed"}]
    BY <1>1 DEF Init
  <2>3. latest \in [Participants -> Types \cup {"none"}] /\ reminded \in [Participants -> Nat]
    BY <1>1 DEF Init
  <2>4. served \in 0..MaxServed
    BY <1>1, GateAssumption DEF Init
  <2> QED  BY <1>1, <2>1, <2>2, <2>3, <2>4 DEF Init, TypeOK
<1> QED  BY <1>1, TypeStep, PTL DEF Spec

-----------------------------------------------------------------------------
(***************************************************************************)
(* Where a step leaves each request                                        *)
(***************************************************************************)

LEMMA Moved ==
  ASSUME TypeOK, NEW r \in Requests, NEW state, GoTo(r, state)
  PROVE  req'[r] = state /\ \A q \in Requests : q # r => req'[q] = req[q]
BY DEF TypeOK, GoTo

\* Steps that leave the limiter alone, and whose request holds no token then.
LEMMA Elsewhere ==
  ASSUME TypeOK, NEW r \in Requests,
         \/ \E force \in BOOLEAN : Send(r, force)
         \/ \E p \in Rows : Retry(r, p)
         \/ BulkReminder(r) \/ EditSession(r)
         \/ Count(r) \/ List(r) \/ Batch(r) \/ MarkNotified(r) \/ Update(r) \/ BumpNotificationCount(r)
         \/ GetReminderStatus(r) \/ BulkDispatch(r) \/ BulkEnds(r) \/ Fail(r)
  PROVE  /\ UNCHANGED limits
         /\ req'[r].pc \notin {"remind", "dispatch", "retry"}
         /\ \A q \in Requests : q # r => req'[q] = req[q]
<1>1. UNCHANGED limits
  BY DEF Send, Retry, BulkReminder, EditSession, Count, List, Batch, MarkNotified, Update,
         BumpNotificationCount, GetReminderStatus, BulkDispatch, BulkEnds, Fail
<1>2. CASE \E force \in BOOLEAN : Send(r, force)
  BY <1>1, <1>2, Moved DEF Send
<1>3. CASE \E p \in Rows : Retry(r, p)
  BY <1>1, <1>3, Moved DEF Retry
<1>4. CASE BulkReminder(r) \/ EditSession(r)
  BY <1>1, <1>4, Moved DEF BulkReminder, EditSession
<1>5. CASE MarkNotified(r) \/ Update(r) \/ BumpNotificationCount(r) \/ BulkEnds(r) \/ Fail(r)
  BY <1>1, <1>5, Moved DEF MarkNotified, Update, BumpNotificationCount, BulkEnds, Fail, Done, Idle
<1>6. CASE GetReminderStatus(r) \/ BulkDispatch(r) \/ List(r)
  <2>1. PICK p, left : \/ GoTo(r, [pc |-> "turn", of |-> p, left |-> left])
                       \/ GoTo(r, [pc |-> "bulk", left |-> left])
                       \/ GoTo(r, [pc |-> "batch", left |-> left, queued |-> {}])
                       \/ GoTo(r, [pc |-> "idle", at |-> 0])
    <3>1. CASE GetReminderStatus(r)
      BY <3>1 DEF GetReminderStatus
    <3>2. CASE BulkDispatch(r)
      BY <3>2 DEF BulkDispatch
    <3>3. CASE List(r)
      BY <3>3 DEF List, Done, Idle
    <3> QED  BY <1>6, <3>1, <3>2, <3>3
  <2> QED  BY <1>1, <2>1, Moved
<1>7. CASE Count(r)
  <2>1. DOMAIN req[r] = {"pc", "of", "open", "unpaid", "force", "present"} /\ req[r].pc = "count"
    BY <1>7, Fields DEF Count
  <2>2. PICK of, unpaid :
           \/ GoTo(r, [req[r] EXCEPT !.of = of, !.unpaid = unpaid])
           \/ GoTo(r, [pc |-> "list", open |-> req[r].open, unpaid |-> unpaid,
                       force |-> req[r].force, present |-> req[r].present])
    BY <1>7 DEF Count
  <2> DEFINE more == [req[r] EXCEPT !.of = of, !.unpaid = unpaid]
             last == [pc |-> "list", open |-> req[r].open, unpaid |-> unpaid,
                      force |-> req[r].force, present |-> req[r].present]
  <2>3. more.pc = "count" /\ last.pc = "list"
    BY <2>1
  <2>4. GoTo(r, more) \/ GoTo(r, last)
    BY <2>2
  <2> HIDE DEF more, last
  <2> QED  BY <1>1, <2>3, <2>4, Moved
<1>8. CASE Batch(r)
  <2>1. req[r] \in [pc: {"batch"}, left: SUBSET Participants, queued: SUBSET Participants]
    BY <1>8, Fields DEF Batch
  <2>2. PICK left, queued : \/ GoTo(r, [req[r] EXCEPT !.left = left, !.queued = queued])
                            \/ GoTo(r, [req[r] EXCEPT !.left = left])
    BY <1>8 DEF Batch
  <2>3. [req[r] EXCEPT !.left = left, !.queued = queued].pc = "batch" /\ [req[r] EXCEPT !.left = left].pc = "batch"
    BY <2>1
  <2> QED  BY <1>1, <2>2, <2>3, Moved
<1> QED  BY <1>2, <1>3, <1>4, <1>5, <1>6, <1>7, <1>8

-----------------------------------------------------------------------------
(***************************************************************************)
(* The quota                                                               *)
(***************************************************************************)

\* The request has taken the participant's token and its reminder is to come.
Holds(r, p) ==
  /\ req[r].pc \in {"remind", "dispatch"} \/ (req[r].pc = "retry" /\ req[r].type = "reminder")
  /\ req[r].of = p

\* A token is nowhere, with the limiter, with one request, or spent.
QuotaInvariant == \A p \in Participants \ granted :
  /\ reminded[p] <= 1
  /\ p \in token => reminded[p] = 0
  /\ \A r \in Requests : Holds(r, p) => p \notin token /\ reminded[p] = 0
  /\ \A r, s \in Requests : Holds(r, p) /\ Holds(s, p) => r = s

LEMMA QuotaUntouched ==
  ASSUME QuotaInvariant, UNCHANGED limits,
         \A q \in Requests, p \in Participants : Holds(q, p)' => Holds(q, p)
  PROVE  QuotaInvariant'
<1> SUFFICES ASSUME NEW p \in Participants \ granted
             PROVE  /\ reminded[p] <= 1
                    /\ p \in token => reminded[p] = 0
                    /\ \A r \in Requests : Holds(r, p)' => p \notin token /\ reminded[p] = 0
                    /\ \A r, s \in Requests : Holds(r, p)' /\ Holds(s, p)' => r = s
  BY DEF QuotaInvariant, limits
<1> HIDE DEF Holds
<1> QED  BY DEF QuotaInvariant

\* A token taken, or a limiter that could not be asked.
LEMMA QuotaGranted ==
  ASSUME TypeOK, QuotaInvariant, NEW r \in Requests, NEW p \in Participants, Allowed(p), UNCHANGED reminded,
         \A q \in Requests, o \in Participants : Holds(q, o)' => Holds(q, o) \/ (q = r /\ o = p)
  PROVE  QuotaInvariant'
<1> SUFFICES ASSUME NEW o \in Participants \ granted'
             PROVE  /\ reminded[o] <= 1
                    /\ o \in token' => reminded[o] = 0
                    /\ \A q \in Requests : Holds(q, o)' => o \notin token' /\ reminded[o] = 0
                    /\ \A q, s \in Requests : Holds(q, o)' /\ Holds(s, o)' => q = s
  BY DEF QuotaInvariant
<1> HIDE DEF Holds
<1>1. o \in Participants \ granted /\ token' \subseteq token
  BY DEF Allowed, Take
<1>2. o = p => o \in token /\ o \notin token'
  BY DEF Allowed, Take
<1>3. /\ reminded[o] <= 1 /\ (o \in token => reminded[o] = 0)
      /\ \A q \in Requests : Holds(q, o) => o \notin token /\ reminded[o] = 0
      /\ \A q, s \in Requests : Holds(q, o) /\ Holds(s, o) => q = s
  BY <1>1 DEF QuotaInvariant
<1>4. CASE o = p
  <2>1. \A q \in Requests : ~Holds(q, o)
    BY <1>2, <1>3, <1>4
  <2> QED  BY <1>2, <1>3, <1>4, <2>1
<1>5. CASE o # p
  BY <1>1, <1>3, <1>5
<1> QED  BY <1>4, <1>5

\* A reminder queued by a request that holds the token, which it then drops.
LEMMA QuotaSpent ==
  ASSUME TypeOK, QuotaInvariant, NEW r \in Requests, NEW p \in Participants, Holds(r, p),
         UNCHANGED <<token, granted>>, reminded' = [reminded EXCEPT ![p] = reminded[p] + 1],
         \A q \in Requests, o \in Participants : Holds(q, o)' => Holds(q, o) /\ q # r
  PROVE  QuotaInvariant'
<1> SUFFICES ASSUME NEW o \in Participants \ granted
             PROVE  /\ reminded'[o] <= 1
                    /\ o \in token => reminded'[o] = 0
                    /\ \A q \in Requests : Holds(q, o)' => o \notin token /\ reminded'[o] = 0
                    /\ \A q, s \in Requests : Holds(q, o)' /\ Holds(s, o)' => q = s
  BY DEF QuotaInvariant
<1> HIDE DEF Holds
<1>1. /\ reminded[o] <= 1 /\ (o \in token => reminded[o] = 0)
      /\ \A q \in Requests : Holds(q, o) => o \notin token /\ reminded[o] = 0
      /\ \A q, s \in Requests : Holds(q, o) /\ Holds(s, o) => q = s
  BY DEF QuotaInvariant
<1>2. reminded'[o] = IF o = p THEN reminded[p] + 1 ELSE reminded[o]
  BY DEF TypeOK
<1>3. CASE o = p
  <2>1. p \notin token /\ reminded[p] = 0 /\ reminded'[o] = 1
    BY <1>1, <1>2, <1>3
  <2>2. \A q \in Requests : ~Holds(q, o)'
    BY <1>1, <1>3
  <2> QED  BY <1>3, <2>1, <2>2
<1>4. CASE o # p
  BY <1>1, <1>2, <1>4
<1> QED  BY <1>3, <1>4

LEMMA QuotaStep == TypeOK /\ QuotaInvariant /\ [Next]_vars => QuotaInvariant'
<1> SUFFICES ASSUME TypeOK, QuotaInvariant, [Next]_vars PROVE QuotaInvariant'
  OBVIOUS
<1>1. ASSUME NEW p \in Participants, WindowEnds(p) PROVE QuotaInvariant'
  <2>1. /\ token' = token \cup {p} /\ granted' = granted \ {p} /\ UNCHANGED req
        /\ \A o \in Participants : reminded'[o] = IF o = p THEN 0 ELSE reminded[o]
    BY <1>1 DEF WindowEnds, TypeOK
  <2>2. \A q \in Requests : ~Holds(q, p)
    BY <1>1 DEF WindowEnds, Holds
  <2>3. \A q \in Requests, o \in Participants : Holds(q, o)' <=> Holds(q, o)
    BY <2>1 DEF Holds
  <2> SUFFICES ASSUME NEW o \in Participants \ granted'
               PROVE  /\ reminded'[o] <= 1
                      /\ o \in token' => reminded'[o] = 0
                      /\ \A q \in Requests : Holds(q, o)' => o \notin token' /\ reminded'[o] = 0
                      /\ \A q, s \in Requests : Holds(q, o)' /\ Holds(s, o)' => q = s
    BY DEF QuotaInvariant
  <2> HIDE DEF Holds
  <2>4. CASE o = p
    BY <2>1, <2>2, <2>3, <2>4
  <2>5. CASE o # p
    BY <2>1, <2>3, <2>5 DEF QuotaInvariant
  <2> QED  BY <2>4, <2>5
<1>2. CASE UNCHANGED vars
  BY <1>2, QuotaUntouched DEF vars, Holds
<1>3. ASSUME NEW r \in Requests,
             \/ \E force \in BOOLEAN : Send(r, force)
             \/ \E p \in Rows : Retry(r, p)
             \/ BulkReminder(r) \/ EditSession(r)
             \/ Count(r) \/ List(r) \/ Batch(r) \/ MarkNotified(r) \/ Update(r) \/ BumpNotificationCount(r)
             \/ GetReminderStatus(r) \/ BulkDispatch(r) \/ BulkEnds(r) \/ Fail(r)
      PROVE  QuotaInvariant'
  <2>1. /\ UNCHANGED limits
        /\ req'[r].pc \notin {"remind", "dispatch", "retry"}
        /\ \A q \in Requests : q # r => req'[q] = req[q]
    BY <1>3, Elsewhere
  <2>2. \A q \in Requests, o \in Participants : Holds(q, o)' => Holds(q, o)
    BY <2>1 DEF Holds
  <2> QED  BY <2>1, <2>2, QuotaUntouched
<1>4. ASSUME NEW r \in Requests,
             \/ \E p \in Participants : AddParticipant(r, p) \/ RemoveParticipant(r, p)
             \/ \E p \in Participants, to \in Unpaid \cup {"paid"} : Pay(r, p, to)
             \/ EditBill(r)
      PROVE  QuotaInvariant'
  <2>1. UNCHANGED <<limits, req>>
    BY <1>4 DEF AddParticipant, RemoveParticipant, Pay, EditBill
  <2> QED  BY <2>1, QuotaUntouched DEF Holds
<1>5. ASSUME NEW r \in Requests, NEW p \in Rows, SendReminder(r, p) PROVE QuotaInvariant'
  <2>1. p \in Participants
    BY RowsTyped
  <2>2. CASE Allowed(p) /\ GoTo(r, [pc |-> "remind", of |-> p])
    <3>1. req'[r] = [pc |-> "remind", of |-> p] /\ \A q \in Requests : q # r => req'[q] = req[q]
      BY <2>2, Moved
    <3>2. \A q \in Requests, o \in Participants : Holds(q, o)' => Holds(q, o) \/ (q = r /\ o = p)
      BY <3>1 DEF Holds
    <3> QED  BY <1>5, <2>1, <2>2, <3>2, QuotaGranted DEF SendReminder
  <2>3. CASE Refused(p) /\ Done(r)
    <3>1. req'[r] = Idle /\ \A q \in Requests : q # r => req'[q] = req[q]
      BY <2>3, Moved DEF Done
    <3>2. \A q \in Requests, o \in Participants : Holds(q, o)' => Holds(q, o)
      BY <3>1 DEF Holds, Idle
    <3> QED  BY <1>5, <2>3, <3>2, QuotaUntouched DEF SendReminder, Refused, limits
  <2> QED  BY <1>5, <2>2, <2>3 DEF SendReminder
<1>6. ASSUME NEW r \in Requests, FindByID(r) PROVE QuotaInvariant'
  <2>1. req[r].pc = "remind" /\ UNCHANGED limits
    BY <1>6 DEF FindByID
  <2>2. PICK s : \/ GoTo(r, [pc |-> "dispatch", of |-> req[r].of, status |-> s])
                 \/ GoTo(r, Idle)
    BY <1>6 DEF FindByID, Done
  <2>3. /\ req'[r] = [pc |-> "dispatch", of |-> req[r].of, status |-> s] \/ req'[r] = Idle
        /\ \A q \in Requests : q # r => req'[q] = req[q]
    BY <2>2, Moved
  <2>4. \A q \in Requests, o \in Participants : Holds(q, o)' => Holds(q, o)
    BY <2>1, <2>3 DEF Holds, Idle
  <2> QED  BY <2>1, <2>4, QuotaUntouched
<1>7. ASSUME NEW r \in Requests, Dispatch(r) PROVE QuotaInvariant'
  <2>1. req[r] \in [pc: {"dispatch", "bump"}, of: Participants, status: Unpaid] /\ req[r].pc = "dispatch"
    BY <1>7, Fields DEF Dispatch
  <2>2. req'[r].pc = "bump" /\ \A q \in Requests : q # r => req'[q] = req[q]
    BY <1>7, <2>1, Moved DEF Dispatch
  <2>3. \A q \in Requests, o \in Participants : Holds(q, o)' => Holds(q, o) /\ q # r
    BY <2>2 DEF Holds
  <2>4. PICK p \in Participants : p = req[r].of
    BY <2>1
  <2>5. Holds(r, p)
    BY <2>1, <2>4 DEF Holds
  <2>6. reminded' = [reminded EXCEPT ![p] = reminded[p] + 1] /\ UNCHANGED <<token, granted>>
    BY <1>7, <2>4 DEF Dispatch
  <2> QED  BY <2>3, <2>5, <2>6, QuotaSpent
<1>8. ASSUME NEW r \in Requests, FindLatest(r) PROVE QuotaInvariant'
  <2>1. PICK p \in Participants : p = req[r].of
    BY <1>8, Fields DEF FindLatest
  <2>2. PICK type : /\ type # "reminder"
                    /\ \/ GoTo(r, [pc |-> "try", of |-> p])
                       \/ GoTo(r, [pc |-> "retry", of |-> p, type |-> type])
    <3>1. latest[p] = "reminder" => GoTo(r, [pc |-> "try", of |-> p])
      BY <1>8, <2>1 DEF FindLatest
    <3>2. latest[p] # "reminder" =>
            GoTo(r, [pc |-> "retry", of |-> p, type |-> IF latest[p] = "none" THEN "initial" ELSE latest[p]])
      BY <1>8, <2>1 DEF FindLatest
    <3>3. latest[p] # "reminder" => (IF latest[p] = "none" THEN "initial" ELSE latest[p]) # "reminder"
      OBVIOUS
    <3>4. "initial" # "reminder"
      OBVIOUS
    <3> QED  BY <3>1, <3>2, <3>3, <3>4
  <2>3. /\ req'[r] = [pc |-> "try", of |-> p] \/ req'[r] = [pc |-> "retry", of |-> p, type |-> type]
        /\ \A q \in Requests : q # r => req'[q] = req[q]
    BY <2>2, Moved
  <2>4. \A q \in Requests, o \in Participants : Holds(q, o)' => Holds(q, o)
    BY <2>2, <2>3 DEF Holds
  <2> QED  BY <1>8, <2>4, QuotaUntouched DEF FindLatest
<1>9. ASSUME NEW r \in Requests, CheckReminderRateLimit(r) PROVE QuotaInvariant'
  <2>1. PICK p \in Participants : p = req[r].of
    BY <1>9, Fields DEF CheckReminderRateLimit
  <2>2. CASE Allowed(p) /\ GoTo(r, [pc |-> "retry", of |-> p, type |-> "reminder"])
    <3>1. /\ req'[r] = [pc |-> "retry", of |-> p, type |-> "reminder"]
          /\ \A q \in Requests : q # r => req'[q] = req[q]
      BY <2>2, Moved
    <3>2. \A q \in Requests, o \in Participants : Holds(q, o)' => Holds(q, o) \/ (q = r /\ o = p)
      BY <3>1 DEF Holds
    <3> QED  BY <1>9, <2>2, <3>2, QuotaGranted DEF CheckReminderRateLimit
  <2>3. CASE Refused(p) /\ Done(r)
    <3>1. req'[r] = Idle /\ \A q \in Requests : q # r => req'[q] = req[q]
      BY <2>3, Moved DEF Done
    <3>2. \A q \in Requests, o \in Participants : Holds(q, o)' => Holds(q, o)
      BY <3>1 DEF Holds, Idle
    <3> QED  BY <1>9, <2>3, <3>2, QuotaUntouched DEF CheckReminderRateLimit, Refused, limits
  <2> QED  BY <1>9, <2>1, <2>2, <2>3 DEF CheckReminderRateLimit
<1>10. ASSUME NEW r \in Requests, RetryDispatch(r) PROVE QuotaInvariant'
  <2>1. req'[r] = Idle /\ \A q \in Requests : q # r => req'[q] = req[q]
    BY <1>10, Moved DEF RetryDispatch, Done
  <2>2. \A q \in Requests, o \in Participants : Holds(q, o)' => Holds(q, o) /\ q # r
    BY <2>1 DEF Holds, Idle
  <2>3. CASE req[r].type = "reminder"
    <3>1. PICK p \in Participants : p = req[r].of
      BY <1>10, Fields DEF RetryDispatch
    <3>2. Holds(r, p)
      BY <1>10, <2>3, <3>1 DEF RetryDispatch, Holds
    <3>3. reminded' = [reminded EXCEPT ![p] = reminded[p] + 1] /\ UNCHANGED <<token, granted>>
      BY <1>10, <2>3, <3>1 DEF RetryDispatch
    <3> QED  BY <2>2, <3>2, <3>3, QuotaSpent
  <2>4. CASE req[r].type # "reminder"
    BY <1>10, <2>2, <2>4, QuotaUntouched DEF RetryDispatch, limits
  <2> QED  BY <2>3, <2>4
<1> QED
  BY <1>1, <1>2, <1>3, <1>4, <1>5, <1>6, <1>7, <1>8, <1>9, <1>10, Steps, Zenon

\* A participant gets one granted reminder per token.
THEOREM OneReminderPerToken == Spec => []ReminderQuota
<1>1. ASSUME Init PROVE QuotaInvariant
  <2>1. \A r \in Requests, p \in Participants : ~Holds(r, p)
    BY <1>1 DEF Init, Holds, Idle
  <2>2. \A p \in Participants : reminded[p] = 0
    BY <1>1 DEF Init
  <2> HIDE DEF Holds
  <2>3. ASSUME NEW p \in Participants \ granted
        PROVE  /\ reminded[p] <= 1 /\ (p \in token => reminded[p] = 0)
               /\ \A r \in Requests : Holds(r, p) => p \notin token /\ reminded[p] = 0
               /\ \A r, s \in Requests : Holds(r, p) /\ Holds(s, p) => r = s
    <3>1. reminded[p] = 0 /\ \A r \in Requests : ~Holds(r, p)
      BY <2>1, <2>2
    <3> QED  BY <3>1
  <2> QED  BY <2>3, Zenon DEF QuotaInvariant
<1>2. QuotaInvariant => ReminderQuota
  BY DEF QuotaInvariant, ReminderQuota
<1> QED  BY <1>1, <1>2, QuotaStep, TypeCorrect, PTL DEF Spec

-----------------------------------------------------------------------------
(***************************************************************************)
(* The three counts                                                        *)
(***************************************************************************)

\* The statuses a request has counted so far.
Counted(q) ==
  IF q.pc = "list" THEN Unpaid
  ELSE CASE q.of = "pending" -> {} [] q.of = "submitted" -> {"pending"} [] OTHER -> {"pending", "submitted"}

\* Nobody moves back into a status that was counted.
CountInvariant == reverted \/ \A r \in Requests : req[r].pc \in {"count", "list"} =>
  \A p \in req[r].present :
    status[p] # "none" /\ (~req[r].unpaid => status[p] \notin Counted(req[r]))

Settling(from, to) == from = to \/ to = "removed" \/ Forward(from, to)

LEMMA CountKept ==
  ASSUME TypeOK, CountInvariant, reverted \in BOOLEAN, reverted' = FALSE => reverted = FALSE,
         \A p \in Participants :
           status[p] # "none" => reverted' \/ (Settling(status[p], status'[p]) /\ status'[p] # "none"),
         \A q \in Requests : \/ req'[q] = req[q]
                             \/ req'[q].pc \notin {"count", "list"},
         reverted' \in BOOLEAN
  PROVE  CountInvariant'
<1> SUFFICES ASSUME reverted' = FALSE, NEW r \in Requests, req'[r].pc \in {"count", "list"}, NEW p \in req'[r].present
             PROVE  status'[p] # "none" /\ (~req'[r].unpaid => status'[p] \notin Counted(req'[r]))
  BY DEF CountInvariant
<1>1. req'[r] = req[r] /\ p \in Participants
  BY Fields
<1>2. status[p] # "none" /\ (~req[r].unpaid => status[p] \notin Counted(req[r]))
  BY <1>1 DEF CountInvariant
<1>3. Settling(status[p], status'[p]) /\ status'[p] # "none"
  BY <1>1, <1>2
<1>4. status[p] \notin Counted(req[r]) => status'[p] \notin Counted(req[r])
  BY <1>2, <1>3 DEF Counted, Settling, Forward, Unpaid
<1> QED  BY <1>1, <1>2, <1>3, <1>4

LEMMA CountStep == TypeOK /\ TypeOK' /\ CountInvariant /\ [Next]_vars => CountInvariant'
<1> SUFFICES ASSUME TypeOK, TypeOK', CountInvariant, [Next]_vars PROVE CountInvariant'
  OBVIOUS
<1>0. reverted \in BOOLEAN /\ reverted' \in BOOLEAN
  BY DEF TypeOK
<1>1. ASSUME UNCHANGED <<req, status, reverted>> PROVE CountInvariant'
  BY <1>1 DEF CountInvariant
<1>2. ASSUME NEW r \in Requests, NEW force \in BOOLEAN, Send(r, force) PROVE CountInvariant'
  <2>1. /\ req'[r] = [pc |-> "count", of |-> "pending", open |-> Open,
                      unpaid |-> FALSE, force |-> force, present |-> Rows]
        /\ \A q \in Requests : q # r => req'[q] = req[q]
        /\ UNCHANGED <<status, reverted>>
    BY <1>2, Moved DEF Send
  <2>2. \A p \in Rows : status[p] # "none" /\ status[p] \notin Counted(req'[r])
    BY <2>1 DEF Rows, Counted
  <2>3. req'[r].present = Rows
    BY <2>1
  <2>4. ASSUME reverted' = FALSE, NEW o \in Requests, req'[o].pc \in {"count", "list"}, NEW p \in req'[o].present
        PROVE  status'[p] # "none" /\ (~req'[o].unpaid => status'[p] \notin Counted(req'[o]))
    <3>1. CASE o = r
      BY <2>1, <2>2, <2>3, <2>4, <3>1
    <3>2. CASE o # r
      BY <2>1, <2>4, <3>2 DEF CountInvariant
    <3> QED  BY <3>1, <3>2
  <2> QED  BY <1>0, <2>4 DEF CountInvariant
<1>3. ASSUME NEW r \in Requests, Count(r) PROVE CountInvariant'
  <2> DEFINE q == req[r]
             unpaid == q.unpaid \/ \E p \in Rows : status[p] = q.of
             more == [q EXCEPT !.of = After(q.of), !.unpaid = unpaid]
             last == [pc |-> "list", open |-> q.open, unpaid |-> unpaid, force |-> q.force, present |-> q.present]
  <2>1. /\ q \in [pc: {"count"}, of: Unpaid, open: BOOLEAN, unpaid: BOOLEAN, force: BOOLEAN, present: SUBSET Participants]
    <3>1. req[r] \in Request /\ req[r].pc = "count"
      BY <1>3 DEF TypeOK, Count
    <3> QED  BY <3>1 DEF Request
  <2>2. /\ req'[r] = IF After(q.of) # "none" THEN more ELSE last
        /\ \A o \in Requests : o # r => req'[o] = req[o]
        /\ UNCHANGED <<status, reverted>>
    <3> HIDE DEF more, last
    <3>1. GoTo(r, IF After(q.of) # "none" THEN more ELSE last)
      BY <1>3 DEF Count, more, last
    <3> QED  BY <1>3, <3>1, Moved DEF Count
  <2>3. /\ req'[r].present = q.present /\ req'[r].unpaid = unpaid
        /\ req'[r].pc = "list" \/ (req'[r].pc = "count" /\ req'[r].of = After(q.of) /\ After(q.of) # "none")
    <3> HIDE DEF unpaid
    <3> QED  BY <2>1, <2>2
  <2>4. req'[r].pc = "list" => After(q.of) = "none"
    <3> HIDE DEF unpaid
    <3> QED  BY <2>1, <2>2
  <2>5. Counted(req'[r]) \subseteq Counted(q) \cup {q.of}
    <3> HIDE DEF unpaid, more, last
    <3>1. q.of \in Unpaid /\ q.pc = "count"
      BY <2>1
    <3> QED  BY <2>3, <2>4, <3>1 DEF Counted, After, Unpaid
  <2>6. ASSUME reverted = FALSE, NEW p \in q.present
        PROVE  status[p] # "none" /\ (~unpaid => status[p] \notin Counted(q) \cup {q.of})
    <3>1. q.pc = "count" /\ p \in Participants /\ q.of \in Unpaid
      BY <2>1
    <3>2. status[p] # "none" /\ (~q.unpaid => status[p] \notin Counted(q))
      BY <2>6, <3>1 DEF CountInvariant
    <3>3. status[p] = q.of => p \in Rows
      BY <3>1 DEF Rows, Unpaid
    <3> QED  BY <3>2, <3>3
  <2> HIDE DEF q, unpaid, more, last
  <2>7. ASSUME reverted' = FALSE, NEW o \in Requests, req'[o].pc \in {"count", "list"}, NEW p \in req'[o].present
        PROVE  status'[p] # "none" /\ (~req'[o].unpaid => status'[p] \notin Counted(req'[o]))
    <3>1. CASE o = r
      BY <2>2, <2>3, <2>5, <2>6, <2>7, <3>1
    <3>2. CASE o # r
      BY <2>2, <2>7, <3>2 DEF CountInvariant
    <3> QED  BY <3>1, <3>2
  <2> QED  BY <1>0, <2>7 DEF CountInvariant
<1>4. ASSUME NEW r \in Requests,
             \/ List(r) \/ MarkNotified(r) \/ Batch(r)
             \/ BulkReminder(r) \/ EditSession(r) \/ Update(r)
             \/ \E p \in Rows : Retry(r, p) \/ SendReminder(r, p)
             \/ FindByID(r) \/ Dispatch(r) \/ GetReminderStatus(r) \/ BulkDispatch(r) \/ BulkEnds(r)
             \/ FindLatest(r) \/ CheckReminderRateLimit(r) \/ RetryDispatch(r) \/ Fail(r)
      PROVE  CountInvariant'
  <2>1. UNCHANGED <<status, reverted>>
    BY <1>4 DEF List, MarkNotified, Batch, BulkReminder, EditSession, Update, Retry, SendReminder, FindByID,
                Dispatch, GetReminderStatus, BulkDispatch, BulkEnds, FindLatest, CheckReminderRateLimit,
                RetryDispatch, Fail
  <2>2. req'[r].pc \notin {"count", "list"} /\ \A q \in Requests : q # r => req'[q] = req[q]
    <3>1. CASE MarkNotified(r) \/ Update(r) \/ BulkEnds(r) \/ RetryDispatch(r) \/ Fail(r)
      BY <3>1, Moved DEF MarkNotified, Update, BulkEnds, RetryDispatch, Fail, Done, Idle
    <3>2. CASE BulkReminder(r) \/ EditSession(r)
      BY <3>2, Moved DEF BulkReminder, EditSession
    <3>3. CASE \E p \in Rows : Retry(r, p)
      BY <3>3, Moved DEF Retry
    <3>4. CASE \E p \in Rows : SendReminder(r, p)
      BY <3>4, Moved DEF SendReminder, Done, Idle
    <3>5. CASE Batch(r)
      <4>1. req[r] \in [pc: {"batch"}, left: SUBSET Participants, queued: SUBSET Participants]
        BY <3>5, Fields DEF Batch
      <4>2. PICK left, queued : \/ GoTo(r, [req[r] EXCEPT !.left = left, !.queued = queued])
                                \/ GoTo(r, [req[r] EXCEPT !.left = left])
        BY <3>5 DEF Batch
      <4>3. [req[r] EXCEPT !.left = left, !.queued = queued].pc = "batch" /\ [req[r] EXCEPT !.left = left].pc = "batch"
        BY <4>1
      <4> QED  BY <4>2, <4>3, Moved
    <3>6. CASE List(r)
      BY <3>6, Moved DEF List, Done, Idle
    <3>7. CASE FindByID(r)
      BY <3>7, Moved DEF FindByID, Done, Idle
    <3>8. CASE Dispatch(r)
      <4>1. req[r] \in [pc: {"dispatch", "bump"}, of: Participants, status: Unpaid]
        BY <3>8, Fields DEF Dispatch
      <4> QED  BY <3>8, <4>1, Moved DEF Dispatch
    <3>9. CASE GetReminderStatus(r)
      BY <3>9, Moved DEF GetReminderStatus
    <3>10. CASE BulkDispatch(r)
      BY <3>10, Moved DEF BulkDispatch
    <3>11. CASE FindLatest(r)
      <4>1. PICK p, type : \/ GoTo(r, [pc |-> "try", of |-> p])
                           \/ GoTo(r, [pc |-> "retry", of |-> p, type |-> type])
        BY <3>11 DEF FindLatest
      <4> QED  BY <4>1, Moved
    <3>12. CASE CheckReminderRateLimit(r)
      BY <3>12, Moved DEF CheckReminderRateLimit, Done, Idle
    <3> QED
      BY <1>4, <3>1, <3>2, <3>3, <3>4, <3>5, <3>6, <3>7, <3>8, <3>9, <3>10, <3>11, <3>12
  <2>3. \A p \in Participants : Settling(status[p], status'[p])
    BY <2>1 DEF Settling
  <2> QED  BY <1>0, <2>1, <2>2, <2>3, CountKept
<1>5. ASSUME NEW r \in Requests, NEW p \in Participants, AddParticipant(r, p) \/ RemoveParticipant(r, p)
      PROVE  CountInvariant'
  <2>1. \A o \in Participants : status[o] # "none" => Settling(status[o], status'[o]) /\ status'[o] # "none"
    BY <1>5 DEF AddParticipant, RemoveParticipant, TypeOK, Settling
  <2> QED  BY <1>0, <1>5, <2>1, CountKept DEF AddParticipant, RemoveParticipant
<1>6. ASSUME NEW r \in Requests, NEW p \in Participants, NEW to \in Unpaid \cup {"paid"}, Pay(r, p, to)
      PROVE  CountInvariant'
  <2>1. /\ status' = [status EXCEPT ![p] = to] /\ UNCHANGED req
        /\ reverted' = (reverted \/ ~Forward(status[p], to))
        /\ to # "none"
    BY <1>6 DEF Pay, Unpaid
  <2>2. \A o \in Participants :
          status[o] # "none" => reverted' \/ (Settling(status[o], status'[o]) /\ status'[o] # "none")
    BY <2>1 DEF TypeOK, Settling
  <2> QED  BY <1>0, <2>1, <2>2, CountKept
<1>7. ASSUME NEW r \in Requests, BumpNotificationCount(r) PROVE CountInvariant'
  <2>1. req[r].of \in Participants /\ req[r].status \in Unpaid
    BY <1>7, Fields DEF BumpNotificationCount
  <2>2. req'[r] = Idle /\ \A q \in Requests : q # r => req'[q] = req[q]
    BY <1>7, Moved DEF BumpNotificationCount, Done
  <2>3. \/ UNCHANGED <<status, reverted>>
        \/ /\ status' = [status EXCEPT ![req[r].of] = req[r].status]
           /\ reverted' = (reverted \/ status[req[r].of] # req[r].status)
    BY <1>7 DEF BumpNotificationCount
  <2>4. \A o \in Participants : status[o] # "none" => reverted' \/ status'[o] = status[o]
    BY <2>1, <2>3 DEF TypeOK
  <2>5. reverted' = FALSE => reverted = FALSE
    BY <2>3, <1>0
  <2>6. \A o \in Participants :
          status[o] # "none" => reverted' \/ (Settling(status[o], status'[o]) /\ status'[o] # "none")
    BY <2>4 DEF Settling
  <2>7. \A q \in Requests : req'[q] = req[q] \/ req'[q].pc \notin {"count", "list"}
    BY <2>2 DEF Idle
  <2> QED  BY <1>0, <2>5, <2>6, <2>7, CountKept
<1>8. ASSUME NEW r \in Requests, EditBill(r) PROVE CountInvariant'
  BY <1>1, <1>8 DEF EditBill
<1>9. ASSUME NEW p \in Participants, WindowEnds(p) PROVE CountInvariant'
  BY <1>1, <1>9 DEF WindowEnds
<1>10. CASE UNCHANGED vars
  BY <1>1, <1>10 DEF vars
<1> QED
  BY <1>2, <1>3, <1>4, <1>5, <1>6, <1>7, <1>8, <1>9, <1>10, Steps, Zenon

\* Whoever owes through all of a batch is counted.
THEOREM NobodyUncounted == Spec => []CountsMissNobody
<1>1. Init => CountInvariant
  BY DEF Init, CountInvariant, Idle
<1>2. TypeOK /\ CountInvariant => CountsMissNobody
  <2> SUFFICES ASSUME TypeOK, CountInvariant, ~reverted, NEW r \in Requests, req[r].pc = "list", ~req[r].unpaid,
                      NEW p \in req[r].present
               PROVE  status[p] \in {"paid", "removed"}
    BY DEF CountsMissNobody
  <2>1. p \in Participants
    BY Fields
  <2>2. status[p] # "none" /\ status[p] \notin Unpaid
    BY DEF CountInvariant, Counted
  <2> QED  BY <2>1, <2>2 DEF TypeOK
<1> QED  BY <1>1, <1>2, CountStep, TypeCorrect, PTL DEF Spec

-----------------------------------------------------------------------------
(***************************************************************************)
(* The gate                                                                *)
(***************************************************************************)

\* No stamp is of the future.
StampsPast ==
  /\ updated <= now /\ notified <= now
  /\ \A r \in Requests : req[r].pc = "edit" => req[r].at <= now

\* What a batch has queued is current until something it shows changes.
QueuedCurrent == \A r \in Requests \ changed : req[r].pc = "batch" => req[r].queued \subseteq informed

GateInvariant == StampsPast /\ QueuedCurrent /\ GateClosedMeansTold

\* Steps that touch the session keep the gate open to the host.
LEMMA GateTouched ==
  ASSUME TypeOK, GateInvariant, Touch, UNCHANGED notified,
         changed' = Requests \/ (changed' = changed /\ informed \subseteq informed'),
         \A q \in Requests : req'[q] = req[q] \/ req'[q].pc \notin {"edit", "batch"}
  PROVE  GateInvariant'
<1>1. /\ updated' = now + 1 /\ now' = now + 1 /\ now \in Nat /\ notified \in Nat /\ updated \in Nat
      /\ notified <= now /\ notified' = notified
  BY DEF Touch, TypeOK, GateInvariant, StampsPast
<1>2. Open'
  BY <1>1 DEF Open
<1>3. StampsPast'
  <2>1. ASSUME NEW q \in Requests, req'[q].pc = "edit" PROVE req'[q].at <= now'
    <3>1. req'[q] = req[q]
      BY <2>1
    <3>2. req[q].at \in Nat /\ req[q].at <= now
      BY <2>1, <3>1, Fields DEF GateInvariant, StampsPast
    <3> QED  BY <1>1, <3>1, <3>2
  <2> QED  BY <1>1, <2>1 DEF StampsPast
<1>4. QueuedCurrent'
  <2>1. ASSUME NEW q \in Requests \ changed', req'[q].pc = "batch" PROVE req'[q].queued \subseteq informed'
    <3>1. req'[q] = req[q] /\ q \notin changed /\ informed \subseteq informed'
      BY <2>1
    <3> QED  BY <2>1, <3>1 DEF GateInvariant, QueuedCurrent
  <2> QED  BY <2>1 DEF QueuedCurrent
<1>5. GateClosedMeansTold'
  BY <1>2 DEF GateClosedMeansTold, IsDirtyForNotify
<1> QED  BY <1>3, <1>4, <1>5 DEF GateInvariant

\* Steps that stamp nothing and whose request is not editing nor queueing then.
LEMMA GateUntouched ==
  ASSUME TypeOK, GateInvariant, UNCHANGED <<session, now, status, missed>>,
         informed \subseteq informed', NEW r, changed' \in {changed, changed \ {r}},
         \A q \in Requests : req'[q] = req[q] \/ req'[q].pc \notin {"edit", "batch"},
         r \in Requests => req'[r].pc \notin {"edit", "batch"}
  PROVE  GateInvariant'
<1>1. StampsPast'
  BY DEF GateInvariant, StampsPast, session
<1>2. QueuedCurrent'
  <2>1. ASSUME NEW q \in Requests \ changed', req'[q].pc = "batch" PROVE req'[q].queued \subseteq informed'
    <3>1. req'[q] = req[q] /\ q \notin changed
      BY <2>1
    <3> QED  BY <2>1, <3>1 DEF GateInvariant, QueuedCurrent
  <2> QED  BY <2>1 DEF QueuedCurrent
<1>3. GateClosedMeansTold'
  BY DEF GateInvariant, GateClosedMeansTold, IsDirtyForNotify, Open, Rows, session
<1> QED  BY <1>1, <1>2, <1>3 DEF GateInvariant

LEMMA InformedGrows ==
  ASSUME NEW r, NEW p, NEW type, Dispatched(r, p, type)
  PROVE  informed \subseteq informed' /\ (r \notin changed => p \in informed')
BY DEF Dispatched

LEMMA GateStep == TypeOK /\ TypeOK' /\ GateInvariant /\ [Next]_vars => GateInvariant'
<1> SUFFICES ASSUME TypeOK, TypeOK', GateInvariant, [Next]_vars PROVE GateInvariant'
  OBVIOUS
<1>1. ASSUME NEW r \in Requests,
             \/ \E force \in BOOLEAN : Send(r, force)
             \/ \E p \in Rows : Retry(r, p) \/ SendReminder(r, p)
             \/ BulkReminder(r) \/ Count(r)
             \/ FindByID(r) \/ Dispatch(r) \/ GetReminderStatus(r) \/ BulkDispatch(r) \/ BulkEnds(r)
             \/ FindLatest(r) \/ CheckReminderRateLimit(r) \/ RetryDispatch(r) \/ Fail(r)
      PROVE  GateInvariant'
  <2>1. UNCHANGED <<session, now, status, missed>> /\ changed' \in {changed, changed \ {r}}
    BY <1>1 DEF Send, Retry, SendReminder, BulkReminder, Count, FindByID, Dispatch, GetReminderStatus,
                BulkDispatch, BulkEnds, FindLatest, CheckReminderRateLimit, RetryDispatch, Fail, Begins
  <2>2. informed \subseteq informed'
    <3>1. CASE Dispatch(r) \/ BulkDispatch(r) \/ RetryDispatch(r)
      <4>1. CASE Dispatch(r)
        BY <4>1, InformedGrows DEF Dispatch
      <4>2. CASE BulkDispatch(r)
        <5>1. Dispatched(r, req[r].of, "reminder") \/ UNCHANGED <<latest, informed>>
          BY <4>2 DEF BulkDispatch
        <5> QED  BY <5>1, InformedGrows
      <4>3. CASE RetryDispatch(r)
        BY <4>3, InformedGrows DEF RetryDispatch
      <4> QED  BY <3>1, <4>1, <4>2, <4>3
    <3>2. CASE ~(Dispatch(r) \/ BulkDispatch(r) \/ RetryDispatch(r))
      BY <1>1, <3>2 DEF Send, Retry, SendReminder, BulkReminder, Count, FindByID, GetReminderStatus,
                        BulkEnds, FindLatest, CheckReminderRateLimit, Fail
    <3> QED  BY <3>1, <3>2
  <2>3. req'[r].pc \notin {"edit", "batch"} /\ \A q \in Requests : q # r => req'[q] = req[q]
    <3>1. CASE BulkEnds(r) \/ RetryDispatch(r) \/ Fail(r)
      BY <3>1, Moved DEF BulkEnds, RetryDispatch, Fail, Done, Idle
    <3>2. CASE \E force \in BOOLEAN : Send(r, force)
      BY <3>2, Moved DEF Send
    <3>6. CASE BulkReminder(r)
      BY <3>6, Moved DEF BulkReminder
    <3>3. CASE \E p \in Rows : Retry(r, p)
      BY <3>3, Moved DEF Retry
    <3>4. CASE \E p \in Rows : SendReminder(r, p)
      BY <3>4, Moved DEF SendReminder, Done, Idle
    <3>5. CASE Count(r)
      <4>1. DOMAIN req[r] = {"pc", "of", "open", "unpaid", "force", "present"} /\ req[r].pc = "count"
        BY <3>5, Fields DEF Count
      <4>2. PICK of, unpaid :
               \/ GoTo(r, [req[r] EXCEPT !.of = of, !.unpaid = unpaid])
               \/ GoTo(r, [pc |-> "list", open |-> req[r].open, unpaid |-> unpaid,
                           force |-> req[r].force, present |-> req[r].present])
        BY <3>5 DEF Count
      <4> DEFINE more == [req[r] EXCEPT !.of = of, !.unpaid = unpaid]
                 last == [pc |-> "list", open |-> req[r].open, unpaid |-> unpaid,
                          force |-> req[r].force, present |-> req[r].present]
      <4>3. more.pc = "count" /\ last.pc = "list"
        BY <4>1
      <4>4. GoTo(r, more) \/ GoTo(r, last)
        BY <4>2
      <4> HIDE DEF more, last
      <4> QED  BY <4>3, <4>4, Moved
    <3>7. CASE FindByID(r)
      BY <3>7, Moved DEF FindByID, Done, Idle
    <3>8. CASE Dispatch(r)
      <4>1. req[r] \in [pc: {"dispatch", "bump"}, of: Participants, status: Unpaid]
        BY <3>8, Fields DEF Dispatch
      <4> QED  BY <3>8, <4>1, Moved DEF Dispatch
    <3>9. CASE GetReminderStatus(r)
      BY <3>9, Moved DEF GetReminderStatus
    <3>10. CASE BulkDispatch(r)
      BY <3>10, Moved DEF BulkDispatch
    <3>11. CASE FindLatest(r)
      <4>1. PICK p, type : \/ GoTo(r, [pc |-> "try", of |-> p])
                           \/ GoTo(r, [pc |-> "retry", of |-> p, type |-> type])
        BY <3>11 DEF FindLatest
      <4> QED  BY <4>1, Moved
    <3>12. CASE CheckReminderRateLimit(r)
      BY <3>12, Moved DEF CheckReminderRateLimit, Done, Idle
    <3> QED
      BY <1>1, <3>1, <3>2, <3>3, <3>4, <3>5, <3>6, <3>7, <3>8, <3>9, <3>10, <3>11, <3>12
  <2> QED  BY <2>1, <2>2, <2>3, GateUntouched
<1>2. ASSUME NEW r \in Requests, List(r) PROVE GateInvariant'
  <2>1. PICK state \in {[pc |-> "batch", left |-> Rows, queued |-> {}], Idle} : GoTo(r, state)
    BY <1>2 DEF List, Done
  <2>2. /\ req'[r] = [pc |-> "batch", left |-> Rows, queued |-> {}] \/ req'[r] = Idle
        /\ \A q \in Requests : q # r => req'[q] = req[q]
    BY <2>1, Moved
  <2>3. UNCHANGED <<session, status, now, changed, informed, missed>>
    BY <1>2 DEF List
  <2>4. StampsPast'
    BY <2>2, <2>3 DEF GateInvariant, StampsPast, session, Idle
  <2>5. QueuedCurrent'
    BY <2>2, <2>3 DEF GateInvariant, QueuedCurrent, Idle
  <2>6. GateClosedMeansTold'
    BY <2>3 DEF GateInvariant, GateClosedMeansTold, IsDirtyForNotify, Open, Rows, session
  <2> QED  BY <2>4, <2>5, <2>6 DEF GateInvariant
<1>3. ASSUME NEW r \in Requests, Batch(r) PROVE GateInvariant'
  <2>1. PICK p \in req[r].left :
           \/ /\ Dispatched(r, p, "initial")
              /\ GoTo(r, [req[r] EXCEPT !.left = @ \ {p}, !.queued = @ \cup {p}])
           \/ GoTo(r, [req[r] EXCEPT !.left = @ \ {p}]) /\ UNCHANGED <<latest, informed>>
    BY <1>3 DEF Batch
  <2>2. req[r] \in [pc: {"batch"}, left: SUBSET Participants, queued: SUBSET Participants]
    BY <1>3, Fields DEF Batch
  <2>3. UNCHANGED <<session, status, now, changed, missed>>
    BY <1>3 DEF Batch
  <2>4. /\ informed \subseteq informed'
        /\ req'[r].pc = "batch"
        /\ req'[r].queued = req[r].queued \/ (req'[r].queued = req[r].queued \cup {p} /\ (r \notin changed => p \in informed'))
        /\ \A q \in Requests : q # r => req'[q] = req[q]
    <3>1. CASE Dispatched(r, p, "initial") /\ GoTo(r, [req[r] EXCEPT !.left = @ \ {p}, !.queued = @ \cup {p}])
      <4>1. informed \subseteq informed' /\ (r \notin changed => p \in informed')
        BY <3>1, InformedGrows
      <4>2. /\ req'[r] = [req[r] EXCEPT !.left = @ \ {p}, !.queued = @ \cup {p}]
            /\ \A q \in Requests : q # r => req'[q] = req[q]
        BY <3>1, Moved
      <4>3. req'[r].pc = "batch" /\ req'[r].queued = req[r].queued \cup {p}
        BY <2>2, <4>2
      <4> QED  BY <4>1, <4>2, <4>3
    <3>2. CASE GoTo(r, [req[r] EXCEPT !.left = @ \ {p}]) /\ UNCHANGED <<latest, informed>>
      <4>1. /\ req'[r] = [req[r] EXCEPT !.left = @ \ {p}]
            /\ \A q \in Requests : q # r => req'[q] = req[q]
        BY <3>2, Moved
      <4>2. req'[r].pc = "batch" /\ req'[r].queued = req[r].queued
        BY <2>2, <4>1
      <4> QED  BY <3>2, <4>1, <4>2
    <3> QED  BY <2>1, <3>1, <3>2
  <2>5. StampsPast'
    BY <2>3, <2>4 DEF GateInvariant, StampsPast, session
  <2>6. QueuedCurrent'
    <3>1. ASSUME NEW q \in Requests \ changed, req'[q].pc = "batch" PROVE req'[q].queued \subseteq informed'
      <4>1. CASE q = r
        BY <2>2, <2>4, <4>1 DEF GateInvariant, QueuedCurrent
      <4>2. CASE q # r
        BY <2>4, <3>1, <4>2 DEF GateInvariant, QueuedCurrent
      <4> QED  BY <4>1, <4>2
    <3> QED  BY <2>3, <3>1 DEF QueuedCurrent
  <2>7. GateClosedMeansTold'
    BY <2>3, <2>4 DEF GateInvariant, GateClosedMeansTold, IsDirtyForNotify, Open, Rows, session
  <2> QED  BY <2>5, <2>6, <2>7 DEF GateInvariant
<1>4. ASSUME NEW r \in Requests, MarkNotified(r) PROVE GateInvariant'
  <2>1. req'[r] = Idle /\ \A q \in Requests : q # r => req'[q] = req[q]
    BY <1>4, Moved DEF MarkNotified, Done
  <2>2. /\ now' = now + 1 /\ notified' = now + 1 /\ UNCHANGED <<updated, status, changed, informed>>
        /\ missed' = IF r \in changed THEN Participants ELSE Participants \ req[r].queued
        /\ req[r].pc = "batch"
    BY <1>4 DEF MarkNotified
  <2>3. StampsPast'
    <3>1. now \in Nat /\ updated \in Nat /\ updated <= now
      BY DEF TypeOK, GateInvariant, StampsPast
    <3>2. ASSUME NEW q \in Requests, req'[q].pc = "edit" PROVE req'[q].at <= now'
      <4>1. req'[q] = req[q]
        BY <2>1, <3>2 DEF Idle
      <4>2. req[q].at \in Nat /\ req[q].at <= now
        BY <3>2, <4>1, Fields DEF GateInvariant, StampsPast
      <4> QED  BY <2>2, <3>1, <4>1, <4>2
    <3> QED  BY <2>2, <3>1, <3>2 DEF StampsPast
  <2>4. QueuedCurrent'
    BY <2>1, <2>2 DEF GateInvariant, QueuedCurrent, Idle
  <2>5. Participants \ missed' \subseteq informed'
    BY <2>2 DEF GateInvariant, QueuedCurrent
  <2>6. GateClosedMeansTold'
    BY <2>5 DEF GateClosedMeansTold, Rows
  <2> QED  BY <2>3, <2>4, <2>6 DEF GateInvariant
<1>5. ASSUME NEW r \in Requests, EditSession(r) PROVE GateInvariant'
  <2>1. req'[r] = [pc |-> "edit", at |-> now + 1] /\ \A q \in Requests : q # r => req'[q] = req[q]
    BY <1>5, Moved DEF EditSession
  <2>2. now' = now + 1 /\ UNCHANGED <<session, status, changed, informed, missed>>
    BY <1>5 DEF EditSession
  <2>3. StampsPast'
    <3>1. now \in Nat /\ updated \in Nat /\ notified \in Nat /\ updated <= now /\ notified <= now
      BY DEF TypeOK, GateInvariant, StampsPast
    <3>2. ASSUME NEW q \in Requests, req'[q].pc = "edit" PROVE req'[q].at <= now'
      <4>1. CASE q = r
        BY <2>1, <2>2, <3>1, <4>1
      <4>2. CASE q # r
        <5>1. req[q].at \in Nat /\ req[q].at <= now /\ req'[q] = req[q]
          BY <2>1, <3>2, <4>2, Fields DEF GateInvariant, StampsPast
        <5> QED  BY <2>2, <3>1, <5>1
      <4> QED  BY <4>1, <4>2
    <3> QED  BY <2>2, <3>1, <3>2 DEF StampsPast, session
  <2>4. QueuedCurrent'
    BY <2>1, <2>2 DEF GateInvariant, QueuedCurrent
  <2>5. GateClosedMeansTold'
    BY <2>2 DEF GateInvariant, GateClosedMeansTold, IsDirtyForNotify, Open, Rows, session
  <2> QED  BY <2>3, <2>4, <2>5 DEF GateInvariant
<1>6. ASSUME NEW r \in Requests, Update(r) PROVE GateInvariant'
  <2>1. req'[r] = Idle /\ \A q \in Requests : q # r => req'[q] = req[q]
    BY <1>6, Moved DEF Update, Done
  <2>2. /\ req[r].pc = "edit" /\ updated' = req[r].at /\ changed' = Requests
        /\ missed' = IF req[r].at <= notified THEN Participants ELSE missed
        /\ UNCHANGED <<notified, now, status>>
    BY <1>6 DEF Update, Changes
  <2>3. req[r].at \in Nat /\ req[r].at <= now /\ notified \in Nat /\ notified <= now
    BY <2>2, Fields DEF TypeOK, GateInvariant, StampsPast
  <2>4. StampsPast'
    BY <2>1, <2>2, <2>3 DEF GateInvariant, StampsPast, Idle
  <2>5. QueuedCurrent'
    BY <2>2 DEF QueuedCurrent
  <2>6. GateClosedMeansTold'
    <3>1. CASE req[r].at <= notified
      BY <2>2, <3>1 DEF GateClosedMeansTold, Rows
    <3>2. CASE ~(req[r].at <= notified)
      <4>1. Open'
        BY <2>2, <2>3, <3>2 DEF Open
      <4> QED  BY <4>1 DEF GateClosedMeansTold, IsDirtyForNotify
    <3> QED  BY <3>1, <3>2
  <2> QED  BY <2>4, <2>5, <2>6 DEF GateInvariant
<1>7. ASSUME NEW r \in Requests,
             \/ EditBill(r)
             \/ \E p \in Participants : AddParticipant(r, p) \/ RemoveParticipant(r, p)
             \/ \E p \in Participants, to \in Unpaid \cup {"paid"} : Pay(r, p, to)
      PROVE  GateInvariant'
  <2>1. Touch /\ UNCHANGED <<req, notified>> /\ (changed' = Requests \/ UNCHANGED <<changed, informed>>)
    BY <1>7 DEF EditBill, AddParticipant, RemoveParticipant, Pay, Changes
  <2> QED  BY <2>1, GateTouched
<1>8. ASSUME NEW r \in Requests, BumpNotificationCount(r) PROVE GateInvariant'
  <2>1. req'[r] = Idle /\ \A q \in Requests : q # r => req'[q] = req[q]
    BY <1>8, Moved DEF BumpNotificationCount, Done
  <2>2. req'[r].pc \notin {"edit", "batch"} /\ UNCHANGED <<notified, changed, informed, missed>>
    BY <1>8, <2>1 DEF BumpNotificationCount, Idle
  <2>3. CASE Touch
    BY <2>1, <2>2, <2>3, GateTouched
  <2>4. CASE UNCHANGED <<status, now, updated>>
    BY <2>1, <2>2, <2>4, GateUntouched DEF session
  <2> QED  BY <1>8, <2>3, <2>4 DEF BumpNotificationCount
<1>9. ASSUME UNCHANGED <<session, now, status, missed, req, changed, informed>> PROVE GateInvariant'
  BY <1>9 DEF GateInvariant, StampsPast, QueuedCurrent, GateClosedMeansTold, IsDirtyForNotify, Open, Rows, session
<1>10. ASSUME NEW p \in Participants, WindowEnds(p) PROVE GateInvariant'
  BY <1>9, <1>10 DEF WindowEnds
<1>11. CASE UNCHANGED vars
  BY <1>9, <1>11 DEF vars
<1> QED
  BY <1>1, <1>2, <1>3, <1>4, <1>5, <1>6, <1>7, <1>8, <1>10, <1>11, Steps, Zenon

\* A closed gate: everybody who owes was told what is current, or is known to
\* have been missed.
THEOREM ClosedGateMeansTold == Spec => []GateClosedMeansTold
<1>1. Init => GateInvariant
  BY DEF Init, GateInvariant, StampsPast, QueuedCurrent, GateClosedMeansTold, Rows, Idle
<1>2. GateInvariant => GateClosedMeansTold
  BY DEF GateInvariant
<1> QED  BY <1>1, <1>2, GateStep, TypeCorrect, PTL DEF Spec

=============================================================================
