----------------------------- MODULE NotifyGate -----------------------------
(***************************************************************************)
(* Telling a session's participants what they owe: the batch to everybody, *)
(* closed to the host while nothing changed since the last one, reminders  *)
(* of which a limiter grants one at a time, and retries.  Statements and   *)
(* calls to the limiter are steps; time is a counter that every stamp      *)
(* moves.  A message is current when nothing it shows changed since its    *)
(* request began.                                                          *)
(***************************************************************************)
EXTENDS Integers

CONSTANTS
  Participants,  \* participants there may ever be
  Requests,      \* requests that may be served at the same time
  MaxServed      \* bound: requests served

ASSUME GateAssumption == MaxServed \in Nat

VARIABLES
  updated,    \* updated_at of the session
  notified,   \* last_notified_at, 0 while NULL
  status,     \* payment status of each participant
  latest,     \* type of each participant's latest notification
  token,      \* participants the limiter still grants a reminder
  now,        \* the time of the last stamp
  req,        \* where each request is and what it has read
  served,     \* requests so far
  changed,    \* history: requests since whose begin something they show changed
  informed,   \* history: participants that were sent a current message
  missed,     \* history: participants the last batch may have missed
  reminded,   \* history: granted reminders of each participant since its last token
  granted,    \* history: participants the limiter, failing, did not hold back
  reverted    \* history: a payment status was overwritten with an older one

session == <<updated, notified>>
limits == <<token, reminded, granted>>
vars == <<session, status, latest, limits, now, req, served, changed, informed, missed, reverted>>

-----------------------------------------------------------------------------
Unpaid == {"pending", "submitted", "rejected"}
Rows == {p \in Participants : status[p] \notin {"none", "removed"}}
Types == {"initial", "reminder", "rejection"}

Request ==
       [pc: {"idle", "edit"}, at: Nat]
  \cup [pc: {"count"}, of: Unpaid, open: BOOLEAN, unpaid: BOOLEAN, force: BOOLEAN, present: SUBSET Participants]
  \cup [pc: {"list"}, open: BOOLEAN, unpaid: BOOLEAN, force: BOOLEAN, present: SUBSET Participants]
  \cup [pc: {"batch"}, left: SUBSET Participants, queued: SUBSET Participants]
  \cup [pc: {"remind", "look", "try"}, of: Participants]
  \cup [pc: {"dispatch", "bump"}, of: Participants, status: Unpaid]
  \cup [pc: {"retry"}, of: Participants, type: Types]
  \cup [pc: {"bulk"}, left: SUBSET Participants]
  \cup [pc: {"turn"}, of: Participants, left: SUBSET Participants]

TypeOK ==
  /\ updated \in Nat /\ notified \in Nat /\ now \in Nat
  /\ status \in [Participants -> Unpaid \cup {"none", "paid", "removed"}]
  /\ latest \in [Participants -> Types \cup {"none"}]
  /\ token \in SUBSET Participants
  /\ req \in [Requests -> Request]
  /\ served \in 0..MaxServed
  /\ changed \in SUBSET Requests
  /\ informed \in SUBSET Participants /\ missed \in SUBSET Participants
  /\ reminded \in [Participants -> Nat] /\ granted \in SUBSET Participants
  /\ reverted \in BOOLEAN

Idle == [pc |-> "idle", at |-> 0]

Init ==
  /\ updated = 1 /\ notified = 0 /\ now = 1
  /\ status = [p \in Participants |-> "none"]
  /\ latest = [p \in Participants |-> "none"]
  /\ token = Participants
  /\ req = [r \in Requests |-> Idle]
  /\ served = 0
  /\ changed = {} /\ informed = {} /\ missed = {}
  /\ reminded = [p \in Participants |-> 0] /\ granted = {}
  /\ reverted = FALSE

GoTo(r, state) == req' = [req EXCEPT ![r] = state]
Done(r) == GoTo(r, Idle)
Starts(r) == req[r].pc = "idle" /\ served < MaxServed /\ served' = served + 1
Begins(r) == Starts(r) /\ changed' = changed \ {r}

\* The triggers on participants and bills: the session is touched.
Touch == now' = now + 1 /\ updated' = now + 1
\* History: what messages show is different from now on.
Changes == changed' = Requests /\ informed' = {}

-----------------------------------------------------------------------------
\* The batch: the session is read, then the unpaid are counted, one status
\* after the other, then the participants are listed.

Open == notified = 0 \/ updated > notified

Send(r, force) ==
  /\ Begins(r)
  /\ GoTo(r, [pc |-> "count", of |-> "pending", open |-> Open,
              unpaid |-> FALSE, force |-> force, present |-> Rows])
  /\ UNCHANGED <<session, status, latest, limits, now, informed, missed, reverted>>

\* Mutated forms: the submitted last; the paid counted too.
AfterSwapped(s) == CASE s = "pending" -> "rejected" [] s = "rejected" -> "submitted" [] OTHER -> "none"
AfterPaid(s) == CASE s = "pending" -> "submitted" [] s = "submitted" -> "rejected" [] s = "rejected" -> "paid" [] OTHER -> "none"
After(s) == CASE s = "pending" -> "submitted" [] s = "submitted" -> "rejected" [] OTHER -> "none"

Count(r) ==
  /\ req[r].pc = "count"
  /\ LET q == req[r]
         unpaid == q.unpaid \/ \E p \in Rows : status[p] = q.of
     IN GoTo(r, IF After(q.of) # "none" THEN [q EXCEPT !.of = After(q.of), !.unpaid = unpaid]
                ELSE [pc |-> "list", open |-> q.open, unpaid |-> unpaid, force |-> q.force, present |-> q.present])
  /\ UNCHANGED <<session, status, latest, limits, now, served, changed, informed, missed, reverted>>

\* Mutated form: only a session never notified is dirty.
IsDirtyOnce(open, unpaid) == unpaid /\ open /\ notified = 0
IsDirtyForNotify(open, unpaid) == unpaid /\ open

List(r) ==
  /\ req[r].pc = "list"
  /\ LET q == req[r] IN
       IF (q.force \/ IsDirtyForNotify(q.open, q.unpaid)) /\ Rows # {}
       THEN GoTo(r, [pc |-> "batch", left |-> Rows, queued |-> {}])
       ELSE Done(r)
  /\ UNCHANGED <<session, status, latest, limits, now, served, changed, informed, missed, reverted>>

\* A row in the outbox.  A participant that was removed can have none.
Dispatched(r, p, type) ==
  /\ p \in Rows
  /\ latest' = [latest EXCEPT ![p] = type]
  /\ informed' = IF r \in changed THEN informed ELSE informed \cup {p}

\* One after the other; one whose INSERT fails is passed over.
Batch(r) ==
  /\ req[r].pc = "batch"
  /\ \E p \in req[r].left :
       \/ /\ Dispatched(r, p, "initial")
          /\ GoTo(r, [req[r] EXCEPT !.left = @ \ {p}, !.queued = @ \cup {p}])
       \/ GoTo(r, [req[r] EXCEPT !.left = @ \ {p}]) /\ UNCHANGED <<latest, informed>>
  /\ UNCHANGED <<session, status, limits, now, served, changed, missed, reverted>>

\* The gate closes, with the time it is now.
MarkNotified(r) ==
  /\ req[r].pc = "batch" /\ req[r].left = {}
  /\ now' = now + 1 /\ notified' = now + 1
  /\ missed' = IF r \in changed THEN Participants ELSE Participants \ req[r].queued
  /\ Done(r)
  /\ UNCHANGED <<updated, status, latest, limits, served, changed, informed, reverted>>

-----------------------------------------------------------------------------
\* What messages show changes: the session's own columns, stored some time
\* after they were stamped; bills and participants, touched by the triggers.

EditSession(r) ==
  /\ Starts(r)
  /\ now' = now + 1
  /\ GoTo(r, [pc |-> "edit", at |-> now + 1])
  /\ UNCHANGED <<session, status, latest, limits, changed, informed, missed, reverted>>

\* updated_at is the request's own time; last_notified_at is not stored.
Update(r) ==
  /\ req[r].pc = "edit"
  /\ updated' = req[r].at
  /\ Changes
  /\ missed' = IF req[r].at <= notified THEN Participants ELSE missed
  /\ Done(r)
  /\ UNCHANGED <<notified, status, latest, limits, now, served, reverted>>

EditBill(r) ==
  /\ Starts(r)
  /\ Touch /\ Changes
  /\ UNCHANGED <<req, notified, status, latest, limits, missed, reverted>>

AddParticipant(r, p) ==
  /\ Starts(r)
  /\ status[p] = "none"
  /\ status' = [status EXCEPT ![p] = "pending"]
  /\ Touch /\ Changes
  /\ UNCHANGED <<req, notified, latest, limits, missed, reverted>>

RemoveParticipant(r, p) ==
  /\ Starts(r)
  /\ p \in Rows
  /\ status' = [status EXCEPT ![p] = "removed"]
  /\ Touch /\ Changes
  /\ UNCHANGED <<req, notified, latest, limits, missed, reverted>>

\* Payments: messages do not show them, the session is touched all the same.
\* A decision may be stored over a newer one (PaymentLifecycle).
Forward(from, to) ==
  \/ from = "pending" /\ to \in {"submitted", "rejected", "paid"}
  \/ from = "submitted" /\ to \in {"rejected", "paid"}
  \/ from = "rejected" /\ to = "paid"

Pay(r, p, to) ==
  /\ Starts(r)
  /\ p \in Rows /\ status[p] # to
  /\ status' = [status EXCEPT ![p] = to]
  /\ reverted' = (reverted \/ ~Forward(status[p], to))
  /\ latest' \in IF to = "rejected" THEN {latest, [latest EXCEPT ![p] = "rejection"]} ELSE {latest}
  /\ Touch
  /\ UNCHANGED <<req, notified, limits, changed, informed, missed>>

-----------------------------------------------------------------------------
\* Reminders.  Mutated form of taking the token: it is only looked at.
TakeNone(p) == token
Take(p) == token \ {p}

\* Whoever the limiter cannot answer is let through.
Allowed(p) ==
  \/ p \in token /\ token' = Take(p) /\ UNCHANGED granted
  \/ granted' = granted \cup {p} /\ UNCHANGED token
Refused(p) == p \notin token /\ UNCHANGED <<token, granted>>

\* The middleware comes first: the token is gone whatever follows.
SendReminder(r, p) ==
  /\ Begins(r)
  /\ \/ Allowed(p) /\ GoTo(r, [pc |-> "remind", of |-> p])
     \/ Refused(p) /\ Done(r)
  /\ UNCHANGED <<session, status, latest, now, informed, missed, reminded, reverted>>

FindByID(r) ==
  /\ req[r].pc = "remind"
  /\ LET q == req[r] IN
       IF status[q.of] \in Unpaid
       THEN GoTo(r, [pc |-> "dispatch", of |-> q.of, status |-> status[q.of]])
       ELSE Done(r)
  /\ UNCHANGED <<session, status, latest, limits, now, served, changed, informed, missed, reverted>>

Dispatch(r) ==
  /\ req[r].pc = "dispatch"
  /\ LET q == req[r] IN
       /\ Dispatched(r, q.of, "reminder")
       /\ reminded' = [reminded EXCEPT ![q.of] = @ + 1]
       /\ GoTo(r, [q EXCEPT !.pc = "bump"])
  /\ UNCHANGED <<session, status, token, granted, now, served, changed, missed, reverted>>

\* The participant's counter: every column as it was read, status included.
BumpNotificationCount(r) ==
  /\ req[r].pc = "bump"
  /\ LET q == req[r] IN
       IF q.of \in Rows
       THEN /\ status' = [status EXCEPT ![q.of] = q.status]
            /\ reverted' = (reverted \/ status[q.of] # q.status)
            /\ Touch
       ELSE UNCHANGED <<status, reverted, now, updated>>
  /\ Done(r)
  /\ UNCHANGED <<notified, latest, limits, served, changed, informed, missed>>

\* The bulk reminder: a list, then for each a look at the limiter and a row.
BulkReminder(r) ==
  /\ Begins(r)
  /\ GoTo(r, [pc |-> "bulk", left |-> {p \in Rows : status[p] \in Unpaid}])
  /\ UNCHANGED <<session, status, latest, limits, now, informed, missed, reverted>>

\* Looking takes no token; a look that fails counts as held back.
GetReminderStatus(r) ==
  /\ req[r].pc = "bulk" /\ req[r].left # {}
  /\ \E p \in req[r].left :
       LET rest == req[r].left \ {p} IN
       \/ p \in token /\ GoTo(r, [pc |-> "turn", of |-> p, left |-> rest])
       \/ GoTo(r, [pc |-> "bulk", left |-> rest])
  /\ UNCHANGED <<session, status, latest, limits, now, served, changed, informed, missed, reverted>>

\* RecordReminder does nothing.
BulkDispatch(r) ==
  /\ req[r].pc = "turn"
  /\ LET q == req[r] IN
       /\ \/ Dispatched(r, q.of, "reminder")
          \/ UNCHANGED <<latest, informed>>
       /\ GoTo(r, [pc |-> "bulk", left |-> q.left])
  /\ UNCHANGED <<session, status, limits, now, served, changed, missed, reverted>>

BulkEnds(r) ==
  /\ req[r].pc = "bulk" /\ req[r].left = {}
  /\ Done(r)
  /\ UNCHANGED <<session, status, latest, limits, now, served, changed, informed, missed, reverted>>

-----------------------------------------------------------------------------
\* A retry sends what the participant was last sent; a reminder has to pass
\* the limiter once more.

Retry(r, p) ==
  /\ Begins(r)
  /\ status[p] \in Unpaid
  /\ GoTo(r, [pc |-> "look", of |-> p])
  /\ UNCHANGED <<session, status, latest, limits, now, informed, missed, reverted>>

FindLatest(r) ==
  /\ req[r].pc = "look"
  /\ LET p == req[r].of IN
       GoTo(r, IF latest[p] = "reminder" THEN [pc |-> "try", of |-> p]
               ELSE [pc |-> "retry", of |-> p, type |-> IF latest[p] = "none" THEN "initial" ELSE latest[p]])
  /\ UNCHANGED <<session, status, latest, limits, now, served, changed, informed, missed, reverted>>

CheckReminderRateLimit(r) ==
  /\ req[r].pc = "try"
  /\ LET p == req[r].of IN
       \/ Allowed(p) /\ GoTo(r, [pc |-> "retry", of |-> p, type |-> "reminder"])
       \/ Refused(p) /\ Done(r)
  /\ UNCHANGED <<session, status, latest, reminded, now, served, changed, informed, missed, reverted>>

RetryDispatch(r) ==
  /\ req[r].pc = "retry"
  /\ LET q == req[r] IN
       /\ Dispatched(r, q.of, q.type)
       /\ reminded' = IF q.type = "reminder" THEN [reminded EXCEPT ![q.of] = @ + 1] ELSE reminded
  /\ Done(r)
  /\ UNCHANGED <<session, status, token, granted, now, served, changed, missed, reverted>>

\* A day later, when no request that was granted the last token is left.
WindowEnds(p) ==
  /\ p \notin token
  /\ \A r \in Requests : req[r].pc \in {"remind", "dispatch", "retry"} => req[r].of # p
  /\ token' = token \cup {p}
  /\ reminded' = [reminded EXCEPT ![p] = 0] /\ granted' = granted \ {p}
  /\ UNCHANGED <<session, status, latest, now, req, served, changed, informed, missed, reverted>>

\* A statement or a call fails, or the process dies.
Fail(r) ==
  /\ req[r].pc # "idle"
  /\ Done(r)
  /\ UNCHANGED <<session, status, latest, limits, now, served, changed, informed, missed, reverted>>

-----------------------------------------------------------------------------
NotificationRoutes(r) ==
  \/ \E force \in BOOLEAN : Send(r, force)
  \/ BulkReminder(r)
  \/ \E p \in Rows : SendReminder(r, p) \/ Retry(r, p)

SessionRoutes(r) ==
  \/ EditSession(r) \/ EditBill(r)
  \/ \E p \in Participants : AddParticipant(r, p) \/ RemoveParticipant(r, p)

PaymentRoutes(r) == \E p \in Participants, to \in Unpaid \cup {"paid"} : Pay(r, p, to)

Statements(r) ==
  \/ Count(r) \/ List(r) \/ Batch(r) \/ MarkNotified(r) \/ Update(r)
  \/ FindByID(r) \/ Dispatch(r) \/ BumpNotificationCount(r)
  \/ GetReminderStatus(r) \/ BulkDispatch(r) \/ BulkEnds(r)
  \/ FindLatest(r) \/ CheckReminderRateLimit(r) \/ RetryDispatch(r)

Next ==
  \/ \E r \in Requests :
       NotificationRoutes(r) \/ SessionRoutes(r) \/ PaymentRoutes(r) \/ Statements(r) \/ Fail(r)
  \/ \E p \in Participants : WindowEnds(p)

Spec == Init /\ [][Next]_vars

-----------------------------------------------------------------------------
(***************************************************************************)
(* Properties                                                              *)
(***************************************************************************)

\* While the gate is closed to the host, everybody who still owes has been
\* sent what is current, unless the last batch passed the participant over, a
\* change fell between its first read and its mark, or an edit was stored
\* after the mark with a stamp from before it.
GateClosedMeansTold == ~IsDirtyForNotify(Open, TRUE) =>
  \A p \in Rows \ missed : status[p] \in Unpaid => p \in informed

\* Of the reminders that pass the limiter, sent by the host one by one or as
\* retries, a participant gets one per token, unless the limiter failed.
ReminderQuota == \A p \in Participants \ granted : reminded[p] <= 1

\* The three counts are three statements, and participants move on between
\* them: nobody who still owes is missed by all three, so a batch is never
\* refused as settled while one of those it began with owes, unless a
\* reminder stored an old payment status.
CountsMissNobody == reverted \/ \A r \in Requests :
  req[r].pc = "list" /\ ~req[r].unpaid => \A p \in req[r].present : status[p] \in {"paid", "removed"}

=============================================================================
