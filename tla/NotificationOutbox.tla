------------------------- MODULE NotificationOutbox -------------------------
(***************************************************************************)
(* The durable WhatsApp outbox: the notification_logs table, the delivery  *)
(* workers that drain it, the webhook handlers that apply the gateway's    *)
(* status events to it, and the use cases that put rows into it.           *)
(*                                                                         *)
(* Time is kept only as what the SQL compares: "due" is next_attempt_at <= *)
(* now, and "lock" says whether locked_at is NULL, recent, or older than   *)
(* the worker's stuckAfter.  locked_by is written and never read.          *)
(***************************************************************************)
EXTENDS Integers, FiniteSets

CONSTANTS
  Logs,         \* rows of notification_logs that may be created
  Workers,      \* delivery workers (one per server process)
  Hooks,        \* webhook requests that may be served at the same time
  BatchSize,    \* rows one ClaimPending may take
  MaxAttempts,  \* the max_attempts column
  MaxSends,     \* bound: messages the gateway accepts
  MaxCauses,    \* bound: reasons to send a row again (history variable causes)
  MaxFaults     \* bound: crashes, panics and failed database statements

ASSUME OutboxAssumption ==
  /\ IsFiniteSet(Workers)
  /\ BatchSize \in Nat \ {0}
  /\ MaxAttempts \in Nat \ {0}
  /\ MaxSends \in Nat
  /\ MaxCauses \in Nat
  /\ MaxFaults \in Nat

VARIABLES
  status,     \* status column; "absent" before the INSERT, "gone" after DELETE
  attempts,   \* attempts column
  due,        \* next_attempt_at <= now
  lock,       \* locked_at: "none" (NULL), "fresh", "stuck"
  msgId,      \* whatsapp_message_id column, NoMsg for NULL
  hasPhone,   \* the phone column is not NULL
  pc,         \* where a worker is in its tick
  batch,      \* claimed snapshots a worker has not sent yet
  call,       \* the send result a worker has not recorded yet (at most one)
  bulk,       \* direct sends of BulkReject whose row is not inserted yet
  hook,       \* the update a webhook request is about to apply (at most one)
  owner,      \* gateway: the row each accepted message id was sent for
  sent,       \* gateway: number of message ids handed out
  faults,     \* faults so far
  deliveries, \* history: messages the gateway accepted for a row
  causes      \* history: reasons that made a row sendable once more

rowVars  == <<status, attempts, due, lock, msgId, hasPhone>>
workVars == <<pc, batch, call>>
gateVars == <<owner, sent, deliveries>>
vars == <<rowVars, workVars, bulk, hook, gateVars, faults, causes>>

-----------------------------------------------------------------------------
NoMsg   == 0
MsgIds  == 1..MaxSends
NoOwner == "nobody"

RowStatus  == {"pending", "queued", "sending", "sent", "failed", "dead"}
\* Mutated form: a failed row is never picked up again.
ClaimableOnce == {"pending", "queued"}
Claimable  == {"pending", "queued", "failed"}
Events     == {"message.queued", "message.sent", "message.failed"}

Snapshot   == [log: Logs, attempts: Nat, phone: BOOLEAN]
SendResult == [log: Logs, attempts: Nat, id: MsgIds \cup {NoMsg}]
DirectSend == [log: Logs, id: MsgIds \cup {NoMsg}]
Update     == [log: Logs, seen: RowStatus, next: {"sent", "failed"}]

Exists(l) == status[l] \in RowStatus

\* An id no producer has used yet.
Unused(l) == status[l] = "absent" /\ deliveries[l] = 0 /\ \A b \in bulk : b.log # l

\* A worker still has the snapshot of row l in hand, sent or not.
Holds(w, l) == \/ \E s \in batch[w] : s.log = l
               \/ \E c \in call[w] : c.log = l

TypeOK ==
  /\ status \in [Logs -> RowStatus \cup {"absent", "gone"}]
  /\ attempts \in [Logs -> Nat]
  /\ due \in [Logs -> BOOLEAN]
  /\ lock \in [Logs -> {"none", "fresh", "stuck"}]
  /\ msgId \in [Logs -> MsgIds \cup {NoMsg}]
  /\ hasPhone \in [Logs -> BOOLEAN]
  /\ pc \in [Workers -> {"tick", "claim", "drain"}]
  /\ batch \in [Workers -> SUBSET Snapshot]
  /\ call \in [Workers -> SUBSET SendResult]
  /\ bulk \in SUBSET DirectSend
  /\ hook \in [Hooks -> SUBSET Update]
  /\ owner \in [MsgIds -> Logs \cup {NoOwner}]
  /\ sent \in 0..MaxSends
  /\ faults \in 0..MaxFaults
  /\ deliveries \in [Logs -> Nat]
  /\ causes \in [Logs -> Nat]

Init ==
  /\ status = [l \in Logs |-> "absent"]
  /\ attempts = [l \in Logs |-> 0]
  /\ due = [l \in Logs |-> FALSE]
  /\ lock = [l \in Logs |-> "none"]
  /\ msgId = [l \in Logs |-> NoMsg]
  /\ hasPhone = [l \in Logs |-> FALSE]
  /\ pc = [w \in Workers |-> "tick"]
  /\ batch = [w \in Workers |-> {}]
  /\ call = [w \in Workers |-> {}]
  /\ bulk = {}
  /\ hook = [h \in Hooks |-> {}]
  /\ owner = [m \in MsgIds |-> NoOwner]
  /\ sent = 0
  /\ faults = 0
  /\ deliveries = [l \in Logs |-> 0]
  /\ causes = [l \in Logs |-> 0]

-----------------------------------------------------------------------------
\* Row writes.  An UPDATE of a deleted row matches nothing and reports no error.

\* Mutated form: BulkReject's row gets the participant's number too.
InsertWithPhone(l, st, phone, id) ==
  /\ status' = [status EXCEPT ![l] = st]
  /\ msgId' = [msgId EXCEPT ![l] = id]
  /\ hasPhone' = [hasPhone EXCEPT ![l] = TRUE]
  /\ due' = [due EXCEPT ![l] = TRUE]
  /\ UNCHANGED <<attempts, lock>>
Insert(l, st, phone, id) ==
  /\ status' = [status EXCEPT ![l] = st]
  /\ msgId' = [msgId EXCEPT ![l] = id]
  /\ hasPhone' = [hasPhone EXCEPT ![l] = phone]
  /\ due' = [due EXCEPT ![l] = TRUE]
  /\ UNCHANGED <<attempts, lock>>

\* Mutated form: the gateway's id is not stored.
MarkSentWithoutId(l, id) ==
  /\ status' = [status EXCEPT ![l] = IF Exists(l) THEN "sent" ELSE @]
  /\ UNCHANGED <<attempts, due, lock, msgId, hasPhone>>

MarkSent(l, id) ==
  \/ /\ Exists(l)
     /\ status' = [status EXCEPT ![l] = "sent"]
     /\ msgId' = [msgId EXCEPT ![l] = id]
     /\ lock' = [lock EXCEPT ![l] = "none"]
     /\ UNCHANGED <<attempts, due, hasPhone>>
  \/ ~Exists(l) /\ UNCHANGED rowVars

\* One UPDATE over a set of rows.  Mutated form: locked_at is left out.
SetRowsKeepLock(S, st, lk) ==
  /\ status' = [l \in Logs |-> IF l \in S THEN st ELSE status[l]]
  /\ UNCHANGED lock
SetRows(S, st, lk) ==
  /\ status' = [l \in Logs |-> IF l \in S THEN st ELSE status[l]]
  /\ lock' = [l \in Logs |-> IF l \in S THEN lk ELSE lock[l]]

MarkRetry(l, n) ==
  \/ /\ Exists(l)
     /\ status' = [status EXCEPT ![l] = "failed"]
     /\ attempts' = [attempts EXCEPT ![l] = n]
     /\ due' = [due EXCEPT ![l] = FALSE]
     /\ lock' = [lock EXCEPT ![l] = "none"]
     /\ UNCHANGED <<msgId, hasPhone>>
  \/ ~Exists(l) /\ UNCHANGED rowVars

MarkDead(l, n) ==
  \/ /\ Exists(l)
     /\ status' = [status EXCEPT ![l] = "dead"]
     /\ attempts' = [attempts EXCEPT ![l] = n]
     /\ lock' = [lock EXCEPT ![l] = "none"]
     /\ UNCHANGED <<due, msgId, hasPhone>>
  \/ ~Exists(l) /\ UNCHANGED rowVars

-----------------------------------------------------------------------------
\* Producers.

\* AsyncNotifier.Dispatch: "dead" when there is no number or no message.
Dispatch(l) ==
  /\ Unused(l)
  /\ \/ Insert(l, "pending", TRUE, NoMsg)
     \/ Insert(l, "dead", FALSE, NoMsg)
  /\ UNCHANGED <<workVars, bulk, hook, gateVars, faults, causes>>

\* The gateway accepts a message for row l and hands out the next id.  Unheard: the
\* caller sees an error although the message was accepted (timeout).
Accept(l) ==
  /\ sent < MaxSends
  /\ sent' = sent + 1
  /\ owner' = [owner EXCEPT ![sent + 1] = l]
  /\ deliveries' = [deliveries EXCEPT ![l] = @ + 1]

AcceptUnheard(l) ==
  /\ Accept(l)
  /\ causes' = [causes EXCEPT ![l] = @ + 1]

\* BulkReject sends through the gateway itself, inside the request ...
BulkSend(l) ==
  /\ Unused(l)
  /\ \/ /\ Accept(l)
        /\ bulk' = bulk \cup {[log |-> l, id |-> sent + 1]}
        /\ UNCHANGED causes
     \/ /\ AcceptUnheard(l)
        /\ bulk' = bulk \cup {[log |-> l, id |-> NoMsg]}
     \/ /\ bulk' = bulk \cup {[log |-> l, id |-> NoMsg]}
        /\ UNCHANGED <<gateVars, causes>>
  /\ UNCHANGED <<rowVars, workVars, hook, faults>>

\* ... and only then inserts the row, without the phone column.
BulkRecord(b) ==
  /\ b \in bulk
  /\ bulk' = bulk \ {b}
  /\ \/ b.id # NoMsg /\ Insert(b.log, "queued", FALSE, b.id)
     \/ b.id = NoMsg /\ Insert(b.log, "failed", FALSE, NoMsg)
  /\ UNCHANGED <<workVars, hook, gateVars, faults, causes>>

\* Deleting the participant deletes its rows (ON DELETE CASCADE).
CascadeDelete(l) ==
  /\ Exists(l)
  /\ status' = [status EXCEPT ![l] = "gone"]
  /\ attempts' = [attempts EXCEPT ![l] = 0]
  /\ due' = [due EXCEPT ![l] = FALSE]
  /\ lock' = [lock EXCEPT ![l] = "none"]
  /\ msgId' = [msgId EXCEPT ![l] = NoMsg]
  /\ hasPhone' = [hasPhone EXCEPT ![l] = FALSE]
  /\ UNCHANGED <<workVars, bulk, hook, gateVars, faults, causes>>

-----------------------------------------------------------------------------
\* The worker: a tick requeues stuck rows, claims a batch and sends it row by
\* row.

\* Mutated form: the reaper trusts the lock alone.
StuckLocks == {l \in Logs : Exists(l) /\ lock[l] = "stuck"}
StuckRows == {l \in Logs : status[l] = "sending" /\ lock[l] = "stuck"}

RequeueStuck(w) ==
  /\ pc[w] = "tick"
  /\ pc' = [pc EXCEPT ![w] = "claim"]
  /\ SetRows(StuckRows, "pending", "none")
  /\ causes' = [l \in Logs |-> IF l \in StuckRows THEN causes[l] + 1 ELSE causes[l]]
  /\ UNCHANGED <<attempts, due, msgId, hasPhone, batch, call, bulk, hook,
                 gateVars, faults>>

\* Mutated form: the status list of the claim query is missing.
DueWhateverStatus == {l \in Logs : Exists(l) /\ due[l]}
DueRows == {l \in Logs : status[l] \in Claimable /\ due[l]}

\* The statement takes every due row up to the limit; which ones, and the order
\* RETURNING lists them in, is left open.
ClaimPending(w) ==
  /\ pc[w] = "claim"
  /\ pc' = [pc EXCEPT ![w] = "drain"]
  /\ \E S \in SUBSET DueRows :
       /\ S = DueRows \/ Cardinality(S) = BatchSize
       /\ Cardinality(S) <= BatchSize
       /\ SetRows(S, "sending", "fresh")
       /\ batch' = [batch EXCEPT ![w] =
            {[log |-> l, attempts |-> attempts[l], phone |-> hasPhone[l]] : l \in S}]
  /\ UNCHANGED <<attempts, due, msgId, hasPhone, call, bulk, hook, gateVars,
                 faults, causes>>

\* A row without a number is not sent: dead, attempts as they were.
SkipPhoneless(w) ==
  /\ call[w] = {}
  /\ \E s \in batch[w] :
       /\ ~s.phone
       /\ batch' = [batch EXCEPT ![w] = @ \ {s}]
       /\ MarkDead(s.log, s.attempts)
  /\ UNCHANGED <<pc, call, bulk, hook, gateVars, faults, causes>>

\* The gateway call of one row: accepted, accepted without the worker hearing
\* of it, or refused.
SendNotification(w) ==
  /\ call[w] = {}
  /\ \E s \in batch[w] :
       LET Result(id) == {[log |-> s.log, attempts |-> s.attempts, id |-> id]} IN
       /\ s.phone
       /\ batch' = [batch EXCEPT ![w] = @ \ {s}]
       /\ \/ /\ Accept(s.log)
             /\ call' = [call EXCEPT ![w] = Result(sent + 1)]
             /\ UNCHANGED causes
          \/ /\ AcceptUnheard(s.log)
             /\ call' = [call EXCEPT ![w] = Result(NoMsg)]
          \/ /\ call' = [call EXCEPT ![w] = Result(NoMsg)]
             /\ UNCHANGED <<gateVars, causes>>
  /\ UNCHANGED <<rowVars, pc, bulk, hook, faults>>

\* The result of the send is written from the claimed snapshot.
RecordResult(w) ==
  /\ \E c \in call[w] :
       \/ c.id # NoMsg /\ MarkSent(c.log, c.id)
       \/ c.id = NoMsg /\ c.attempts + 1 < MaxAttempts
                       /\ MarkRetry(c.log, c.attempts + 1)
       \/ c.id = NoMsg /\ c.attempts + 1 >= MaxAttempts
                       /\ MarkDead(c.log, c.attempts + 1)
  /\ call' = [call EXCEPT ![w] = {}]
  /\ UNCHANGED <<pc, batch, bulk, hook, gateVars, faults, causes>>

EndTick(w) ==
  /\ pc[w] = "drain"
  /\ batch[w] = {} /\ call[w] = {}
  /\ pc' = [pc EXCEPT ![w] = "tick"]
  /\ UNCHANGED <<rowVars, batch, call, bulk, hook, gateVars, faults, causes>>

-----------------------------------------------------------------------------
\* Faults.

Fault == faults < MaxFaults /\ faults' = faults + 1

\* RequeueStuck's error is logged and the tick goes on; ClaimPending's ends it.
TickStatementFails(w) ==
  /\ Fault
  /\ \/ pc[w] = "tick" /\ pc' = [pc EXCEPT ![w] = "claim"]
     \/ pc[w] = "claim" /\ pc' = [pc EXCEPT ![w] = "tick"]
  /\ UNCHANGED <<rowVars, batch, call, bulk, hook, gateVars, causes>>

\* A recovered panic, or the ignored error of a Mark statement: the worker moves
\* on and the row stays as it is.
ItemDropped(w) ==
  /\ Fault
  /\ \/ /\ \E s \in batch[w] : batch' = [batch EXCEPT ![w] = @ \ {s}]
        /\ call[w] = {}
        /\ UNCHANGED call
     \/ /\ call[w] # {}
        /\ call' = [call EXCEPT ![w] = {}]
        /\ UNCHANGED batch
  /\ UNCHANGED <<rowVars, pc, bulk, hook, gateVars, causes>>

\* The process dies, or shuts down: with its context cancelled the rest of the
\* batch neither sends nor records anything.
Crash(w) ==
  /\ Fault
  /\ pc' = [pc EXCEPT ![w] = "tick"]
  /\ batch' = [batch EXCEPT ![w] = {}]
  /\ call' = [call EXCEPT ![w] = {}]
  /\ UNCHANGED <<rowVars, bulk, hook, gateVars, causes>>

\* BulkReject ignores the error of the INSERT: the send leaves no row.
BulkRecordFails(b) ==
  /\ b \in bulk
  /\ Fault
  /\ bulk' = bulk \ {b}
  /\ UNCHANGED <<rowVars, workVars, hook, gateVars, causes>>

-----------------------------------------------------------------------------
\* Webhooks: read the row and its status, then compare-and-swap on it.

Rank(st) ==
  CASE st \in {"queued", "pending"} -> 0
    [] st = "sending" -> 1
    [] st = "sent" -> 2
    [] OTHER -> -1

\* The status an event moves a row to, or "none".  Mutated form: message.queued is
\* taken at its word.
NextWebhookStatusQueued(current, event) ==
  IF event = "message.queued" THEN "queued" ELSE "none"
NextWebhookStatus(current, event) ==
  CASE event = "message.sent" /\ Rank("sent") > Rank(current) -> "sent"
    [] event = "message.failed" /\ current \notin {"failed", "dead"} -> "failed"
    [] OTHER -> "none"

\* The gateway may report any event of any message it accepted, in any order and
\* any number of times.  One of an id no row carries yet, or whose lookup fails,
\* is acknowledged and lost.  Bound: no new message.failed past MaxCauses.
ReceiveEvent(h, m, event) ==
  /\ hook[h] = {}
  /\ m <= sent
  /\ event = "message.failed" => causes[owner[m]] < MaxCauses
  /\ \E l \in Logs :
       LET next == NextWebhookStatus(status[l], event) IN
       /\ Exists(l) /\ msgId[l] = m
       /\ next # "none"
       /\ hook' = [hook EXCEPT ![h] =
            {[log |-> l, seen |-> status[l], next |-> next]}]
  /\ UNCHANGED <<rowVars, workVars, bulk, gateVars, faults, causes>>

UpdateStatusGuarded(h) ==
  /\ \E u \in hook[h] :
       \/ /\ status[u.log] = u.seen
          /\ status' = [status EXCEPT ![u.log] = u.next]
          /\ causes' = IF u.next = "failed" THEN [causes EXCEPT ![u.log] = @ + 1]
                                            ELSE causes
       \/ /\ status[u.log] # u.seen
          /\ UNCHANGED <<status, causes>>
  /\ hook' = [hook EXCEPT ![h] = {}]
  /\ UNCHANGED <<attempts, due, lock, msgId, hasPhone, workVars, bulk, gateVars, faults>>

\* The statement fails: 5xx, the gateway will send the event again.
HookFails(h) ==
  /\ Fault
  /\ hook[h] # {}
  /\ hook' = [hook EXCEPT ![h] = {}]
  /\ UNCHANGED <<rowVars, workVars, bulk, gateVars, causes>>

-----------------------------------------------------------------------------
\* The clock.

BecomesDue(l) ==
  /\ Exists(l) /\ ~due[l]
  /\ due' = [due EXCEPT ![l] = TRUE]
  /\ UNCHANGED <<status, attempts, lock, msgId, hasPhone, workVars, bulk, hook,
                 gateVars, faults, causes>>

\* stuckAfter passes since the claim.  It may pass while a live worker still has
\* the row in its batch (ten sends of up to a minute each outlast five minutes);
\* bound: only while causes[l] < MaxCauses.
LockAges(l) ==
  /\ lock[l] = "fresh"
  /\ (\E w \in Workers : Holds(w, l)) => causes[l] < MaxCauses
  /\ lock' = [lock EXCEPT ![l] = "stuck"]
  /\ UNCHANGED <<status, attempts, due, msgId, hasPhone, workVars, bulk, hook,
                 gateVars, faults, causes>>

-----------------------------------------------------------------------------
WorkerStep(w) ==
  \/ RequeueStuck(w) \/ ClaimPending(w)
  \/ SkipPhoneless(w) \/ SendNotification(w) \/ RecordResult(w) \/ EndTick(w)

WorkerFault(w) == TickStatementFails(w) \/ ItemDropped(w) \/ Crash(w)

HookStep(h) ==
  \/ \E m \in MsgIds, event \in Events : ReceiveEvent(h, m, event)
  \/ UpdateStatusGuarded(h)
  \/ HookFails(h)

Produce(l) == Dispatch(l) \/ BulkSend(l) \/ CascadeDelete(l)

Clock(l) == BecomesDue(l) \/ LockAges(l)

Next ==
  \/ \E l \in Logs : Produce(l) \/ Clock(l)
  \/ \E b \in bulk : BulkRecord(b) \/ BulkRecordFails(b)
  \/ \E w \in Workers : WorkerStep(w) \/ WorkerFault(w)
  \/ \E h \in Hooks : HookStep(h)

Spec == Init /\ [][Next]_vars

\* The ticker keeps firing, every gateway call returns within sendTimeout, and
\* time passes.  Nothing is assumed of users, faults or the gateway's events.
Fairness ==
  /\ \A w \in Workers : WF_vars(WorkerStep(w))
  /\ \A l \in Logs : WF_vars(BecomesDue(l)) /\ WF_vars(LockAges(l))

FairSpec == Spec /\ Fairness

-----------------------------------------------------------------------------
(***************************************************************************)
(* Properties.                                                             *)
(***************************************************************************)

\* A row in 'sending' always carries locked_at: with a NULL there RequeueStuck
\* would never match it, and a crashed worker's row would be lost for good.
SendingIsLocked == \A l \in Logs : status[l] = "sending" => lock[l] # "none"

\* A row shown as sent has a gateway message id, and every id a row carries was
\* handed out for that row: webhooks never land on another row, and the unique
\* index on whatsapp_message_id never refuses a MarkSent.
SentWasAccepted ==
  \A l \in Logs :
    /\ status[l] = "sent" => msgId[l] # NoMsg
    /\ msgId[l] # NoMsg => owner[msgId[l]] = l

\* The inductive form of SentWasAccepted: an id in flight, in a worker's hand or in
\* a BulkReject request, already belongs to its row, and nothing refers to a row
\* that was never inserted.
Attributed(l, id) == id # NoMsg => id <= sent /\ owner[id] = l
RowsAttributed == \A l \in Logs : /\ Attributed(l, msgId[l])
                                  /\ status[l] = "sent" => msgId[l] # NoMsg
CallsAttributed == \A w \in Workers : \A c \in call[w] :
                     Attributed(c.log, c.id) /\ status[c.log] # "absent"
BatchesInserted == \A w \in Workers : \A s \in batch[w] : status[s.log] # "absent"
BulkAttributed == /\ \A b \in bulk : Attributed(b.log, b.id) /\ status[b.log] = "absent"
                  /\ \A b, d \in bulk : b.log = d.log => b = d
HooksTraced == \A h \in Hooks : \A u \in hook[h] :
                 status[u.log] # "absent" /\ (Exists(u.log) => msgId[u.log] # NoMsg)
Attribution ==
  RowsAttributed /\ CallsAttributed /\ BatchesInserted /\ BulkAttributed /\ HooksTraced

\* Workers that may still send row l, and workers about to record an error for it.
Unsent(l)  == {w \in Workers : \E s \in batch[w] : s.log = l /\ s.phone}
Failing(l) == {w \in Workers : \E c \in call[w] : c.log = l /\ c.id = NoMsg}
Sendable(l) == IF status[l] \in Claimable /\ hasPhone[l] THEN 1 ELSE 0
WithinBudget(l) ==
  deliveries[l] + Cardinality(Unsent(l)) + Cardinality(Failing(l)) + Sendable(l)
    <= 1 + causes[l]

\* Every message the gateway accepted for a row, every send still in hand and
\* every way back to a claim is paid for: one by the enqueue, each other one by a
\* requeue, a lost answer or an applied message.failed.  With no such cause two
\* workers never hold the same row (FOR UPDATE SKIP LOCKED).
SendBudget == \A l \in Logs : WithinBudget(l)

\* One claim lists a row once (needed to prove SendBudget).
OneSnapshotPerRow ==
  \A w \in Workers : \A s, t \in batch[w] : s.log = t.log => s = t

\* A participant gets the same notification twice only because a stuck row was
\* requeued, an answer of the gateway was lost or the gateway reported failure:
\* a consequence of SendBudget, proved and not checked on its own.
DuplicatesExplained == \A l \in Logs : deliveries[l] <= 1 + causes[l]

\* How far a notification has come, from where its row and its sends are.
Phase(l) ==
  IF causes[l] > 0 THEN "excused"
  ELSE IF deliveries[l] > 0 THEN "told"
  ELSE IF Unsent(l) # {} THEN "inHand"
  ELSE IF Failing(l) # {} THEN "refused"
  ELSE IF Sendable(l) = 1 THEN "waiting"
  ELSE IF status[l] = "absent" THEN "new"
  ELSE "over"

Delivery == INSTANCE DeliveryRules WITH
  phase <- [l \in Logs |-> Phase(l)], received <- deliveries, excuses <- causes

\* The workers, the reaper, the webhooks and the producers together keep the promise
\* made for each notification: two workers, a late answer or a deleted row never
\* take it a way the rules do not have, and only an excuse has it sent again.
ImplementsDelivery == Delivery!Spec

\* A sent row is never put back in the queue directly: the webhook leaves its old
\* lock on it, and RequeueStuck must not take that lock for a crashed send.
SentNeverReopened ==
  [][\A l \in Logs : status[l] = "sent" => status'[l] \in {"sent", "failed", "dead", "gone"}]_vars

\* A dead row the gateway never named, and that no worker holds any more, stays dead.
UntracedDeadIsFinal ==
  [][\A l \in Logs :
       /\ status[l] = "dead" /\ msgId[l] = NoMsg
       /\ \A w \in Workers : ~Holds(w, l)
       => status'[l] \in {"dead", "gone"}]_vars

\* Durable delivery: a pending row is eventually sent, dead or deleted, whatever
\* crashes, panics and failed statements happen in between (finitely many).
EventuallySettled ==
  \A l \in Logs : status[l] = "pending" ~> status[l] \in {"sent", "dead", "gone"}

=============================================================================
