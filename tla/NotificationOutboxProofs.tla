---------------------- MODULE NotificationOutboxProofs ----------------------
(***************************************************************************)
(* Theorems about the outbox, for every value of its constants.            *)
(***************************************************************************)
EXTENDS NotificationOutbox, FiniteSetTheorems, TLAPS

\* The columns of the table keep their types.
RowTypes ==
  /\ status \in [Logs -> RowStatus \cup {"absent", "gone"}]
  /\ attempts \in [Logs -> Nat]
  /\ due \in [Logs -> BOOLEAN]
  /\ lock \in [Logs -> {"none", "fresh", "stuck"}]
  /\ msgId \in [Logs -> MsgIds \cup {NoMsg}]
  /\ hasPhone \in [Logs -> BOOLEAN]

\* The three Mark statements of the worker and the INSERT write values of the
\* columns' types.
LEMMA RowWriteTypes ==
  ASSUME TypeOK, NEW l \in Logs, NEW n \in Nat, NEW i \in MsgIds \cup {NoMsg},
         NEW st \in RowStatus, NEW p \in BOOLEAN,
         MarkSent(l, i) \/ MarkRetry(l, n) \/ MarkDead(l, n) \/ Insert(l, st, p, i)
  PROVE  RowTypes'
<1>1. RowTypes
  BY DEF TypeOK, RowTypes
<1> USE <1>1 DEF RowTypes, RowStatus, rowVars
<1>2. CASE MarkSent(l, i)
  BY <1>2 DEF MarkSent
<1>3. CASE MarkRetry(l, n)
  <2>1. /\ status' \in [Logs -> RowStatus \cup {"absent", "gone"}]
        /\ lock' \in [Logs -> {"none", "fresh", "stuck"}]
    BY <1>3 DEF MarkRetry
  <2>2. attempts' \in [Logs -> Nat] /\ due' \in [Logs -> BOOLEAN]
    BY <1>3 DEF MarkRetry
  <2> QED BY <1>3, <2>1, <2>2 DEF MarkRetry
<1>4. CASE MarkDead(l, n)
  BY <1>4 DEF MarkDead
<1>5. CASE Insert(l, st, p, i)
  BY <1>5 DEF Insert
<1> QED
  BY <1>2, <1>3, <1>4, <1>5

\* A message the gateway accepts keeps its ids and counters in their types.
LEMMA AcceptTypes ==
  ASSUME TypeOK, NEW l \in Logs, Accept(l) \/ UNCHANGED gateVars
  PROVE  /\ owner' \in [MsgIds -> Logs \cup {NoOwner}]
         /\ sent' \in 0..MaxSends
         /\ deliveries' \in [Logs -> Nat]
         /\ Accept(l) => sent + 1 \in MsgIds
<1>1. CASE UNCHANGED gateVars /\ ~Accept(l)
  BY <1>1 DEF TypeOK, gateVars
<1>2. CASE Accept(l)
  <2>1. sent + 1 \in MsgIds /\ sent' = sent + 1
    BY <1>2, OutboxAssumption DEF TypeOK, Accept, MsgIds
  <2>2. owner' \in [MsgIds -> Logs \cup {NoOwner}]
    BY <1>2, <2>1 DEF TypeOK, Accept
  <2>3. deliveries' \in [Logs -> Nat]
    BY <1>2 DEF TypeOK, Accept
  <2> QED
    BY <2>1, <2>2, <2>3 DEF MsgIds
<1> QED
  BY <1>1, <1>2

\* Every value a variable takes has its type: no action of the workers, the
\* webhook handlers or the producers leaves the declared domains.
THEOREM TypeCorrect == Spec => []TypeOK
<1>1. Init => TypeOK
  BY OutboxAssumption DEF Init, TypeOK, NoMsg
<1>2. TypeOK /\ [Next]_vars => TypeOK'
  <2> SUFFICES ASSUME TypeOK, [Next]_vars PROVE TypeOK'
    OBVIOUS
  <2> USE OutboxAssumption
      DEF TypeOK, rowVars, workVars, gateVars, NoMsg, MsgIds, RowStatus
  <2>1. ASSUME NEW l \in Logs, Dispatch(l) PROVE TypeOK'
    BY <2>1 DEF Dispatch, Unused, Insert
  <2>2. ASSUME NEW l \in Logs, BulkSend(l) PROVE TypeOK'
    <3>1. \A i \in MsgIds \cup {NoMsg} : [log |-> l, id |-> i] \in DirectSend
      BY DEF DirectSend
    <3>2. Accept(l) \/ UNCHANGED gateVars
      BY <2>2 DEF BulkSend, AcceptUnheard
    <3>3. bulk' \in SUBSET DirectSend
      BY <2>2, <3>1, AcceptTypes DEF BulkSend, AcceptUnheard
    <3>4. causes' \in [Logs -> Nat]
      BY <2>2 DEF BulkSend, AcceptUnheard
    <3> QED
      BY <2>2, <3>2, <3>3, <3>4, AcceptTypes DEF BulkSend
  <2>3. ASSUME NEW l \in Logs, CascadeDelete(l) PROVE TypeOK'
    BY <2>3 DEF CascadeDelete, Exists
  <2>4. ASSUME NEW l \in Logs, Clock(l) PROVE TypeOK'
    BY <2>4 DEF Clock, BecomesDue, LockAges
  <2>5. ASSUME NEW b \in bulk, BulkRecord(b) PROVE TypeOK'
    <3>1. b.log \in Logs /\ b.id \in MsgIds \cup {NoMsg}
      BY <2>5 DEF DirectSend
    <3>2. RowTypes'
      BY <2>5, <3>1, RowWriteTypes DEF BulkRecord
    <3> QED
      BY <2>5, <3>2 DEF BulkRecord, RowTypes
  <2>6. ASSUME NEW b \in bulk, BulkRecordFails(b) PROVE TypeOK'
    BY <2>6 DEF BulkRecordFails, Fault
  <2>7. ASSUME NEW w \in Workers, RequeueStuck(w) PROVE TypeOK'
    BY <2>7 DEF RequeueStuck, SetRows
  <2>8. ASSUME NEW w \in Workers, ClaimPending(w) PROVE TypeOK'
    <3>1. PICK S \in SUBSET DueRows :
            /\ SetRows(S, "sending", "fresh")
            /\ batch' = [batch EXCEPT ![w] =
                 {[log |-> l, attempts |-> attempts[l], phone |-> hasPhone[l]] : l \in S}]
      BY <2>8 DEF ClaimPending
    <3>2. {[log |-> l, attempts |-> attempts[l], phone |-> hasPhone[l]] : l \in S}
            \in SUBSET Snapshot
      BY DEF DueRows, Snapshot
    <3>3. batch' \in [Workers -> SUBSET Snapshot]
      BY <3>1, <3>2
    <3> QED
      BY <2>8, <3>1, <3>3 DEF ClaimPending, SetRows
  <2>9. ASSUME NEW w \in Workers, SkipPhoneless(w) PROVE TypeOK'
    <3>1. PICK s \in batch[w] :
            batch' = [batch EXCEPT ![w] = @ \ {s}] /\ MarkDead(s.log, s.attempts)
      BY <2>9 DEF SkipPhoneless
    <3>2. s.log \in Logs /\ s.attempts \in Nat
      BY DEF Snapshot
    <3>3. RowTypes'
      BY <3>1, <3>2, RowWriteTypes
    <3> QED
      BY <2>9, <3>1, <3>3 DEF SkipPhoneless, RowTypes
  <2>10. ASSUME NEW w \in Workers, SendNotification(w) PROVE TypeOK'
    <3>1. PICK s \in batch[w] :
            /\ batch' = [batch EXCEPT ![w] = @ \ {s}]
            /\ Accept(s.log) \/ UNCHANGED gateVars
            /\ \/ causes' = [causes EXCEPT ![s.log] = @ + 1]
               \/ causes' = causes
            /\ \E i \in MsgIds \cup {NoMsg} :
                 call' = [call EXCEPT ![w] =
                            {[log |-> s.log, attempts |-> s.attempts, id |-> i]}]
      <4> HIDE DEF MsgIds, NoMsg
      <4>1. PICK s \in batch[w] : 
               /\ batch' = [batch EXCEPT ![w] = @ \ {s}]
               /\ \/ /\ Accept(s.log)
                     /\ call' = [call EXCEPT ![w] =
                          {[log |-> s.log, attempts |-> s.attempts, id |-> sent + 1]}]
                     /\ UNCHANGED causes
                  \/ /\ AcceptUnheard(s.log) \/ UNCHANGED <<gateVars, causes>>
                     /\ call' = [call EXCEPT ![w] =
                          {[log |-> s.log, attempts |-> s.attempts, id |-> NoMsg]}]
        BY <2>10 DEF SendNotification
      <4>2. Accept(s.log) => sent + 1 \in MsgIds
        BY AcceptTypes DEF Snapshot
      <4> QED
        BY <4>1, <4>2 DEF AcceptUnheard
    <3>2. s.log \in Logs /\ s.attempts \in Nat
      BY DEF Snapshot
    <3>3. \A i \in MsgIds \cup {NoMsg} :
            {[log |-> s.log, attempts |-> s.attempts, id |-> i]} \in SUBSET SendResult
      BY <3>2 DEF SendResult
    <3>4. call' \in [Workers -> SUBSET SendResult]
      BY <3>1, <3>3
    <3>6. causes' \in [Logs -> Nat]
      <4>1. CASE causes' = [causes EXCEPT ![s.log] = @ + 1]
        BY <4>1, <3>2
      <4>2. CASE causes' = causes
        BY <4>2
      <4> QED
        BY <4>1, <4>2, <3>1
    <3>7. batch' \in [Workers -> SUBSET Snapshot]
      BY <3>1
    <3> QED
      BY <2>10, <3>1, <3>2, <3>4, <3>6, <3>7, AcceptTypes DEF SendNotification
  <2>11. ASSUME NEW w \in Workers, RecordResult(w) PROVE TypeOK'
    <3>1. PICK c \in call[w] : \/ MarkSent(c.log, c.id)
                               \/ MarkRetry(c.log, c.attempts + 1)
                               \/ MarkDead(c.log, c.attempts + 1)
      BY <2>11 DEF RecordResult
    <3>2. c.log \in Logs /\ c.attempts + 1 \in Nat /\ c.id \in MsgIds \cup {NoMsg}
      BY DEF SendResult
    <3>3. RowTypes'
      BY <3>1, <3>2, RowWriteTypes
    <3> QED
      BY <2>11, <3>3 DEF RecordResult, RowTypes
  <2>12. ASSUME NEW w \in Workers, EndTick(w) PROVE TypeOK'
    BY <2>12 DEF EndTick
  <2>13. ASSUME NEW w \in Workers, WorkerFault(w) PROVE TypeOK'
    <3>1. CASE TickStatementFails(w)
      <4>1. pc' \in [Workers -> {"tick", "claim", "drain"}] /\ faults' \in 0..MaxFaults
        <5>1. CASE pc' = [pc EXCEPT ![w] = "claim"]
          BY <3>1, <5>1 DEF TickStatementFails, Fault
        <5>2. CASE pc' = [pc EXCEPT ![w] = "tick"]
          BY <3>1, <5>2 DEF TickStatementFails, Fault
        <5> QED
          BY <3>1, <5>1, <5>2 DEF TickStatementFails
      <4> QED
        BY <3>1, <4>1 DEF TickStatementFails
    <3>2. CASE ItemDropped(w)
      <4>1. /\ batch' \in [Workers -> SUBSET Snapshot]
            /\ call' \in [Workers -> SUBSET SendResult]
            /\ faults' \in 0..MaxFaults
        <5>0. faults' \in 0..MaxFaults
          BY <3>2 DEF ItemDropped, Fault
        <5>1. CASE UNCHANGED batch /\ call' = [call EXCEPT ![w] = {}]
          BY <5>0, <5>1
        <5>2. CASE UNCHANGED call /\ \E s \in batch[w] : batch' = [batch EXCEPT ![w] = @ \ {s}]
          <6>1. PICK s \in batch[w] : batch' = [batch EXCEPT ![w] = @ \ {s}]
            BY <5>2
          <6> QED
            BY <5>0, <5>2, <6>1
        <5> QED
          BY <3>2, <5>1, <5>2 DEF ItemDropped
      <4> QED
        BY <3>2, <4>1 DEF ItemDropped
    <3>3. CASE Crash(w)
      BY <3>3 DEF Crash, Fault
    <3> QED
      BY <2>13, <3>1, <3>2, <3>3 DEF WorkerFault
  <2>14. ASSUME NEW h \in Hooks, NEW m \in MsgIds, NEW event \in Events,
                ReceiveEvent(h, m, event)
         PROVE  TypeOK'
    <3>1. \A l \in Logs : NextWebhookStatus(status[l], event) \in {"sent", "failed", "none"}
      BY DEF NextWebhookStatus
    <3>2. \A l \in Logs, next \in {"sent", "failed"} :
            Exists(l) => [log |-> l, seen |-> status[l], next |-> next] \in Update
      BY DEF Exists, Update
    <3>3. hook' \in [Hooks -> SUBSET Update]
      <4>1. PICK l \in Logs, next \in {"sent", "failed"} :
              /\ Exists(l)
              /\ hook' = [hook EXCEPT ![h] =
                   {[log |-> l, seen |-> status[l], next |-> next]}]
        BY <2>14, <3>1 DEF ReceiveEvent
      <4> QED
        BY <4>1, <3>2
    <3> QED
      BY <2>14, <3>3 DEF ReceiveEvent
  <2>15. ASSUME NEW h \in Hooks, UpdateStatusGuarded(h) PROVE TypeOK'
    <3>1. PICK u \in hook[h] :
            \/ /\ status' = [status EXCEPT ![u.log] = u.next]
               /\ \/ causes' = [causes EXCEPT ![u.log] = @ + 1]
                  \/ causes' = causes
            \/ UNCHANGED <<status, causes>>
      BY <2>15 DEF UpdateStatusGuarded
    <3>2. u.log \in Logs /\ u.next \in {"sent", "failed"}
      BY DEF Update
    <3>3. status' \in [Logs -> RowStatus \cup {"absent", "gone"}]
      BY <3>1, <3>2
    <3>4. causes' \in [Logs -> Nat]
      <4>1. CASE causes' = [causes EXCEPT ![u.log] = @ + 1]
        BY <4>1, <3>2
      <4>2. CASE causes' = causes
        BY <4>2
      <4> QED
        BY <4>1, <4>2, <3>1
    <3> QED
      BY <2>15, <3>3, <3>4 DEF UpdateStatusGuarded
  <2>16. ASSUME NEW h \in Hooks, HookFails(h) PROVE TypeOK'
    BY <2>16 DEF HookFails, Fault
  <2>17. CASE UNCHANGED vars
    BY <2>17 DEF vars
  <2> QED
    BY <2>1, <2>2, <2>3, <2>4, <2>5, <2>6, <2>7, <2>8, <2>9, <2>10, <2>11, <2>12,
       <2>13, <2>14, <2>15, <2>16, <2>17
       DEF Next, Produce, WorkerStep, HookStep
<1>3. QED
  BY <1>1, <1>2, PTL DEF Spec

-----------------------------------------------------------------------------
\* A row in 'sending' always has locked_at, so the reaper can always see it.
THEOREM SendingLocked == Spec => []SendingIsLocked
<1>1. Init => SendingIsLocked
  BY DEF Init, SendingIsLocked
<1>2. TypeOK /\ SendingIsLocked /\ [Next]_vars => SendingIsLocked'
  <2> SUFFICES ASSUME TypeOK, SendingIsLocked, [Next]_vars,
                      NEW k \in Logs, status'[k] = "sending"
               PROVE  lock'[k] # "none"
    BY DEF SendingIsLocked
  <2> USE DEF TypeOK, SendingIsLocked, rowVars
  <2>1. ASSUME NEW l \in Logs, Produce(l) PROVE lock'[k] # "none"
    BY <2>1 DEF Produce, Dispatch, BulkSend, CascadeDelete, Insert
  <2>2. ASSUME NEW l \in Logs, Clock(l) PROVE lock'[k] # "none"
    BY <2>2 DEF Clock, BecomesDue, LockAges
  <2>3. ASSUME NEW b \in bulk, BulkRecord(b) PROVE lock'[k] # "none"
    BY <2>3 DEF BulkRecord, Insert, DirectSend
  <2>4. ASSUME NEW b \in bulk, BulkRecordFails(b) PROVE lock'[k] # "none"
    BY <2>4 DEF BulkRecordFails
  <2>5. ASSUME NEW w \in Workers, RequeueStuck(w) PROVE lock'[k] # "none"
    BY <2>5 DEF RequeueStuck, SetRows
  <2>6. ASSUME NEW w \in Workers, ClaimPending(w) PROVE lock'[k] # "none"
    BY <2>6 DEF ClaimPending, SetRows
  <2>7. ASSUME NEW w \in Workers, SkipPhoneless(w) PROVE lock'[k] # "none"
    BY <2>7 DEF SkipPhoneless, MarkDead
  <2>8. ASSUME NEW w \in Workers, SendNotification(w) \/ EndTick(w) \/ WorkerFault(w)
        PROVE  lock'[k] # "none"
    BY <2>8 DEF SendNotification, EndTick, WorkerFault, TickStatementFails, ItemDropped, Crash
  <2>9. ASSUME NEW w \in Workers, RecordResult(w) PROVE lock'[k] # "none"
    BY <2>9 DEF RecordResult, MarkSent, MarkRetry, MarkDead
  <2>10. ASSUME NEW h \in Hooks, HookStep(h) PROVE lock'[k] # "none"
    <3>1. CASE UpdateStatusGuarded(h)
      <4>1. PICK u \in hook[h] : \/ status' = [status EXCEPT ![u.log] = u.next]
                                 \/ status' = status
        BY <3>1 DEF UpdateStatusGuarded
      <4>2. u.next # "sending"
        BY DEF Update
      <4>3. status[k] = "sending"
        BY <4>1, <4>2
      <4> QED
        BY <3>1, <4>3 DEF UpdateStatusGuarded
    <3> QED
      BY <2>10, <3>1 DEF HookStep, ReceiveEvent, HookFails
  <2>11. CASE UNCHANGED vars
    BY <2>11 DEF vars
  <2> QED
    BY <2>1, <2>2, <2>3, <2>4, <2>5, <2>6, <2>7, <2>8, <2>9, <2>10, <2>11
       DEF Next, WorkerStep
<1>3. QED
  BY <1>1, <1>2, TypeCorrect, PTL DEF Spec

-----------------------------------------------------------------------------
\* Handing out a new id leaves the ids handed out before with their rows.
LEMMA OwnersKept ==
  ASSUME TypeOK, NEW l \in Logs, Accept(l) \/ UNCHANGED gateVars
  PROVE  \A k \in Logs, id \in MsgIds \cup {NoMsg} :
           Attributed(k, id) => Attributed(k, id)'
BY OutboxAssumption DEF TypeOK, Attributed, Accept, gateVars, MsgIds, NoMsg

LEMMA NewOwner ==
  ASSUME TypeOK, NEW l \in Logs, Accept(l), NEW id, id = sent + 1
  PROVE  id \in MsgIds /\ Attributed(l, id)'
<1>1. id \in MsgIds /\ sent' = id
  BY AcceptTypes DEF Accept
<1>2. owner'[id] = l
  BY <1>1 DEF TypeOK, Accept
<1> QED
  BY <1>1, <1>2, OutboxAssumption DEF TypeOK, Attributed, MsgIds

\* Everything that names a row names one of Logs.
LEMMA NamedRows ==
  ASSUME TypeOK
  PROVE  /\ \A w \in Workers : \A s \in batch[w] : s.log \in Logs /\ s.attempts \in Nat
         /\ \A w \in Workers : \A c \in call[w] :
              c.log \in Logs /\ c.attempts \in Nat /\ c.id \in MsgIds \cup {NoMsg}
         /\ \A b \in bulk : b.log \in Logs /\ b.id \in MsgIds \cup {NoMsg}
         /\ \A h \in Hooks : \A u \in hook[h] :
              u.log \in Logs /\ u.seen \in RowStatus /\ u.next \in {"sent", "failed"}
BY DEF TypeOK, Snapshot, SendResult, DirectSend, Update

\* Writing one row, with the producers' and the workers' hands only emptied, keeps
\* the attribution when the row ends with an id of its own, and with one if it is
\* sent or some webhook is about to update it.
LEMMA RowWriteAttribution ==
  ASSUME TypeOK, Attribution, NEW l \in Logs, NEW st \in RowStatus,
         NEW id \in MsgIds \cup {NoMsg},
         status' = [status EXCEPT ![l] = st],
         msgId' = [msgId EXCEPT ![l] = id],
         Attributed(l, id), st = "sent" => id # NoMsg,
         id # NoMsg \/ status[l] = "absent" \/ (Exists(l) /\ id = msgId[l]),
         UNCHANGED <<owner, sent, hook>>,
         \A w \in Workers : batch'[w] \subseteq batch[w] /\ call'[w] \subseteq call[w],
         bulk' \subseteq bulk, \A b \in bulk' : b.log # l
  PROVE  Attribution'
<1> USE DEF Attribution
<1>1. \A k \in Logs : /\ k # l => status'[k] = status[k] /\ msgId'[k] = msgId[k]
                      /\ k = l => status'[k] = st /\ msgId'[k] = id
  BY DEF TypeOK
<1>2. \A k \in Logs, i \in MsgIds \cup {NoMsg} : Attributed(k, i)' <=> Attributed(k, i)
  BY DEF Attributed
<1>3. \A k \in Logs : msgId[k] \in MsgIds \cup {NoMsg}
  BY DEF TypeOK
<1>4. st # "absent"
  BY DEF RowStatus
<1>5. RowsAttributed'
  BY <1>1, <1>2, <1>3 DEF RowsAttributed
<1>6. CallsAttributed' /\ BatchesInserted'
  BY <1>1, <1>2, <1>4, NamedRows DEF CallsAttributed, BatchesInserted
<1>7. BulkAttributed'
  BY <1>1, <1>2, NamedRows DEF BulkAttributed
<1>8. HooksTraced'
  BY <1>1, <1>4, NamedRows DEF HooksTraced, Exists
<1> QED
  BY <1>5, <1>6, <1>7, <1>8

\* The three Mark statements, for a row that was inserted.
LEMMA MarkAttribution ==
  ASSUME TypeOK, Attribution, NEW l \in Logs, NEW n \in Nat,
         NEW id, status[l] # "absent",
         \/ id \in MsgIds /\ Attributed(l, id) /\ MarkSent(l, id)
         \/ MarkRetry(l, n) \/ MarkDead(l, n),
         UNCHANGED <<owner, sent, hook, bulk>>,
         \A w \in Workers : batch'[w] \subseteq batch[w] /\ call'[w] \subseteq call[w]
  PROVE  Attribution'
<1>1. \A b \in bulk : b.log # l
  BY DEF Attribution, BulkAttributed
<1>2. CASE ~Exists(l)
  <2>1. UNCHANGED <<status, msgId>>
    BY <1>2 DEF MarkSent, MarkRetry, MarkDead, rowVars
  <2>2. \A k \in Logs, i \in MsgIds \cup {NoMsg} : Attributed(k, i)' <=> Attributed(k, i)
    BY DEF Attributed
  <2> QED
    BY <2>1, <2>2, NamedRows
       DEF TypeOK, Attribution, RowsAttributed, CallsAttributed, BatchesInserted,
           BulkAttributed, HooksTraced, Exists
<1>3. CASE Exists(l)
  <2>1. Attributed(l, msgId[l]) /\ msgId[l] \in MsgIds \cup {NoMsg}
    BY DEF Attribution, RowsAttributed, TypeOK
  <2>2. msgId = [msgId EXCEPT ![l] = msgId[l]]
    BY DEF TypeOK
  <2>3. CASE id \in MsgIds /\ Attributed(l, id) /\ MarkSent(l, id)
    BY <1>1, <1>3, <2>3, RowWriteAttribution DEF MarkSent, RowStatus, MsgIds, NoMsg
  <2>4. CASE MarkRetry(l, n)
    <3>1. status' = [status EXCEPT ![l] = "failed"] /\ msgId' = [msgId EXCEPT ![l] = msgId[l]]
      BY <1>3, <2>2, <2>4 DEF MarkRetry
    <3> QED
      BY <1>1, <1>3, <2>1, <3>1, RowWriteAttribution DEF RowStatus
  <2>5. CASE MarkDead(l, n)
    <3>1. status' = [status EXCEPT ![l] = "dead"] /\ msgId' = [msgId EXCEPT ![l] = msgId[l]]
      BY <1>3, <2>2, <2>5 DEF MarkDead
    <3> QED
      BY <1>1, <1>3, <2>1, <3>1, RowWriteAttribution DEF RowStatus
  <2> QED
    BY <2>3, <2>4, <2>5
<1> QED
  BY <1>2, <1>3

\* Every id in the system, in a row or in flight to one, was handed out for the row
\* it is with, and nothing in flight names a row that was never inserted.
THEOREM AttributionKept == Spec => []Attribution
<1> USE DEF RowStatus
<1>1. Init => Attribution
  BY DEF Init, Attribution, RowsAttributed, CallsAttributed, BatchesInserted,
         BulkAttributed, HooksTraced, Attributed
<1>2. TypeOK /\ Attribution /\ [Next]_vars => Attribution'
  <2> SUFFICES ASSUME TypeOK, Attribution, [Next]_vars PROVE Attribution'
    OBVIOUS
  <2> USE DEF TypeOK, Attribution, RowsAttributed, CallsAttributed, BatchesInserted,
              BulkAttributed, HooksTraced, rowVars, workVars, Exists
  <2>1. ASSUME NEW l \in Logs, Dispatch(l) PROVE Attribution'
    <3>1. Attributed(l, NoMsg)
      BY DEF Attributed
    <3>2. \E st \in {"pending", "dead"} : /\ status' = [status EXCEPT ![l] = st]
                                        /\ msgId' = [msgId EXCEPT ![l] = NoMsg]
      BY <2>1 DEF Dispatch, Insert
    <3> QED
      BY <2>1, <3>1, <3>2, RowWriteAttribution DEF Dispatch, Unused, gateVars
  <2>2. ASSUME NEW l \in Logs, BulkSend(l) PROVE Attribution'
    <3>1. Accept(l) \/ UNCHANGED gateVars
      BY <2>2 DEF BulkSend, AcceptUnheard
    <3>2. \A k \in Logs, id \in MsgIds \cup {NoMsg} :
             Attributed(k, id) => Attributed(k, id)'
      BY <3>1, OwnersKept
    <3>3. PICK id \in MsgIds \cup {NoMsg} :
             /\ bulk' = bulk \cup {[log |-> l, id |-> id]}
             /\ Attributed(l, id)'
      <4>1. CASE Accept(l) /\ bulk' = bulk \cup {[log |-> l, id |-> sent + 1]}
        <5>1. PICK id : id = sent + 1
          OBVIOUS
        <5>2. id \in MsgIds /\ Attributed(l, id)'
          BY <4>1, <5>1, NewOwner
        <5> QED
          BY <4>1, <5>1, <5>2
      <4>2. CASE bulk' = bulk \cup {[log |-> l, id |-> NoMsg]}
        BY <4>2 DEF Attributed
      <4> QED
        BY <2>2, <4>1, <4>2 DEF BulkSend
    <3>4. RowsAttributed' /\ CallsAttributed' /\ BatchesInserted' /\ HooksTraced'
      BY <2>2, <3>2 DEF BulkSend, SendResult
    <3>5. BulkAttributed'
      BY <2>2, <3>2, <3>3 DEF BulkSend, DirectSend, Unused
    <3> QED
      BY <3>4, <3>5
  <2>3. ASSUME NEW l \in Logs, CascadeDelete(l) PROVE Attribution'
    BY <2>3 DEF CascadeDelete, gateVars, Attributed
  <2>4. ASSUME NEW l \in Logs, Clock(l) PROVE Attribution'
    BY <2>4 DEF Clock, BecomesDue, LockAges, gateVars, Attributed
  <2>5. ASSUME NEW b \in bulk, BulkRecord(b) PROVE Attribution'
    <3>1. b.log \in Logs /\ b.id \in MsgIds \cup {NoMsg}
      BY NamedRows
    <3>2. PICK st \in {"queued", "failed"} :
            /\ status' = [status EXCEPT ![b.log] = st]
            /\ msgId' = [msgId EXCEPT ![b.log] = b.id]
      BY <2>5 DEF BulkRecord, Insert
    <3>3. \A d \in bulk \ {b} : d.log # b.log
      OBVIOUS
    <3>4. Attributed(b.log, b.id) /\ status[b.log] = "absent"
      OBVIOUS
    <3>5. /\ UNCHANGED <<owner, sent, hook, batch, call>>
          /\ bulk' = bulk \ {b}
      BY <2>5 DEF BulkRecord, gateVars
    <3> HIDE DEF TypeOK, Attribution
    <3> QED
      BY <3>1, <3>2, <3>3, <3>4, <3>5, RowWriteAttribution
  <2>6. ASSUME NEW b \in bulk, BulkRecordFails(b) PROVE Attribution'
    BY <2>6 DEF BulkRecordFails, gateVars, Attributed
  <2>7. ASSUME NEW w \in Workers, RequeueStuck(w) PROVE Attribution'
    BY <2>7 DEF RequeueStuck, SetRows, StuckRows, gateVars, Attributed,
                Snapshot, SendResult, Update, DirectSend
  <2>8. ASSUME NEW w \in Workers, ClaimPending(w) PROVE Attribution'
    <3>1. PICK S \in SUBSET DueRows :
            /\ SetRows(S, "sending", "fresh")
            /\ batch' = [batch EXCEPT ![w] =
                 {[log |-> l, attempts |-> attempts[l], phone |-> hasPhone[l]] : l \in S}]
      BY <2>8 DEF ClaimPending
    <3>2. \A l \in Logs : /\ status'[l] = IF l \in S THEN "sending" ELSE status[l]
                          /\ l \in S => Exists(l)
      BY <3>1 DEF SetRows, DueRows, Claimable
    <3>3. UNCHANGED <<msgId, owner, sent, call, bulk, hook>>
      BY <2>8 DEF ClaimPending, gateVars
    <3>4. \A k \in Logs, i \in MsgIds \cup {NoMsg} : Attributed(k, i)' <=> Attributed(k, i)
      BY <3>3 DEF Attributed
    <3>5. RowsAttributed' /\ CallsAttributed' /\ BulkAttributed' /\ HooksTraced'
      BY <3>2, <3>3, <3>4, NamedRows
    <3>6. ASSUME NEW v \in Workers, NEW s \in batch'[v] PROVE status'[s.log] # "absent"
      <4>1. CASE s \in batch[v]
        BY <4>1, <3>2, NamedRows
      <4>2. CASE s \notin batch[v]
        <5>1. s.log \in S
          BY <3>1, <4>2
        <5> QED
          BY <3>2, <5>1 DEF DueRows
      <4> QED
        BY <4>1, <4>2
    <3> QED
      BY <3>5, <3>6
  <2>9. ASSUME NEW w \in Workers, SkipPhoneless(w) PROVE Attribution'
    <3>1. PICK s \in batch[w] :
            batch' = [batch EXCEPT ![w] = @ \ {s}] /\ MarkDead(s.log, s.attempts)
      BY <2>9 DEF SkipPhoneless
    <3>2. s.log \in Logs /\ s.attempts \in Nat /\ status[s.log] # "absent"
      BY NamedRows
    <3>3. \A v \in Workers : batch'[v] \subseteq batch[v] /\ call'[v] \subseteq call[v]
      BY <2>9, <3>1 DEF SkipPhoneless
    <3>4. UNCHANGED <<owner, sent, hook, bulk>>
      BY <2>9 DEF SkipPhoneless, gateVars
    <3> QED
      BY <3>1, <3>2, <3>3, <3>4, MarkAttribution
  <2>10. ASSUME NEW w \in Workers, SendNotification(w) PROVE Attribution'
    <3>1. PICK s \in batch[w] :
            /\ batch' = [batch EXCEPT ![w] = @ \ {s}]
            /\ \/ /\ Accept(s.log)
                  /\ call' = [call EXCEPT ![w] =
                       {[log |-> s.log, attempts |-> s.attempts, id |-> sent + 1]}]
               \/ /\ Accept(s.log) \/ UNCHANGED gateVars
                  /\ call' = [call EXCEPT ![w] =
                       {[log |-> s.log, attempts |-> s.attempts, id |-> NoMsg]}]
      BY <2>10 DEF SendNotification, AcceptUnheard
    <3>2. s.log \in Logs /\ status[s.log] # "absent"
      BY NamedRows
    <3>3. \A k \in Logs, id \in MsgIds \cup {NoMsg} :
             Attributed(k, id) => Attributed(k, id)'
      BY <3>1, <3>2, OwnersKept
    <3>4. PICK id \in MsgIds \cup {NoMsg} :
            /\ call' = [call EXCEPT ![w] =
                          {[log |-> s.log, attempts |-> s.attempts, id |-> id]}]
            /\ Attributed(s.log, id)'
      <4> DEFINE Result(i) == {[log |-> s.log, attempts |-> s.attempts, id |-> i]}
      <4>1. ASSUME Accept(s.log), call' = [call EXCEPT ![w] = Result(sent + 1)]
            PROVE  \E i \in MsgIds \cup {NoMsg} :
                      call' = [call EXCEPT ![w] = Result(i)] /\ Attributed(s.log, i)'
        <5>1. PICK i : i = sent + 1
          OBVIOUS
        <5>2. i \in MsgIds /\ Attributed(s.log, i)'
          BY <4>1, <5>1, <3>2, NewOwner
        <5> QED
          BY <4>1, <5>1, <5>2
      <4>2. Attributed(s.log, NoMsg)'
        BY DEF Attributed
      <4> QED
        BY <3>1, <4>1, <4>2
    <3>5. UNCHANGED <<status, msgId, bulk, hook>>
      BY <2>10 DEF SendNotification
    <3>6. RowsAttributed' /\ BulkAttributed' /\ HooksTraced'
      BY <3>3, <3>5, NamedRows
    <3>7. BatchesInserted'
      BY <3>1, <3>5
    <3>8. CallsAttributed'
      BY <3>2, <3>3, <3>4, <3>5, NamedRows
    <3> QED
      BY <3>6, <3>7, <3>8
  <2>11. ASSUME NEW w \in Workers, RecordResult(w) PROVE Attribution'
    <3>1. PICK c \in call[w] : \/ c.id # NoMsg /\ MarkSent(c.log, c.id)
                               \/ MarkRetry(c.log, c.attempts + 1)
                               \/ MarkDead(c.log, c.attempts + 1)
      BY <2>11 DEF RecordResult
    <3>2. /\ c.log \in Logs /\ c.attempts + 1 \in Nat /\ c.id \in MsgIds \cup {NoMsg}
          /\ Attributed(c.log, c.id) /\ status[c.log] # "absent"
      BY NamedRows
    <3>3. \A v \in Workers : batch'[v] \subseteq batch[v] /\ call'[v] \subseteq call[v]
      BY <2>11 DEF RecordResult
    <3>4. UNCHANGED <<owner, sent, hook, bulk>>
      BY <2>11 DEF RecordResult, gateVars
    <3> QED
      BY <3>1, <3>2, <3>3, <3>4, MarkAttribution
  <2>12. ASSUME NEW w \in Workers, EndTick(w) \/ WorkerFault(w) PROVE Attribution'
    BY <2>12 DEF EndTick, WorkerFault, TickStatementFails, ItemDropped, Crash, gateVars, Attributed
  <2>13. ASSUME NEW h \in Hooks, NEW m \in MsgIds, NEW event \in Events,
                ReceiveEvent(h, m, event)
         PROVE  Attribution'
    <3>1. UNCHANGED <<status, msgId, owner, sent, batch, call, bulk>>
      BY <2>13 DEF ReceiveEvent, gateVars
    <3>2. \A k \in Logs, i \in MsgIds \cup {NoMsg} : Attributed(k, i)' <=> Attributed(k, i)
      BY <3>1 DEF Attributed
    <3>3. HooksTraced'
      <4>1. CASE UNCHANGED hook
        BY <3>1, <4>1
      <4>2. CASE ~UNCHANGED hook
        <5>1. PICK l \in Logs, next \in {"sent", "failed"} :
                /\ Exists(l) /\ msgId[l] = m
                /\ hook' = [hook EXCEPT ![h] =
                     {[log |-> l, seen |-> status[l], next |-> next]}]
          <6>1. \A l \in Logs : NextWebhookStatus(status[l], event) \in {"sent", "failed", "none"}
            BY DEF NextWebhookStatus
          <6> QED
            BY <2>13, <4>2, <6>1 DEF ReceiveEvent
        <5>2. m # NoMsg
          BY DEF MsgIds, NoMsg
        <5> QED
          BY <3>1, <5>1, <5>2
      <4> QED
        BY <4>1, <4>2
    <3> QED
      BY <3>1, <3>2, <3>3, NamedRows
  <2>14. ASSUME NEW h \in Hooks, UpdateStatusGuarded(h) PROVE Attribution'
    <3>1. PICK u \in hook[h] :
            \/ status[u.log] = u.seen /\ status' = [status EXCEPT ![u.log] = u.next]
            \/ status' = status
      BY <2>14 DEF UpdateStatusGuarded
    <3>2. u.log \in Logs /\ u.seen \in RowStatus /\ u.next \in {"sent", "failed"}
      BY NamedRows
    <3>3. UNCHANGED <<msgId, owner, sent, batch, call, bulk>>
      BY <2>14 DEF UpdateStatusGuarded, gateVars
    <3>4. \A k \in Logs, i \in MsgIds \cup {NoMsg} : Attributed(k, i)' <=> Attributed(k, i)
      BY <3>3 DEF Attributed
    <3>5. \A k \in Logs : \/ status'[k] = status[k]
                          \/ /\ Exists(k) /\ status'[k] \in {"sent", "failed"}
                             /\ msgId[k] # NoMsg
      BY <3>1, <3>2
    <3>6. RowsAttributed' /\ CallsAttributed' /\ BatchesInserted' /\ BulkAttributed'
      BY <3>3, <3>4, <3>5, NamedRows
    <3>7. HooksTraced'
      <4>1. \A v \in Hooks : hook'[v] \subseteq hook[v]
        BY <2>14 DEF UpdateStatusGuarded
      <4> QED
        BY <3>3, <3>5, <4>1, NamedRows
    <3> QED
      BY <3>6, <3>7
  <2>15. ASSUME NEW h \in Hooks, HookFails(h) PROVE Attribution'
    BY <2>15 DEF HookFails, gateVars, Attributed
  <2>16. CASE UNCHANGED vars
    BY <2>16 DEF vars, gateVars, Attributed
  <2> QED
    BY <2>1, <2>2, <2>3, <2>4, <2>5, <2>6, <2>7, <2>8, <2>9, <2>10, <2>11, <2>12,
       <2>13, <2>14, <2>15, <2>16
       DEF Next, Produce, WorkerStep, HookStep
<1>3. QED
  BY <1>1, <1>2, TypeCorrect, PTL DEF Spec

\* Every id a row carries was handed out for it: webhooks are never applied to a
\* row of somebody else, and the unique index never refuses an id.
THEOREM MessageAttribution == Spec => []SentWasAccepted
<1>1. TypeOK /\ Attribution => SentWasAccepted
  BY DEF TypeOK, Attribution, RowsAttributed, Attributed, SentWasAccepted
<1>2. QED
  BY <1>1, TypeCorrect, AttributionKept, PTL

-----------------------------------------------------------------------------
\* How the status of a row may change, and who changes it.
StatusMove(l) ==
  \/ status'[l] = status[l]
  \/ status[l] \in {"absent", "sending"} \cup Claimable
  \/ status'[l] = "gone"
  \/ status'[l] \in {"sent", "failed", "dead"} /\ \E w \in Workers : Holds(w, l)
  \/ status'[l] \in {"sent", "failed"} /\ \E h \in Hooks : \E u \in hook[h] : u.log = l

LEMMA StatusMoves ==
  ASSUME TypeOK, Attribution, [Next]_vars
  PROVE  \A l \in Logs : StatusMove(l)
<1>1. ASSUME NEW x, NEW st, NEW phone, NEW id, Insert(x, st, phone, id), status[x] = "absent"
      PROVE  \A l \in Logs : StatusMove(l)
  BY <1>1 DEF Insert, StatusMove, TypeOK
<1>2. ASSUME NEW x, NEW n, NEW id, MarkSent(x, id) \/ MarkRetry(x, n) \/ MarkDead(x, n),
             NEW w \in Workers, Holds(w, x)
      PROVE  \A l \in Logs : StatusMove(l)
  <2>1. \A l \in Logs : status'[l] = status[l] \/ (l = x /\ status'[l] \in {"sent", "failed", "dead"})
    BY <1>2 DEF MarkSent, MarkRetry, MarkDead, TypeOK, rowVars
  <2> QED  BY <1>2, <2>1 DEF StatusMove
<1>3. ASSUME UNCHANGED status PROVE \A l \in Logs : StatusMove(l)
  BY <1>3 DEF StatusMove
<1>4. ASSUME NEW l \in Logs, Produce(l) \/ Clock(l) PROVE \A k \in Logs : StatusMove(k)
  <2>1. CASE Dispatch(l)
    BY <1>1, <2>1 DEF Dispatch, Unused
  <2>2. CASE CascadeDelete(l)
    BY <2>2 DEF CascadeDelete, StatusMove, TypeOK
  <2>3. CASE BulkSend(l) \/ Clock(l)
    BY <1>3, <2>3 DEF BulkSend, Clock, BecomesDue, LockAges, rowVars
  <2> QED  BY <1>4, <2>1, <2>2, <2>3 DEF Produce
<1>5. ASSUME NEW b \in bulk, BulkRecord(b) \/ BulkRecordFails(b) PROVE \A l \in Logs : StatusMove(l)
  <2>1. status[b.log] = "absent"
    BY DEF Attribution, BulkAttributed
  <2>2. CASE BulkRecord(b)
    BY <1>1, <2>1, <2>2 DEF BulkRecord
  <2>3. CASE BulkRecordFails(b)
    BY <1>3, <2>3 DEF BulkRecordFails, rowVars
  <2> QED  BY <1>5, <2>2, <2>3
<1>6. ASSUME NEW w \in Workers, WorkerStep(w) PROVE \A l \in Logs : StatusMove(l)
  <2>1. CASE RequeueStuck(w)
    BY <2>1 DEF RequeueStuck, SetRows, StuckRows, StatusMove
  <2>2. CASE ClaimPending(w)
    BY <2>2 DEF ClaimPending, SetRows, DueRows, StatusMove
  <2>3. CASE SkipPhoneless(w)
    BY <1>2, <2>3 DEF SkipPhoneless, Holds
  <2>4. CASE RecordResult(w)
    BY <1>2, <2>4 DEF RecordResult, Holds
  <2>5. CASE SendNotification(w) \/ EndTick(w)
    BY <1>3, <2>5 DEF SendNotification, EndTick, rowVars
  <2> QED  BY <1>6, <2>1, <2>2, <2>3, <2>4, <2>5 DEF WorkerStep
<1>7. ASSUME NEW w \in Workers, WorkerFault(w) PROVE \A l \in Logs : StatusMove(l)
  BY <1>3, <1>7 DEF WorkerFault, TickStatementFails, ItemDropped, Crash, rowVars
<1>8. ASSUME NEW h \in Hooks, HookStep(h) PROVE \A l \in Logs : StatusMove(l)
  <2>1. CASE UpdateStatusGuarded(h)
    <3>1. PICK u \in hook[h] : UNCHANGED status \/ status' = [status EXCEPT ![u.log] = u.next]
      BY <2>1 DEF UpdateStatusGuarded
    <3>2. u.next \in {"sent", "failed"}
      BY DEF TypeOK, Update
    <3>3. \A l \in Logs : status'[l] = status[l] \/ (l = u.log /\ status'[l] = u.next)
      BY <3>1 DEF TypeOK
    <3> QED  BY <3>2, <3>3 DEF StatusMove
  <2>2. CASE ~UpdateStatusGuarded(h)
    BY <1>3, <1>8, <2>2 DEF HookStep, ReceiveEvent, HookFails, rowVars
  <2> QED  BY <2>1, <2>2
<1>9. CASE UNCHANGED vars
  BY <1>3, <1>9 DEF vars, rowVars
<1> QED
  BY <1>4, <1>5, <1>6, <1>7, <1>8, <1>9 DEF Next

\* A sent row is never put back in the queue directly, whatever lock the webhook
\* left on it: the reaper takes rows that are being sent only.
THEOREM SentStaysSent == Spec => SentNeverReopened
<1>1. TypeOK /\ Attribution /\ [Next]_vars =>
        [\A l \in Logs : status[l] = "sent" => status'[l] \in {"sent", "failed", "dead", "gone"}]_vars
  BY StatusMoves DEF StatusMove, Claimable
<1> QED  BY <1>1, TypeCorrect, AttributionKept, PTL DEF Spec, SentNeverReopened

\* A dead row the gateway never named, and that no worker holds any more, stays
\* dead: only a worker's snapshot or an event of its message could revive it.
THEOREM UntracedDeadStaysDead == Spec => UntracedDeadIsFinal
<1>1. ASSUME TypeOK, Attribution, [Next]_vars, NEW l \in Logs,
             status[l] = "dead", msgId[l] = NoMsg, \A w \in Workers : ~Holds(w, l)
      PROVE  status'[l] \in {"dead", "gone"}
  <2>1. StatusMove(l)
    BY <1>1, StatusMoves
  <2>2. ASSUME NEW h \in Hooks, NEW u \in hook[h], u.log = l PROVE FALSE
    BY <1>1, <2>2 DEF Attribution, HooksTraced, Exists, RowStatus
  <2> QED  BY <1>1, <2>1, <2>2 DEF StatusMove, Claimable
<1>2. TypeOK /\ Attribution /\ [Next]_vars =>
        [\A l \in Logs :
           /\ status[l] = "dead" /\ msgId[l] = NoMsg
           /\ \A w \in Workers : ~Holds(w, l)
           => status'[l] \in {"dead", "gone"}]_vars
  BY <1>1
<1> QED  BY <1>2, TypeCorrect, AttributionKept, PTL DEF Spec, UntracedDeadIsFinal

-----------------------------------------------------------------------------
(***************************************************************************)
(* No unexplained duplicate: for every number of rows, workers and webhook *)
(* requests, a row is handed to the gateway at most once more than there   *)
(* were requeues, lost answers and applied message.failed events.          *)
(***************************************************************************)

\* Cardinalities of sets of workers.
LEMMA WorkerCounts ==
  ASSUME NEW A \in SUBSET Workers, NEW B \in SUBSET Workers
  PROVE  /\ Cardinality(A) \in Nat
         /\ A \subseteq B => Cardinality(A) <= Cardinality(B)
         /\ A = {} => Cardinality(A) = 0
<1>1. IsFiniteSet(A) /\ IsFiniteSet(B)
  BY OutboxAssumption, FS_Subset
<1> QED
  BY <1>1, FS_CardinalityType, FS_Subset, FS_EmptySet

LEMMA OneWorkerMore ==
  ASSUME NEW A \in SUBSET Workers, NEW B \in SUBSET Workers, NEW w \in Workers,
         A \subseteq B \cup {w}
  PROVE  Cardinality(A) <= Cardinality(B) + 1
<1>1. IsFiniteSet(B)
  BY OutboxAssumption, FS_Subset
<1>2. IsFiniteSet(B \cup {w}) /\ Cardinality(B \cup {w}) <= Cardinality(B) + 1
  <2>1. Cardinality(B) \in Nat
    BY <1>1, FS_CardinalityType
  <2>2. /\ IsFiniteSet(B \cup {w})
        /\ Cardinality(B \cup {w}) = IF w \in B THEN Cardinality(B) ELSE Cardinality(B) + 1
    BY <1>1, FS_AddElement
  <2> QED
    BY <2>1, <2>2
<1>3. Cardinality(A) <= Cardinality(B \cup {w})
  BY <1>2, FS_Subset
<1>4. Cardinality(A) \in Nat /\ Cardinality(B) \in Nat /\ Cardinality(B \cup {w}) \in Nat
  BY <1>1, <1>2, FS_Subset, FS_CardinalityType
<1> QED
  BY <1>2, <1>3, <1>4

LEMMA OneWorkerLess ==
  ASSUME NEW A \in SUBSET Workers, NEW B \in SUBSET Workers, NEW w \in B,
         A \subseteq B \ {w}
  PROVE  Cardinality(A) + 1 <= Cardinality(B)
<1>1. IsFiniteSet(B) /\ IsFiniteSet(B \ {w})
  BY OutboxAssumption, FS_Subset
<1>2. Cardinality(B \ {w}) = Cardinality(B) - 1
  BY <1>1, FS_RemoveElement
<1>3. Cardinality(A) <= Cardinality(B \ {w})
  BY <1>1, FS_Subset
<1>4. Cardinality(A) \in Nat /\ Cardinality(B) \in Nat
  BY <1>1, FS_Subset, FS_CardinalityType
<1> QED
  BY <1>2, <1>3, <1>4

\* What a row's budget counts are natural numbers, in every state.
LEMMA BudgetTypes ==
  ASSUME TypeOK, TypeOK', NEW k \in Logs
  PROVE  /\ deliveries[k] \in Nat /\ deliveries'[k] \in Nat
         /\ causes[k] \in Nat /\ causes'[k] \in Nat
         /\ Unsent(k) \in SUBSET Workers /\ Unsent(k)' \in SUBSET Workers
         /\ Failing(k) \in SUBSET Workers /\ Failing(k)' \in SUBSET Workers
         /\ Cardinality(Unsent(k)) \in Nat /\ Cardinality(Unsent(k)') \in Nat
         /\ Cardinality(Failing(k)) \in Nat /\ Cardinality(Failing(k)') \in Nat
         /\ Sendable(k) \in {0, 1} /\ Sendable(k)' \in {0, 1}
<1>1. /\ Unsent(k) \in SUBSET Workers /\ Unsent(k)' \in SUBSET Workers
      /\ Failing(k) \in SUBSET Workers /\ Failing(k)' \in SUBSET Workers
  BY DEF Unsent, Failing
<1>2. Sendable(k) \in {0, 1} /\ Sendable(k)' \in {0, 1}
  BY DEF Sendable
<1> QED
  BY <1>1, <1>2, WorkerCounts DEF TypeOK

\* A step that delivers nothing, lets no worker hold the row that did not before and
\* makes it sendable only for a new cause keeps the row within its budget.
LEMMA NothingOwed ==
  ASSUME TypeOK, TypeOK', NEW k \in Logs, WithinBudget(k),
         deliveries'[k] = deliveries[k],
         Unsent(k)' \subseteq Unsent(k), Failing(k)' \subseteq Failing(k),
         \/ Sendable(k)' <= Sendable(k) /\ causes'[k] >= causes[k]
         \/ causes'[k] = causes[k] + 1
  PROVE  WithinBudget(k)'
<1>1. /\ Cardinality(Unsent(k)') <= Cardinality(Unsent(k))
      /\ Cardinality(Failing(k)') <= Cardinality(Failing(k))
  BY BudgetTypes, WorkerCounts
<1>2. deliveries'[k] + Cardinality(Unsent(k)') + Cardinality(Failing(k)') + Sendable(k)'
        <= 1 + causes'[k]
  BY <1>1, BudgetTypes DEF WithinBudget
<1> QED
  BY <1>2 DEF WithinBudget

\* A row that was never inserted is in no worker's hand.
LEMMA AbsentIsFree ==
  ASSUME TypeOK, Attribution, NEW k \in Logs, status[k] = "absent"
  PROVE  Unsent(k) = {} /\ Failing(k) = {} /\ Sendable(k) = 0
BY DEF Attribution, BatchesInserted, CallsAttributed, Unsent, Failing, Sendable, Claimable

\* Every claim takes a row once, and batches only shrink until the next claim.
THEOREM RowsClaimedOnce == Spec => []OneSnapshotPerRow
<1>1. Init => OneSnapshotPerRow
  BY DEF Init, OneSnapshotPerRow
<1>2. TypeOK /\ OneSnapshotPerRow /\ [Next]_vars => OneSnapshotPerRow'
  <2> SUFFICES ASSUME TypeOK, OneSnapshotPerRow, [Next]_vars PROVE OneSnapshotPerRow'
    OBVIOUS
  <2>1. ASSUME \A w \in Workers : batch'[w] \subseteq batch[w] PROVE OneSnapshotPerRow'
    BY <2>1 DEF OneSnapshotPerRow
  <2>2. ASSUME NEW w \in Workers, ClaimPending(w) PROVE OneSnapshotPerRow'
    <3>1. PICK S \in SUBSET DueRows :
            batch' = [batch EXCEPT ![w] =
              {[log |-> l, attempts |-> attempts[l], phone |-> hasPhone[l]] : l \in S}]
      BY <2>2 DEF ClaimPending
    <3> QED
      BY <3>1 DEF OneSnapshotPerRow, TypeOK
  <2>3. ASSUME NEW w \in Workers, SkipPhoneless(w) \/ SendNotification(w) \/ WorkerFault(w)
        PROVE  OneSnapshotPerRow'
    <3>1. \/ UNCHANGED batch
          \/ batch' = [batch EXCEPT ![w] = {}]
          \/ \E s \in batch[w] : batch' = [batch EXCEPT ![w] = @ \ {s}]
      BY <2>3 DEF SkipPhoneless, SendNotification, WorkerFault, TickStatementFails,
                  ItemDropped, Crash
    <3> QED
      BY <3>1, <2>1 DEF TypeOK
  <2>4. ASSUME UNCHANGED batch PROVE OneSnapshotPerRow'
    BY <2>4 DEF OneSnapshotPerRow
  <2> QED
    BY <2>2, <2>3, <2>4
       DEF Next, Produce, Clock, HookStep, WorkerStep, vars, workVars, rowVars, gateVars,
           Dispatch, BulkSend, CascadeDelete, BecomesDue, LockAges, BulkRecord,
           BulkRecordFails, RequeueStuck, RecordResult, EndTick, ReceiveEvent,
           UpdateStatusGuarded, HookFails
<1>3. QED
  BY <1>1, <1>2, TypeCorrect, PTL DEF Spec

\* A worker that sends a row gives up its right to send it and may only gain, when
\* it hears no answer, the right to record an error for it.
LEMMA SendKeepsBudget ==
  ASSUME TypeOK, TypeOK', OneSnapshotPerRow, NEW k \in Logs, WithinBudget(k),
         NEW w \in Workers, SendNotification(w)
  PROVE  WithinBudget(k)'
<1>1. PICK s \in batch[w] :
        /\ s.phone
        /\ batch' = [batch EXCEPT ![w] = @ \ {s}]
        /\ \/ /\ Accept(s.log)
              /\ call' = [call EXCEPT ![w] =
                   {[log |-> s.log, attempts |-> s.attempts, id |-> sent + 1]}]
              /\ UNCHANGED causes
           \/ /\ AcceptUnheard(s.log) \/ UNCHANGED <<gateVars, causes>>
              /\ call' = [call EXCEPT ![w] =
                   {[log |-> s.log, attempts |-> s.attempts, id |-> NoMsg]}]
  BY DEF SendNotification
<1>2. s.log \in Logs
  BY NamedRows
<1>3. call[w] = {} /\ UNCHANGED <<status, hasPhone>>
  BY DEF SendNotification, rowVars
<1>4. Sendable(k)' = Sendable(k)
  BY <1>3 DEF Sendable
<1>5. Unsent(k)' \subseteq Unsent(k)
  BY <1>1 DEF Unsent, TypeOK
<1>6. CASE s.log # k
  <2>1. Failing(k)' \subseteq Failing(k)
    BY <1>1, <1>6 DEF Failing, TypeOK
  <2>2. deliveries'[k] = deliveries[k] /\ causes'[k] = causes[k]
    BY <1>1, <1>2, <1>6 DEF Accept, AcceptUnheard, gateVars, TypeOK
  <2> QED
    BY <1>4, <1>5, <2>1, <2>2, NothingOwed, BudgetTypes
<1>7. CASE s.log = k
  <2>1. w \in Unsent(k) /\ Unsent(k)' \subseteq Unsent(k) \ {w}
    BY <1>1, <1>5, <1>7 DEF Unsent, TypeOK, OneSnapshotPerRow
  <2>2. Cardinality(Unsent(k)') + 1 <= Cardinality(Unsent(k))
    BY <2>1, OneWorkerLess, BudgetTypes
  <2>3. CASE /\ Accept(s.log)
             /\ call' = [call EXCEPT ![w] =
                  {[log |-> s.log, attempts |-> s.attempts, id |-> sent + 1]}]
             /\ UNCHANGED causes
    <3>1. sent + 1 # NoMsg
      BY DEF TypeOK, NoMsg
    <3>2. Failing(k)' \subseteq Failing(k)
      BY <1>3, <2>3, <3>1 DEF Failing, TypeOK
    <3>3. Cardinality(Failing(k)') <= Cardinality(Failing(k))
      BY <3>2, WorkerCounts, BudgetTypes
    <3>4. deliveries'[k] = deliveries[k] + 1 /\ causes'[k] = causes[k]
      BY <1>7, <2>3 DEF Accept, TypeOK
    <3>5. deliveries'[k] + Cardinality(Unsent(k)') + Cardinality(Failing(k)')
            + Sendable(k)' <= 1 + causes'[k]
      BY <1>4, <2>2, <3>3, <3>4, BudgetTypes DEF WithinBudget
    <3> QED
      BY <3>5 DEF WithinBudget
  <2>4. CASE /\ AcceptUnheard(s.log) \/ UNCHANGED <<gateVars, causes>>
             /\ call' = [call EXCEPT ![w] =
                  {[log |-> s.log, attempts |-> s.attempts, id |-> NoMsg]}]
    <3>1. Failing(k)' \subseteq Failing(k) \cup {w}
      BY <2>4 DEF Failing, TypeOK
    <3>2. Cardinality(Failing(k)') <= Cardinality(Failing(k)) + 1
      BY <3>1, OneWorkerMore, BudgetTypes
    <3>3. \/ deliveries'[k] = deliveries[k] + 1 /\ causes'[k] = causes[k] + 1
          \/ deliveries'[k] = deliveries[k] /\ causes'[k] = causes[k]
      BY <1>7, <2>4 DEF Accept, AcceptUnheard, gateVars, TypeOK
    <3>4. deliveries'[k] + Cardinality(Unsent(k)') + Cardinality(Failing(k)')
            + Sendable(k)' <= 1 + causes'[k]
      BY <1>4, <2>2, <3>2, <3>3, BudgetTypes DEF WithinBudget
    <3> QED
      BY <3>4 DEF WithinBudget
  <2> QED
    BY <1>1, <2>3, <2>4
<1> QED
  BY <1>6, <1>7

\* A claimed row can be sent by the claiming worker and not be claimed again.
LEMMA ClaimKeepsBudget ==
  ASSUME TypeOK, TypeOK', NEW k \in Logs, WithinBudget(k),
         NEW w \in Workers, ClaimPending(w)
  PROVE  WithinBudget(k)'
<1>1. PICK S \in SUBSET DueRows :
        /\ SetRows(S, "sending", "fresh")
        /\ batch' = [batch EXCEPT ![w] =
             {[log |-> l, attempts |-> attempts[l], phone |-> hasPhone[l]] : l \in S}]
  BY DEF ClaimPending
<1>2. UNCHANGED <<hasPhone, call, deliveries, causes>>
  BY DEF ClaimPending, gateVars
<1>3. Failing(k)' = Failing(k)
  BY <1>2 DEF Failing
<1>4. status'[k] = IF k \in S THEN "sending" ELSE status[k]
  BY <1>1 DEF SetRows
<1>5. CASE k \in S /\ hasPhone[k]
  <2>1. Sendable(k) = 1 /\ Sendable(k)' = 0
    BY <1>1, <1>2, <1>4, <1>5 DEF Sendable, DueRows, Claimable
  <2>2. Unsent(k)' \subseteq Unsent(k) \cup {w}
    BY <1>1 DEF Unsent, TypeOK
  <2>3. Cardinality(Unsent(k)') <= Cardinality(Unsent(k)) + 1
    BY <2>2, OneWorkerMore, BudgetTypes
  <2>4. deliveries'[k] + Cardinality(Unsent(k)') + Cardinality(Failing(k)') + Sendable(k)'
          <= 1 + causes'[k]
    BY <1>2, <1>3, <2>1, <2>3, BudgetTypes DEF WithinBudget
  <2> QED
    BY <2>4 DEF WithinBudget
<1>6. CASE ~(k \in S /\ hasPhone[k])
  <2>1. Unsent(k)' \subseteq Unsent(k)
    BY <1>1, <1>6 DEF Unsent, TypeOK
  <2>2. Sendable(k)' <= Sendable(k)
    BY <1>2, <1>4, <1>6 DEF Sendable
  <2> QED
    BY <1>2, <1>3, <2>1, <2>2, NothingOwed, BudgetTypes
<1> QED
  BY <1>5, <1>6

\* Recording an error hands the worker's right to the row itself; recording success
\* ends it.
LEMMA RecordKeepsBudget ==
  ASSUME TypeOK, TypeOK', NEW k \in Logs, WithinBudget(k),
         NEW w \in Workers, RecordResult(w)
  PROVE  WithinBudget(k)'
<1>1. PICK c \in call[w] :
        \/ c.id # NoMsg /\ MarkSent(c.log, c.id)
        \/ c.id = NoMsg /\ MarkRetry(c.log, c.attempts + 1)
        \/ MarkDead(c.log, c.attempts + 1)
  BY DEF RecordResult
<1>2. c.log \in Logs
  BY NamedRows
<1>3. UNCHANGED <<batch, deliveries, causes>> /\ call' = [call EXCEPT ![w] = {}]
  BY DEF RecordResult, gateVars
<1>4. Unsent(k)' \subseteq Unsent(k) /\ Failing(k)' \subseteq Failing(k) \ {w}
  BY <1>3 DEF Unsent, Failing, TypeOK
<1>5. CASE Sendable(k)' <= Sendable(k)
  BY <1>3, <1>4, <1>5, NothingOwed, BudgetTypes
<1>6. CASE ~(Sendable(k)' <= Sendable(k))
  <2>1. c.log = k /\ c.id = NoMsg
    <3>1. hasPhone' = hasPhone
      BY <1>1 DEF MarkSent, MarkRetry, MarkDead, rowVars
    <3>2. status[k] \notin Claimable /\ status'[k] \in Claimable
      BY <1>6, <3>1 DEF Sendable
    <3> QED
      BY <1>1, <1>2, <3>2 DEF MarkSent, MarkRetry, MarkDead, rowVars, Claimable, TypeOK
  <2>2. w \in Failing(k)
    BY <2>1 DEF Failing
  <2>3. Cardinality(Failing(k)') + 1 <= Cardinality(Failing(k))
    BY <1>4, <2>2, OneWorkerLess, BudgetTypes
  <2>4. Cardinality(Unsent(k)') <= Cardinality(Unsent(k))
    BY <1>4, WorkerCounts, BudgetTypes
  <2>5. deliveries'[k] + Cardinality(Unsent(k)') + Cardinality(Failing(k)') + Sendable(k)'
          <= 1 + causes'[k]
    BY <1>3, <2>3, <2>4, BudgetTypes DEF WithinBudget
  <2> QED
    BY <2>5 DEF WithinBudget
<1> QED
  BY <1>5, <1>6

\* A new row may be sent once; a row of BulkReject is sent before it exists and is
\* never claimed, for it has no number.
LEMMA ProducersKeepBudget ==
  ASSUME TypeOK, TypeOK', Attribution, NEW k \in Logs, WithinBudget(k), NEW l \in Logs,
         Produce(l)
  PROVE  WithinBudget(k)'
<1>1. Unsent(k)' = Unsent(k) /\ Failing(k)' = Failing(k)
  BY DEF Produce, Dispatch, BulkSend, CascadeDelete, workVars, Unsent, Failing
<1>2. CASE Dispatch(l)
  <2>1. UNCHANGED <<deliveries, causes>>
    BY <1>2 DEF Dispatch, gateVars
  <2>2. CASE k = l
    <3>1. Unsent(k) = {} /\ Failing(k) = {} /\ deliveries[k] = 0
      BY <1>2, <2>2, AbsentIsFree DEF Dispatch, Unused
    <3>2. Cardinality(Unsent(k)') = 0 /\ Cardinality(Failing(k)') = 0
      BY <1>1, <3>1, WorkerCounts, BudgetTypes
    <3>3. deliveries'[k] + Cardinality(Unsent(k)') + Cardinality(Failing(k)')
            + Sendable(k)' <= 1 + causes'[k]
      BY <2>1, <3>1, <3>2, BudgetTypes
    <3> QED
      BY <3>3 DEF WithinBudget
  <2>3. CASE k # l
    <3>1. Sendable(k)' = Sendable(k)
      BY <1>2, <2>3 DEF Dispatch, Insert, Sendable, TypeOK
    <3> QED
      BY <1>1, <2>1, <3>1, NothingOwed, BudgetTypes
  <2> QED
    BY <2>2, <2>3
<1>3. CASE BulkSend(l)
  <2>1. Sendable(k)' = Sendable(k)
    BY <1>3 DEF BulkSend, rowVars, Sendable
  <2>2. CASE k = l
    <3>1. /\ Unsent(k) = {} /\ Failing(k) = {} /\ Sendable(k) = 0 /\ deliveries[k] = 0
      BY <1>3, <2>2, AbsentIsFree DEF BulkSend, Unused
    <3>2. Cardinality(Unsent(k)') = 0 /\ Cardinality(Failing(k)') = 0
      BY <1>1, <3>1, WorkerCounts, BudgetTypes
    <3>3. deliveries'[k] <= 1
      BY <1>3, <2>2, <3>1 DEF BulkSend, AcceptUnheard, Accept, gateVars, TypeOK
    <3>4. deliveries'[k] + Cardinality(Unsent(k)') + Cardinality(Failing(k)')
            + Sendable(k)' <= 1 + causes'[k]
      BY <2>1, <3>1, <3>2, <3>3, BudgetTypes
    <3> QED
      BY <3>4 DEF WithinBudget
  <2>3. CASE k # l
    <3>1. deliveries'[k] = deliveries[k] /\ causes'[k] = causes[k]
      BY <1>3, <2>3 DEF BulkSend, AcceptUnheard, Accept, gateVars, TypeOK
    <3> QED
      BY <1>1, <2>1, <3>1, NothingOwed, BudgetTypes
  <2> QED
    BY <2>2, <2>3
<1>4. CASE CascadeDelete(l)
  <2>1. UNCHANGED <<deliveries, causes>>
    BY <1>4 DEF CascadeDelete, gateVars
  <2>2. Sendable(k)' <= Sendable(k)
    BY <1>4 DEF CascadeDelete, Sendable, Claimable, TypeOK
  <2> QED
    BY <1>1, <2>1, <2>2, NothingOwed, BudgetTypes
<1> QED
  BY <1>2, <1>3, <1>4 DEF Produce

\* BulkReject's INSERT, failed or not, and the clock make no row sendable.
LEMMA InsertKeepsBudget ==
  ASSUME TypeOK, TypeOK', NEW k \in Logs, WithinBudget(k),
         \/ \E b \in bulk : BulkRecord(b) \/ BulkRecordFails(b)
         \/ \E l \in Logs : Clock(l)
  PROVE  WithinBudget(k)'
<1>1. /\ Unsent(k)' = Unsent(k) /\ Failing(k)' = Failing(k)
      /\ UNCHANGED <<deliveries, causes>>
  BY DEF BulkRecord, BulkRecordFails, Clock, BecomesDue, LockAges, workVars, gateVars,
         Unsent, Failing
<1>2. Sendable(k)' <= Sendable(k)
  <2>1. CASE \E b \in bulk : BulkRecord(b)
    <3>1. PICK b \in bulk, st \in {"queued", "failed"} :
            /\ status' = [status EXCEPT ![b.log] = st]
            /\ hasPhone' = [hasPhone EXCEPT ![b.log] = FALSE]
      BY <2>1 DEF BulkRecord, Insert
    <3> QED
      BY <3>1, NamedRows DEF Sendable, TypeOK
  <2>2. CASE UNCHANGED <<status, hasPhone>>
    BY <2>2 DEF Sendable
  <2> QED
    BY <2>1, <2>2 DEF BulkRecordFails, Clock, BecomesDue, LockAges, rowVars
<1> QED
  BY <1>1, <1>2, NothingOwed, BudgetTypes

\* Requeueing a stuck row and applying message.failed each make a row sendable once
\* more, and each is a cause.
LEMMA ReopeningKeepsBudget ==
  ASSUME TypeOK, TypeOK', NEW k \in Logs, WithinBudget(k),
         \/ \E w \in Workers : RequeueStuck(w)
         \/ \E h \in Hooks : HookStep(h)
  PROVE  WithinBudget(k)'
<1>1. /\ Unsent(k)' = Unsent(k) /\ Failing(k)' = Failing(k)
      /\ UNCHANGED <<deliveries, hasPhone>>
  BY DEF RequeueStuck, HookStep, ReceiveEvent, UpdateStatusGuarded, HookFails,
         workVars, gateVars, rowVars, Unsent, Failing
<1>2. CASE \E w \in Workers : RequeueStuck(w)
  <2>1. /\ status'[k] = IF k \in StuckRows THEN "pending" ELSE status[k]
        /\ causes'[k] = IF k \in StuckRows THEN causes[k] + 1 ELSE causes[k]
    BY <1>2 DEF RequeueStuck, SetRows
  <2> QED
    BY <1>1, <2>1, NothingOwed, BudgetTypes DEF Sendable
<1>3. CASE \E h \in Hooks : UpdateStatusGuarded(h)
  <2>0. PICK h \in Hooks : UpdateStatusGuarded(h)
    BY <1>3
  <2>1. PICK u \in hook[h] :
          \/ /\ status' = [status EXCEPT ![u.log] = u.next]
             /\ causes' = IF u.next = "failed" THEN [causes EXCEPT ![u.log] = @ + 1]
                                               ELSE causes
          \/ UNCHANGED <<status, causes>>
    BY <2>0 DEF UpdateStatusGuarded
  <2>2. u.log \in Logs /\ u.next \in {"sent", "failed"}
    BY NamedRows
  <2>3. \/ Sendable(k)' <= Sendable(k) /\ causes'[k] = causes[k]
        \/ causes'[k] = causes[k] + 1
    BY <1>1, <2>1, <2>2 DEF Sendable, Claimable, TypeOK
  <2> QED
    BY <1>1, <2>3, NothingOwed, BudgetTypes
<1>4. CASE UNCHANGED <<status, causes>>
  <2>1. Sendable(k)' = Sendable(k)
    BY <1>1, <1>4 DEF Sendable
  <2> QED
    BY <1>1, <1>4, <2>1, NothingOwed, BudgetTypes
<1> QED
  BY <1>2, <1>3, <1>4 DEF HookStep, ReceiveEvent, HookFails, rowVars

\* Skipping, ending a tick and every fault only take rows out of a worker's hand.
LEMMA LettingGoKeepsBudget ==
  ASSUME TypeOK, TypeOK', NEW k \in Logs, WithinBudget(k), NEW w \in Workers,
         SkipPhoneless(w) \/ EndTick(w) \/ WorkerFault(w)
  PROVE  WithinBudget(k)'
<1>1. UNCHANGED <<deliveries, causes, hasPhone>>
  BY DEF SkipPhoneless, MarkDead, EndTick, WorkerFault, TickStatementFails, ItemDropped,
         Crash, rowVars, gateVars
<1>2. /\ batch'[w] \subseteq batch[w] /\ call'[w] \subseteq call[w]
      /\ \A v \in Workers \ {w} : batch'[v] = batch[v] /\ call'[v] = call[v]
  BY DEF SkipPhoneless, EndTick, WorkerFault, TickStatementFails, ItemDropped, Crash, TypeOK
<1>3. Unsent(k)' \subseteq Unsent(k) /\ Failing(k)' \subseteq Failing(k)
  BY <1>2 DEF Unsent, Failing
<1>4. Sendable(k)' <= Sendable(k)
  <2>1. status'[k] \in {status[k], "dead"}
    <3>1. CASE SkipPhoneless(w)
      <4>1. PICK s \in batch[w] : MarkDead(s.log, s.attempts)
        BY <3>1 DEF SkipPhoneless
      <4> QED
        BY <4>1, NamedRows DEF MarkDead, rowVars, TypeOK
    <3> QED
      BY <3>1 DEF EndTick, WorkerFault, TickStatementFails, ItemDropped, Crash, rowVars
  <2> QED
    BY <1>1, <2>1 DEF Sendable, Claimable
<1> QED
  BY <1>1, <1>3, <1>4, NothingOwed, BudgetTypes

\* Every message the gateway accepted for a row, every send still in hand and every
\* way back to a claim is paid for by the enqueue or by a counted cause.
THEOREM BudgetKept == Spec => []SendBudget
<1>1. Init => SendBudget
  <2> SUFFICES ASSUME Init, NEW k \in Logs PROVE WithinBudget(k)
    BY DEF SendBudget
  <2>1. Unsent(k) = {} /\ Failing(k) = {} /\ Sendable(k) = 0
    BY DEF Init, Unsent, Failing, Sendable, Claimable
  <2>2. Cardinality(Unsent(k)) = 0 /\ Cardinality(Failing(k)) = 0
    BY <2>1, FS_EmptySet
  <2> QED
    BY <2>1, <2>2 DEF Init, WithinBudget
<1>2. TypeOK /\ TypeOK' /\ Attribution /\ OneSnapshotPerRow /\ SendBudget /\ [Next]_vars
        => SendBudget'
  <2> SUFFICES ASSUME TypeOK, TypeOK', Attribution, OneSnapshotPerRow, SendBudget,
                      [Next]_vars, NEW k \in Logs
               PROVE  WithinBudget(k)'
    BY DEF SendBudget
  <2>1. WithinBudget(k)
    BY DEF SendBudget
  <2>2. CASE UNCHANGED vars
    BY <2>1, <2>2 DEF WithinBudget, Unsent, Failing, Sendable, vars, rowVars, workVars, gateVars
  <2> QED
    BY <2>1, <2>2, SendKeepsBudget, ClaimKeepsBudget, RecordKeepsBudget,
       ProducersKeepBudget, InsertKeepsBudget, ReopeningKeepsBudget, LettingGoKeepsBudget
       DEF Next, WorkerStep
<1>3. QED
  BY <1>1, <1>2, TypeCorrect, AttributionKept, RowsClaimedOnce, PTL DEF Spec

\* A participant never gets a notification twice without one of the counted causes.
THEOREM NoUnexplainedDuplicate == Spec => []DuplicatesExplained
<1>1. TypeOK /\ SendBudget => DuplicatesExplained
  <2> SUFFICES ASSUME TypeOK, SendBudget, NEW k \in Logs
               PROVE  deliveries[k] <= 1 + causes[k]
    BY DEF DuplicatesExplained
  <2>1. Unsent(k) \in SUBSET Workers /\ Failing(k) \in SUBSET Workers
    BY DEF Unsent, Failing
  <2>2. Cardinality(Unsent(k)) \in Nat /\ Cardinality(Failing(k)) \in Nat
    BY <2>1, WorkerCounts
  <2> QED
    BY <2>2 DEF SendBudget, WithinBudget, Sendable, TypeOK
<1>2. QED
  BY <1>1, TypeCorrect, BudgetKept, PTL

-----------------------------------------------------------------------------
(***************************************************************************)
(* The outbox keeps the promise DeliveryRules makes for each notification. *)
(***************************************************************************)

\* What the steps need to know of the workers' hands and of the gateway: a worker
\* comes to a claim with nothing in hand and has one send result at a time, and the
\* row an id was handed out for has been delivered.
HandsEmptied == \A w \in Workers : pc[w] # "drain" => batch[w] = {}
OneCall == \A w \in Workers : \A c, d \in call[w] : c = d
OwnersTold == \A m \in MsgIds, l \in Logs : Attributed(l, m) => deliveries[l] > 0

\* A tick is over before the next one starts, and it sends row by row.
THEOREM HandsKept == Spec => [](HandsEmptied /\ OneCall)
<1>1. Init => HandsEmptied /\ OneCall
  BY DEF Init, HandsEmptied, OneCall
<1>2. TypeOK /\ HandsEmptied /\ OneCall /\ [Next]_vars => HandsEmptied' /\ OneCall'
  <2> SUFFICES ASSUME TypeOK, HandsEmptied, OneCall, [Next]_vars
               PROVE  HandsEmptied' /\ OneCall'
    OBVIOUS
  <2> USE DEF TypeOK, HandsEmptied, OneCall
  <2>1. ASSUME UNCHANGED workVars PROVE HandsEmptied' /\ OneCall'
    BY <2>1 DEF workVars
  <2>2. ASSUME NEW w \in Workers, RequeueStuck(w) PROVE HandsEmptied' /\ OneCall'
    BY <2>2 DEF RequeueStuck
  <2>3. ASSUME NEW w \in Workers, ClaimPending(w) PROVE HandsEmptied' /\ OneCall'
    <3>1. /\ pc' = [pc EXCEPT ![w] = "drain"] /\ call' = call
          /\ \A v \in Workers \ {w} : batch'[v] = batch[v]
      BY <2>3 DEF ClaimPending
    <3> QED BY <3>1
  <2>4. ASSUME NEW w \in Workers, SkipPhoneless(w) PROVE HandsEmptied' /\ OneCall'
    BY <2>4 DEF SkipPhoneless
  <2>5. ASSUME NEW w \in Workers, SendNotification(w) PROVE HandsEmptied' /\ OneCall'
    <3>1. pc' = pc /\ \A v \in Workers : batch'[v] \subseteq batch[v]
      BY <2>5 DEF SendNotification
    <3>2. \E c : call' = [call EXCEPT ![w] = {c}]
      BY <2>5 DEF SendNotification
    <3> QED BY <3>1, <3>2
  <2>6. ASSUME NEW w \in Workers, RecordResult(w) PROVE HandsEmptied' /\ OneCall'
    BY <2>6 DEF RecordResult
  <2>7. ASSUME NEW w \in Workers, EndTick(w) PROVE HandsEmptied' /\ OneCall'
    BY <2>7 DEF EndTick
  <2>8. ASSUME NEW w \in Workers, WorkerFault(w) PROVE HandsEmptied' /\ OneCall'
    <3>1. CASE TickStatementFails(w)
      BY <3>1 DEF TickStatementFails
    <3>2. CASE ItemDropped(w) \/ Crash(w)
      <4>1. /\ \A v \in Workers : batch'[v] \subseteq batch[v] /\ call'[v] \subseteq call[v]
            /\ \A v \in Workers : pc'[v] = pc[v] \/ (v = w /\ batch'[v] = {})
        BY <3>2 DEF ItemDropped, Crash
      <4> QED BY <4>1
    <3> QED BY <2>8, <3>1, <3>2 DEF WorkerFault
  <2> QED
    BY <2>1, <2>2, <2>3, <2>4, <2>5, <2>6, <2>7, <2>8
       DEF Next, Produce, Clock, HookStep, WorkerStep, vars, Dispatch, BulkSend,
           CascadeDelete, BecomesDue, LockAges, BulkRecord, BulkRecordFails,
           ReceiveEvent, UpdateStatusGuarded, HookFails
<1> QED
  BY <1>1, <1>2, TypeCorrect, PTL DEF Spec

\* The gateway hands out an id only with a message it accepts.
THEOREM OwnersAreTold == Spec => []OwnersTold
<1>1. Init => OwnersTold
  BY DEF Init, OwnersTold, Attributed, MsgIds, NoMsg
<1>2. TypeOK /\ OwnersTold /\ [Next]_vars => OwnersTold'
  <2> SUFFICES ASSUME TypeOK, OwnersTold, [Next]_vars PROVE OwnersTold'
    OBVIOUS
  <2>1. ASSUME UNCHANGED gateVars PROVE OwnersTold'
    BY <2>1 DEF OwnersTold, Attributed, gateVars
  <2>2. ASSUME NEW k \in Logs, Accept(k) PROVE OwnersTold'
    <3>1. sent \in Nat /\ sent' = sent + 1 /\ sent' \in MsgIds
      <4>1. sent + 1 \in MsgIds
        BY <2>2, AcceptTypes
      <4> QED BY <2>2, <4>1 DEF Accept, TypeOK
    <3>2. \A m \in MsgIds : owner'[m] = IF m = sent' THEN k ELSE owner[m]
      BY <2>2, <3>1 DEF Accept, TypeOK
    <3>3. \A l \in Logs : deliveries'[l] = IF l = k THEN deliveries[l] + 1 ELSE deliveries[l]
      BY <2>2 DEF Accept, TypeOK
    <3>4. ASSUME NEW m \in MsgIds, NEW l \in Logs, Attributed(l, m)' PROVE deliveries'[l] > 0
      <4>1. deliveries[l] \in Nat /\ m \in Nat /\ m <= sent' /\ owner'[m] = l
        BY <3>4 DEF TypeOK, Attributed, MsgIds, NoMsg
      <4>2. CASE m = sent'
        BY <3>2, <3>3, <4>1, <4>2
      <4>3. CASE m # sent'
        BY <3>1, <3>2, <3>3, <4>1, <4>3 DEF OwnersTold, Attributed
      <4> QED BY <4>2, <4>3
    <3> QED BY <3>4 DEF OwnersTold
  <2>3. ASSUME NEW w \in Workers, SendNotification(w) PROVE OwnersTold'
    <3>1. UNCHANGED gateVars \/ \E s \in batch[w] : Accept(s.log)
      BY <2>3 DEF SendNotification, AcceptUnheard
    <3> QED BY <2>1, <2>2, <3>1, NamedRows
  <2>4. ASSUME NEW k \in Logs, BulkSend(k) PROVE OwnersTold'
    BY <2>1, <2>2, <2>4 DEF BulkSend, AcceptUnheard
  <2> QED
    BY <2>1, <2>3, <2>4
       DEF Next, Produce, Clock, HookStep, WorkerStep, WorkerFault, vars, Dispatch,
           CascadeDelete, BecomesDue, LockAges, BulkRecord, BulkRecordFails,
           RequeueStuck, ClaimPending, SkipPhoneless, RecordResult, EndTick,
           TickStatementFails, ItemDropped, Crash, ReceiveEvent, UpdateStatusGuarded,
           HookFails
<1> QED
  BY <1>1, <1>2, TypeCorrect, PTL DEF Spec

\* A notification nothing excuses is in one place at a time: sent, in one worker's
\* hand, or waiting to be claimed.
LEMMA OnePlace ==
  ASSUME TypeOK, SendBudget, NEW k \in Logs, causes[k] = 0
  PROVE  /\ \A v, w \in Unsent(k) \cup Failing(k) : v = w
         /\ Unsent(k) = {} \/ Failing(k) = {}
         /\ deliveries[k] > 0 => Unsent(k) = {} /\ Failing(k) = {} /\ Sendable(k) = 0
         /\ Sendable(k) = 1 => Unsent(k) = {} /\ Failing(k) = {}
<1> DEFINE U == Cardinality(Unsent(k))
           F == Cardinality(Failing(k))
<1>1. Unsent(k) \in SUBSET Workers /\ Failing(k) \in SUBSET Workers
  BY DEF Unsent, Failing
<1>2. IsFiniteSet(Unsent(k)) /\ IsFiniteSet(Failing(k)) /\ U \in Nat /\ F \in Nat
  BY <1>1, OutboxAssumption, FS_Subset, FS_CardinalityType
<1>3. deliveries[k] + U + F + Sendable(k) <= 1 /\ deliveries[k] \in Nat /\ Sendable(k) \in {0, 1}
  BY DEF SendBudget, WithinBudget, Sendable, TypeOK
<1>4. (U = 0 <=> Unsent(k) = {}) /\ (F = 0 <=> Failing(k) = {})
  BY <1>2, FS_EmptySet
<1>5. ASSUME NEW S, IsFiniteSet(S), Cardinality(S) <= 1, NEW v \in S, NEW w \in S PROVE v = w
  <2>1. Cardinality(S) \in Nat /\ Cardinality(S) # 0
    BY <1>5, FS_CardinalityType, FS_EmptySet
  <2>2. \E x : S = {x}
    BY <1>5, <2>1, FS_Singleton
  <2> QED BY <1>5, <2>2
<1> HIDE DEF U, F
<1>6. U <= 1 /\ F <= 1 /\ (U = 0 \/ F = 0)
  BY <1>2, <1>3
<1>7. \A v, w \in Unsent(k) \cup Failing(k) : v = w
  BY <1>2, <1>4, <1>5, <1>6 DEF U, F
<1>8. deliveries[k] > 0 => U = 0 /\ F = 0 /\ Sendable(k) = 0
  BY <1>2, <1>3
<1>9. Sendable(k) = 1 => U = 0 /\ F = 0
  BY <1>2, <1>3
<1> QED BY <1>4, <1>6, <1>7, <1>8, <1>9

\* Which phase a notification is in, told by its place.
LEMMA PhaseByPlace ==
  ASSUME TypeOK, Attribution, SendBudget, NEW k \in Logs
  PROVE  /\ Phase(k) = "excused" <=> causes[k] > 0
         /\ Phase(k) = "excused" \/ causes[k] = 0
         /\ deliveries[k] > 0 => Phase(k) \in {"told", "excused"}
         /\ Unsent(k) # {} => Phase(k) \in {"inHand", "excused"}
         /\ Failing(k) # {} => Phase(k) \in {"refused", "excused"}
         /\ Sendable(k) = 1 => Phase(k) \in {"waiting", "excused"}
         /\ Phase(k) = "inHand" => Unsent(k) # {}
         /\ Phase(k) = "refused" => Failing(k) # {}
         /\ Phase(k) \in {"inHand", "refused", "waiting", "over"} => status[k] # "absent"
         /\ Phase(k) = "new" => status[k] = "absent"
         /\ status[k] = "absent" => Phase(k) \in {"new", "told", "excused"}
<1>1. causes[k] \in Nat /\ deliveries[k] \in Nat /\ Sendable(k) \in {0, 1}
  BY DEF TypeOK, Sendable
<1>2. status[k] = "absent" => Unsent(k) = {} /\ Failing(k) = {} /\ Sendable(k) = 0
  BY AbsentIsFree
<1>3. causes[k] = 0 => /\ Unsent(k) = {} \/ Failing(k) = {}
                       /\ deliveries[k] > 0 => Unsent(k) = {} /\ Failing(k) = {} /\ Sendable(k) = 0
                       /\ Sendable(k) = 1 => Unsent(k) = {} /\ Failing(k) = {}
  BY OnePlace
<1> QED BY <1>1, <1>2, <1>3 DEF Phase

\* What a phase is read from; a step that keeps it keeps the phase.
SamePlace(k) ==
  /\ causes'[k] = causes[k] /\ deliveries'[k] = deliveries[k]
  /\ Unsent(k)' = Unsent(k) /\ Failing(k)' = Failing(k)
  /\ status'[k] = status[k] /\ hasPhone'[k] = hasPhone[k]

LEMMA SamePhase ==
  ASSUME NEW k, SamePlace(k)
  PROVE  Phase(k)' = Phase(k) /\ Sendable(k)' = Sendable(k)
<1>1. Sendable(k)' = Sendable(k)
  BY DEF SamePlace, Sendable
<1> QED BY <1>1 DEF SamePlace, Phase

\* A step moves the notifications of a set to one phase.
LEMMA MoveOf ==
  ASSUME NEW S \in SUBSET Logs, NEW to,
         \A k \in Logs : Phase(k)' = IF k \in S THEN to ELSE Phase(k)
  PROVE  Delivery!Move(S, to)
BY DEF Delivery!Move

LEMMA InOf ==
  ASSUME NEW from
  PROVE  Delivery!In(from) = {k \in Logs : Phase(k) \in from}
BY DEF Delivery!In

\* Steps of one notification that neither deliver nor excuse anything.
QuietMoves == {<<"new", "waiting">>, <<"new", "over">>, <<"inHand", "refused">>,
               <<"refused", "waiting">>, <<"waiting", "over">>, <<"refused", "over">>}

LEMMA QuietStep ==
  ASSUME UNCHANGED <<deliveries, causes>>, NEW l \in Logs,
         \A k \in Logs \ {l} : Phase(k)' = Phase(k),
         Phase(l)' = Phase(l) \/ <<Phase(l), Phase(l)'>> \in QuietMoves
  PROVE  Delivery!Next \/ UNCHANGED Delivery!vars
<1>1. CASE Phase(l)' = Phase(l)
  BY <1>1 DEF Delivery!vars
<1>2. CASE <<Phase(l), Phase(l)'>> \in QuietMoves
  <2>1. Delivery!Move({l}, Phase(l)')
    BY MoveOf
  <2>2. \A from : l \in Delivery!In(from) <=> Phase(l) \in from
    BY InOf
  <2>3. \/ Delivery!Enqueue(l) \/ Delivery!Refuse(l) \/ Delivery!Retry(l) \/ Delivery!GiveUp(l)
    BY <1>2, <2>1, <2>2
       DEF QuietMoves, Delivery!Enqueue, Delivery!Refuse, Delivery!Retry, Delivery!GiveUp
  <2> QED BY <2>3 DEF Delivery!Next
<1> QED BY <1>1, <1>2

\* Nothing about any notification's place changes.
LEMMA StillStep ==
  ASSUME UNCHANGED <<deliveries, causes>>, \A k \in Logs : Phase(k)' = Phase(k)
  PROVE  Delivery!Next \/ UNCHANGED Delivery!vars
BY DEF Delivery!vars

\* A batch is claimed.
LEMMA ClaimStep ==
  ASSUME UNCHANGED <<deliveries, causes>>,
         \A k \in Logs : Phase(k)' = Phase(k) \/ (Phase(k) \in {"waiting"} /\ Phase(k)' = "inHand")
  PROVE  Delivery!Next \/ UNCHANGED Delivery!vars
<1> DEFINE S == {k \in Logs : Phase(k) \in {"waiting"} /\ Phase(k)' = "inHand"}
<1>1. Delivery!Move(S, "inHand")
  BY MoveOf
<1>2. S \subseteq Delivery!In({"waiting"})
  BY InOf
<1>3. Delivery!Claim(S)
  BY <1>1, <1>2 DEF Delivery!Claim
<1> QED BY <1>3 DEF Delivery!Next

\* A batch is dropped.
LEMMA DropStep ==
  ASSUME UNCHANGED <<deliveries, causes>>,
         \A k \in Logs : \/ Phase(k)' = Phase(k)
                         \/ Phase(k) \in {"inHand", "refused"} /\ Phase(k)' = "over"
  PROVE  Delivery!Next \/ UNCHANGED Delivery!vars
<1> DEFINE S == {k \in Logs : Phase(k) \in {"inHand", "refused"} /\ Phase(k)' = "over"}
<1>1. Delivery!Move(S, "over")
  BY MoveOf
<1>2. S \subseteq Delivery!In({"inHand", "refused"})
  BY InOf
<1>3. Delivery!Drop(S)
  BY <1>1, <1>2 DEF Delivery!Drop
<1> QED BY <1>3 DEF Delivery!Next

\* The gateway accepts a message for a notification that was not told or over.
LEMMA DeliverStep ==
  ASSUME TypeOK, NEW l \in Logs, Phase(l) \in {"new", "inHand", "excused"},
         deliveries[l] <= causes[l],
         deliveries' = [deliveries EXCEPT ![l] = @ + 1],
         \A k \in Logs \ {l} : Phase(k)' = Phase(k),
         \/ /\ UNCHANGED causes
            /\ Phase(l)' = IF Phase(l) = "excused" THEN "excused" ELSE "told"
         \/ causes' = [causes EXCEPT ![l] = @ + 1] /\ Phase(l)' = "excused"
  PROVE  Delivery!Next
<1>1. Delivery!Move({l}, Phase(l)')
  BY MoveOf
<1>2. l \in Delivery!In({"new", "inHand", "excused"})
  BY InOf
<1>3. causes' = [causes EXCEPT ![l] = @ + 1] => Delivery!Excuse({l})
  BY DEF Delivery!Excuse, TypeOK
<1>4. Delivery!Deliver(l)
  BY <1>1, <1>2, <1>3 DEF Delivery!Deliver
<1> QED BY <1>4 DEF Delivery!Next

\* One notification, or a batch of stuck rows, is excused.
LEMMA ReopenStep ==
  ASSUME TypeOK, NEW S \in SUBSET Logs, UNCHANGED deliveries,
         causes' = [k \in Logs |-> IF k \in S THEN causes[k] + 1 ELSE causes[k]],
         \A k \in Logs : Phase(k)' = IF k \in S THEN "excused" ELSE Phase(k),
         \A k \in S : Phase(k) \in {"inHand", "refused", "over", "told", "excused"}
  PROVE  Delivery!Next
<1>1. Delivery!Move(S, "excused") /\ Delivery!Excuse(S)
  BY MoveOf DEF Delivery!Excuse
<1>2. S \subseteq Delivery!In({"inHand", "refused", "over", "told", "excused"})
  BY InOf
<1> QED BY <1>1, <1>2 DEF Delivery!Next, Delivery!Reopen

\* What every step starts from.
Kept ==
  /\ TypeOK /\ Attribution /\ SendBudget /\ OneSnapshotPerRow
  /\ HandsEmptied /\ OneCall /\ OwnersTold

\* A row an id was handed out for has been told, or a repetition of it is excused.
LEMMA AttributedIsTold ==
  ASSUME Kept, NEW l \in Logs, NEW id \in MsgIds \cup {NoMsg}, id # NoMsg, Attributed(l, id)
  PROVE  Phase(l) \in {"told", "excused"} /\ deliveries[l] > 0
<1>1. deliveries[l] > 0
  BY DEF Kept, OwnersTold
<1> QED BY <1>1, PhaseByPlace DEF Kept

LEMMA DispatchDelivers ==
  ASSUME Kept, Kept', NEW l \in Logs, Dispatch(l)
  PROVE  Delivery!Next \/ UNCHANGED Delivery!vars
<1>1. UNCHANGED <<causes, deliveries, batch, call>>
  BY DEF Dispatch, gateVars, workVars
<1>2. \A k \in Logs : Unsent(k)' = Unsent(k) /\ Failing(k)' = Failing(k)
  BY <1>1 DEF Unsent, Failing
<1>3. \A k \in Logs \ {l} : status'[k] = status[k] /\ hasPhone'[k] = hasPhone[k]
  BY DEF Dispatch, Insert, Kept, TypeOK
<1>4. \A k \in Logs \ {l} : Phase(k)' = Phase(k)
  BY <1>1, <1>2, <1>3, SamePhase DEF SamePlace
<1>5. status[l] = "absent" /\ deliveries[l] = 0 /\ status'[l] # "absent"
  BY DEF Dispatch, Unused, Insert, Kept, TypeOK
<1>6. Unsent(l) = {} /\ Failing(l) = {} /\ Sendable(l) = 0
  BY <1>5, AbsentIsFree DEF Kept
<1>7. Phase(l) \in {"new", "excused"} /\ (Phase(l) = "excused" => Phase(l)' = "excused")
  BY <1>1, <1>5, <1>6 DEF Phase, Kept, TypeOK
<1>8. Phase(l) = "new" => Phase(l)' \in {"waiting", "over"}
  BY <1>1, <1>2, <1>5, <1>6 DEF Phase, Kept, TypeOK
<1>9. Phase(l)' = Phase(l) \/ <<Phase(l), Phase(l)'>> \in QuietMoves
  BY <1>7, <1>8 DEF QuietMoves
<1> QED BY <1>1, <1>4, <1>9, QuietStep

LEMMA BulkSendDelivers ==
  ASSUME Kept, Kept', NEW l \in Logs, BulkSend(l)
  PROVE  Delivery!Next \/ UNCHANGED Delivery!vars
<1> USE DEF Kept
<1>1. UNCHANGED <<batch, call, status, hasPhone>>
  BY DEF BulkSend, rowVars, workVars
<1>2. \A k \in Logs : Unsent(k)' = Unsent(k) /\ Failing(k)' = Failing(k)
  BY <1>1 DEF Unsent, Failing
<1>3. status[l] = "absent" /\ deliveries[l] = 0 /\ Phase(l) \in {"new", "excused"}
  <2>1. status[l] = "absent" /\ deliveries[l] = 0
    BY DEF BulkSend, Unused
  <2>2. Unsent(l) = {} /\ Failing(l) = {} /\ Sendable(l) = 0
    BY <2>1, AbsentIsFree
  <2> QED BY <2>1, <2>2 DEF Phase
<1>4. CASE UNCHANGED <<gateVars, causes>>
  <2>1. \A k \in Logs : Phase(k)' = Phase(k)
    BY <1>1, <1>2, <1>4, SamePhase DEF SamePlace, gateVars
  <2> QED BY <1>4, <2>1, StillStep DEF gateVars
<1>5. CASE Accept(l)
  <2>1. deliveries' = [deliveries EXCEPT ![l] = @ + 1]
    BY <1>5 DEF Accept
  <2>2. UNCHANGED causes \/ causes' = [causes EXCEPT ![l] = @ + 1]
    BY DEF BulkSend, AcceptUnheard
  <2>3. \A k \in Logs \ {l} : deliveries'[k] = deliveries[k] /\ causes'[k] = causes[k]
    BY <2>1, <2>2 DEF TypeOK
  <2>4. \A k \in Logs \ {l} : Phase(k)' = Phase(k)
    BY <1>1, <1>2, <2>3, SamePhase DEF SamePlace
  <2>5. /\ causes[l] \in Nat /\ deliveries[l] <= causes[l] /\ deliveries'[l] > 0
        /\ causes' = [causes EXCEPT ![l] = @ + 1] => causes'[l] > 0
    BY <1>3, <2>1 DEF TypeOK
  <2>6. UNCHANGED causes => Phase(l)' = IF Phase(l) = "excused" THEN "excused" ELSE "told"
    BY <1>3, <2>5 DEF Phase
  <2>7. causes' = [causes EXCEPT ![l] = @ + 1] => Phase(l)' = "excused"
    BY <2>5 DEF Phase
  <2> QED BY <1>3, <2>1, <2>2, <2>4, <2>5, <2>6, <2>7, DeliverStep
<1> QED BY <1>4, <1>5 DEF BulkSend, AcceptUnheard

\* Deleting a row changes no send in hand; a row that waited is over.
LEMMA DeleteDelivers ==
  ASSUME Kept, Kept', NEW l \in Logs, CascadeDelete(l)
  PROVE  Delivery!Next \/ UNCHANGED Delivery!vars
<1>1. UNCHANGED <<causes, deliveries, batch, call>>
  BY DEF CascadeDelete, gateVars, workVars
<1>2. \A k \in Logs : Unsent(k)' = Unsent(k) /\ Failing(k)' = Failing(k)
  BY <1>1 DEF Unsent, Failing
<1>3. \A k \in Logs \ {l} : status'[k] = status[k] /\ hasPhone'[k] = hasPhone[k]
  BY DEF CascadeDelete, Kept, TypeOK
<1>4. \A k \in Logs \ {l} : Phase(k)' = Phase(k)
  BY <1>1, <1>2, <1>3, SamePhase DEF SamePlace
<1>5. status[l] # "absent" /\ status'[l] = "gone" /\ Sendable(l)' = 0
  BY DEF CascadeDelete, Exists, RowStatus, Kept, TypeOK, Sendable, Claimable
<1>6. Phase(l)' = Phase(l) \/ (Phase(l) = "waiting" /\ Phase(l)' = "over")
  BY <1>1, <1>2, <1>5 DEF Phase
<1> QED BY <1>1, <1>4, <1>6, QuietStep DEF QuietMoves

\* BulkReject's row is not claimed: inserting it changes nothing it has told.
LEMMA BulkRecordDelivers ==
  ASSUME Kept, Kept', NEW b \in bulk, BulkRecord(b) \/ BulkRecordFails(b)
  PROVE  Delivery!Next \/ UNCHANGED Delivery!vars
<1> DEFINE l == b.log
<1>0. l \in Logs /\ b.id \in MsgIds \cup {NoMsg} /\ Attributed(l, b.id) /\ status[l] = "absent"
  BY NamedRows DEF Kept, Attribution, BulkAttributed
<1> HIDE DEF l
<1>1. UNCHANGED <<causes, deliveries, batch, call>>
  BY DEF BulkRecord, BulkRecordFails, gateVars, workVars
<1>2. \A k \in Logs : Unsent(k)' = Unsent(k) /\ Failing(k)' = Failing(k)
  BY <1>1 DEF Unsent, Failing
<1>3. CASE BulkRecordFails(b)
  <2>1. UNCHANGED <<status, hasPhone>>
    BY <1>3 DEF BulkRecordFails, rowVars
  <2>2. \A k \in Logs : Phase(k)' = Phase(k)
    BY <1>1, <1>2, <2>1, SamePhase DEF SamePlace
  <2> QED BY <1>1, <2>2, StillStep
<1>4. CASE BulkRecord(b)
  <2>1. PICK st \in {"queued", "failed"} :
          /\ status' = [status EXCEPT ![l] = st]
          /\ hasPhone' = [hasPhone EXCEPT ![l] = FALSE]
    BY <1>4 DEF BulkRecord, Insert, l
  <2>2. \A k \in Logs \ {l} : status'[k] = status[k] /\ hasPhone'[k] = hasPhone[k]
    BY <2>1 DEF Kept, TypeOK
  <2>3. \A k \in Logs \ {l} : Phase(k)' = Phase(k)
    BY <1>1, <1>2, <2>2, SamePhase DEF SamePlace
  <2>4. status'[l] # "absent" /\ Sendable(l)' = 0
    BY <1>0, <2>1 DEF Kept, TypeOK, Sendable
  <2>5. Unsent(l) = {} /\ Failing(l) = {} /\ Sendable(l) = 0
    BY <1>0, AbsentIsFree DEF Kept
  <2>6. Phase(l)' = Phase(l) \/ (Phase(l) = "new" /\ Phase(l)' = "over")
    BY <1>0, <1>1, <1>2, <2>4, <2>5 DEF Phase
  <2> QED BY <1>0, <1>1, <2>3, <2>6, QuietStep DEF QuietMoves
<1> QED BY <1>3, <1>4

LEMMA RequeueDelivers ==
  ASSUME Kept, Kept', NEW w \in Workers, RequeueStuck(w)
  PROVE  Delivery!Next \/ UNCHANGED Delivery!vars
<1>1. UNCHANGED <<deliveries, batch, call, hasPhone>>
  BY DEF RequeueStuck, gateVars
<1>2. \A k \in Logs : Unsent(k)' = Unsent(k) /\ Failing(k)' = Failing(k)
  BY <1>1 DEF Unsent, Failing
<1>3. StuckRows \in SUBSET Logs
  BY DEF StuckRows
<1>4. causes' = [k \in Logs |-> IF k \in StuckRows THEN causes[k] + 1 ELSE causes[k]]
  BY DEF RequeueStuck
<1>5. ASSUME NEW k \in Logs \ StuckRows PROVE Phase(k)' = Phase(k)
  <2>1. status'[k] = status[k]
    BY DEF RequeueStuck, SetRows
  <2> QED BY <1>1, <1>2, <1>4, <2>1, SamePhase DEF SamePlace
<1>6. ASSUME NEW k \in StuckRows
      PROVE  /\ Phase(k)' = "excused"
             /\ Phase(k) \in {"inHand", "refused", "over", "told", "excused"}
  <2>1. causes'[k] > 0
    BY <1>3, <1>4 DEF Kept, TypeOK
  <2>2. status[k] = "sending" /\ Sendable(k) = 0
    BY DEF StuckRows, Sendable, Claimable
  <2> QED BY <2>1, <2>2 DEF Phase
<1>7. \A k \in Logs : Phase(k)' = IF k \in StuckRows THEN "excused" ELSE Phase(k)
  BY <1>5, <1>6
<1> QED BY <1>1, <1>3, <1>4, <1>6, <1>7, ReopenStep DEF Kept

\* A claim takes into hand the rows that waited; the others it takes have no number.
LEMMA ClaimDelivers ==
  ASSUME Kept, Kept', NEW w \in Workers, ClaimPending(w)
  PROVE  Delivery!Next \/ UNCHANGED Delivery!vars
<1> USE DEF Kept
<1>1. PICK S \in SUBSET DueRows :
        /\ SetRows(S, "sending", "fresh")
        /\ batch' = [batch EXCEPT ![w] =
             {[log |-> l, attempts |-> attempts[l], phone |-> hasPhone[l]] : l \in S}]
  BY DEF ClaimPending
<1>2. UNCHANGED <<hasPhone, call, deliveries, causes>> /\ batch[w] = {}
  BY DEF ClaimPending, gateVars, HandsEmptied
<1>3. ASSUME NEW k \in Logs
      PROVE  Phase(k)' = Phase(k) \/ (Phase(k) = "waiting" /\ Phase(k)' = "inHand")
  <2>1. Failing(k)' = Failing(k)
    BY <1>2 DEF Failing
  <2>2. status'[k] = IF k \in S THEN "sending" ELSE status[k]
    BY <1>1 DEF SetRows
  <2>3. Unsent(k)' = IF k \in S /\ hasPhone[k] THEN Unsent(k) \cup {w} ELSE Unsent(k)
    <3>1. \A v \in Workers : batch'[v] =
            IF v = w THEN {[log |-> l, attempts |-> attempts[l], phone |-> hasPhone[l]] : l \in S}
                     ELSE batch[v]
      BY <1>1 DEF TypeOK
    <3>2. w \notin Unsent(k)
      BY <1>2 DEF Unsent
    <3>3. \A v \in Workers \ {w} : v \in Unsent(k)' <=> v \in Unsent(k)
      BY <3>1 DEF Unsent
    <3>4. w \in Unsent(k)' <=> k \in S /\ hasPhone[k]
      <4>1. batch'[w] = {[log |-> l, attempts |-> attempts[l], phone |-> hasPhone[l]] : l \in S}
        BY <3>1
      <4>2. \A s \in batch'[w] : s.log = k /\ s.phone => k \in S /\ hasPhone[k]
        BY <4>1
      <4>3. k \in S => [log |-> k, attempts |-> attempts[k], phone |-> hasPhone[k]] \in batch'[w]
        BY <4>1
      <4> QED BY <4>2, <4>3 DEF Unsent
    <3>5. Unsent(k)' \subseteq Workers /\ Unsent(k) \subseteq Workers
      BY DEF Unsent
    <3> QED BY <3>2, <3>3, <3>4, <3>5
  <2>4. CASE k \in S /\ hasPhone[k]
    <3>1. Sendable(k) = 1
      BY <1>1, <2>4 DEF Sendable, DueRows
    <3>2. Phase(k) \in {"waiting", "excused"}
      BY <3>1, PhaseByPlace
    <3>3. Unsent(k)' # {} /\ causes'[k] = causes[k]
      BY <1>2, <2>3, <2>4
    <3>4. Phase(k)' \in {"inHand", "excused"} /\ (Phase(k)' = "excused" <=> Phase(k) = "excused")
      <4>1. deliveries'[k] = deliveries[k]
        BY <1>2
      <4>2. causes[k] = 0 => deliveries[k] = 0
        BY <3>1, OnePlace DEF TypeOK
      <4> QED BY <3>3, <4>1, <4>2 DEF Phase, TypeOK
    <3> QED BY <3>2, <3>4
  <2>5. CASE ~(k \in S /\ hasPhone[k])
    <3>1. Unsent(k)' = Unsent(k) /\ Sendable(k)' = Sendable(k)
      BY <1>1, <1>2, <2>2, <2>3, <2>5 DEF Sendable, Claimable
    <3>2. status'[k] = "absent" <=> status[k] = "absent"
      BY <1>1, <2>2 DEF DueRows, Claimable
    <3> QED BY <1>2, <2>1, <3>1, <3>2 DEF Phase
  <2> QED BY <2>4, <2>5
<1>4. \A k \in Logs : Phase(k)' = Phase(k) \/ (Phase(k) \in {"waiting"} /\ Phase(k)' = "inHand")
  BY <1>3
<1>5. UNCHANGED <<deliveries, causes>>
  BY <1>2
<1> QED BY <1>4, <1>5, ClaimStep

\* A row without a number is not sent and not claimed again.
LEMMA SkipDelivers ==
  ASSUME Kept, Kept', NEW w \in Workers, SkipPhoneless(w)
  PROVE  Delivery!Next \/ UNCHANGED Delivery!vars
<1> USE DEF Kept
<1>1. PICK s \in batch[w] :
        ~s.phone /\ batch' = [batch EXCEPT ![w] = @ \ {s}] /\ MarkDead(s.log, s.attempts)
  BY DEF SkipPhoneless
<1> DEFINE l == s.log
<1>2. l \in Logs /\ status[l] # "absent"
  BY NamedRows DEF Attribution, BatchesInserted
<1>3. UNCHANGED <<call, deliveries, causes>>
  BY DEF SkipPhoneless, gateVars
<1>4. \A k \in Logs : Unsent(k)' = Unsent(k) /\ Failing(k)' = Failing(k)
  BY <1>1, <1>3 DEF Unsent, Failing, TypeOK
<1>5. /\ hasPhone' = hasPhone
      /\ \A k \in Logs \ {l} : status'[k] = status[k]
      /\ status'[l] = status[l] \/ status'[l] = "dead"
  BY <1>1, <1>2 DEF MarkDead, rowVars, TypeOK
<1> HIDE DEF l
<1>6. \A k \in Logs \ {l} : Phase(k)' = Phase(k)
  BY <1>3, <1>4, <1>5, SamePhase DEF SamePlace
<1>7. Phase(l)' = Phase(l) \/ (Phase(l) = "waiting" /\ Phase(l)' = "over")
  BY <1>2, <1>3, <1>4, <1>5 DEF Phase, Sendable, Claimable
<1> QED BY <1>2, <1>3, <1>6, <1>7, QuietStep DEF QuietMoves

\* A send is the gateway's acceptance, heard or not, or its refusal.
LEMMA SendDelivers ==
  ASSUME Kept, Kept', NEW w \in Workers, SendNotification(w)
  PROVE  Delivery!Next \/ UNCHANGED Delivery!vars
<1> USE DEF Kept
<1>1. PICK s \in batch[w] :
        /\ s.phone
        /\ batch' = [batch EXCEPT ![w] = @ \ {s}]
        /\ \/ /\ Accept(s.log)
              /\ call' = [call EXCEPT ![w] =
                   {[log |-> s.log, attempts |-> s.attempts, id |-> sent + 1]}]
              /\ UNCHANGED causes
           \/ /\ AcceptUnheard(s.log) \/ UNCHANGED <<gateVars, causes>>
              /\ call' = [call EXCEPT ![w] =
                   {[log |-> s.log, attempts |-> s.attempts, id |-> NoMsg]}]
  BY DEF SendNotification
<1> DEFINE l == s.log
<1>2. l \in Logs /\ status[l] # "absent"
  BY NamedRows DEF Attribution, BatchesInserted
<1>3. UNCHANGED <<status, hasPhone>> /\ call[w] = {}
  BY DEF SendNotification, rowVars
<1>4. w \in Unsent(l) /\ Phase(l) \in {"inHand", "excused"}
  BY <1>1, <1>2, PhaseByPlace DEF Unsent
<1>5. Unsent(l)' = Unsent(l) \ {w}
  BY <1>1 DEF Unsent, TypeOK, OneSnapshotPerRow
<1>6. \A k \in Logs \ {l} : Unsent(k)' = Unsent(k) /\ Failing(k)' = Failing(k)
  <2>1. ASSUME NEW k \in Logs \ {l} PROVE Unsent(k)' = Unsent(k)
    BY <1>1 DEF Unsent, TypeOK
  <2>2. ASSUME NEW k \in Logs \ {l} PROVE Failing(k)' = Failing(k)
    <3>1. \A c \in call'[w] : c.log = l
      BY <1>1 DEF TypeOK
    <3>2. \A v \in Workers \ {w} : call'[v] = call[v]
      BY <1>1 DEF TypeOK
    <3> QED BY <1>3, <3>1, <3>2 DEF Failing
  <2> QED BY <2>1, <2>2
<1>7. Sendable(l)' = Sendable(l) /\ causes[l] \in Nat /\ deliveries[l] \in Nat
  BY <1>2, <1>3 DEF Sendable, TypeOK
<1>8. causes[l] = 0 => /\ deliveries[l] = 0 /\ Unsent(l) = {w} /\ Failing(l) = {}
                       /\ Sendable(l) = 0
  <2>1. causes[l] = 0 => Sendable(l) # 1 /\ ~(deliveries[l] > 0)
    BY <1>2, <1>4, OnePlace
  <2>2. causes[l] = 0 => Unsent(l) = {w} /\ Failing(l) = {}
    BY <1>2, <1>4, OnePlace
  <2> QED BY <1>7, <2>1, <2>2 DEF Sendable
<1>9. deliveries[l] <= causes[l]
  <2>1. Unsent(l) \in SUBSET Workers /\ Failing(l) \in SUBSET Workers
    BY DEF Unsent, Failing
  <2>2. Cardinality(Unsent(l)) \in Nat /\ Cardinality(Failing(l)) \in Nat
    BY <2>1, WorkerCounts
  <2>3. Cardinality(Unsent(l)) # 0
    BY <1>4, <2>1, OutboxAssumption, FS_Subset, FS_EmptySet
  <2>4. deliveries[l] + Cardinality(Unsent(l)) + Cardinality(Failing(l)) + Sendable(l)
          <= 1 + causes[l]
    BY <1>2 DEF SendBudget, WithinBudget
  <2> QED BY <1>7, <2>2, <2>3, <2>4 DEF Sendable
<1> HIDE DEF l
<1>10. CASE UNCHANGED <<gateVars, causes>>
  <2>1. UNCHANGED <<deliveries, causes>>
    BY <1>10 DEF gateVars
  <2>2. \A k \in Logs \ {l} : Phase(k)' = Phase(k)
    BY <1>3, <1>6, <2>1, SamePhase DEF SamePlace
  <2>3. causes[l] > 0 => Phase(l)' = Phase(l)
    BY <2>1 DEF Phase
  <2>4. causes[l] = 0 => Phase(l) = "inHand" /\ Phase(l)' = "refused"
    <3>1. ASSUME causes[l] = 0 PROVE w \in Failing(l)'
      <4>1. ~Accept(s.log)
        BY <1>2, <1>7, <2>1 DEF Accept, TypeOK, l
      <4>2. call' = [call EXCEPT ![w] =
                {[log |-> s.log, attempts |-> s.attempts, id |-> NoMsg]}]
        BY <1>1, <4>1
      <4> QED BY <4>2 DEF Failing, TypeOK, l
    <3>2. ASSUME causes[l] = 0 PROVE Unsent(l)' = {} /\ deliveries'[l] = 0 /\ causes'[l] = 0
      BY <1>5, <1>8, <2>1, <3>2
    <3> QED BY <1>7, <1>8, <3>1, <3>2 DEF Phase
  <2>5. Phase(l)' = Phase(l) \/ (Phase(l) = "inHand" /\ Phase(l)' = "refused")
    BY <1>7, <2>3, <2>4
  <2> QED BY <1>2, <2>1, <2>2, <2>5, QuietStep DEF QuietMoves
<1>11. CASE Accept(l)
  <2>1. deliveries' = [deliveries EXCEPT ![l] = @ + 1]
    BY <1>11 DEF Accept
  <2>2. UNCHANGED causes \/ causes' = [causes EXCEPT ![l] = @ + 1]
    BY <1>1 DEF AcceptUnheard, l
  <2>3. \A k \in Logs \ {l} : deliveries'[k] = deliveries[k] /\ causes'[k] = causes[k]
    BY <2>1, <2>2 DEF TypeOK
  <2>4. \A k \in Logs \ {l} : Phase(k)' = Phase(k)
    BY <1>3, <1>6, <2>3, SamePhase DEF SamePlace
  <2>5. /\ deliveries'[l] > 0
        /\ causes' = [causes EXCEPT ![l] = @ + 1] => causes'[l] > 0
    BY <1>2, <1>7, <2>1 DEF TypeOK
  <2>6. UNCHANGED causes => Phase(l)' = IF Phase(l) = "excused" THEN "excused" ELSE "told"
    BY <1>7, <2>5 DEF Phase
  <2>7. causes' = [causes EXCEPT ![l] = @ + 1] => Phase(l)' = "excused"
    BY <2>5 DEF Phase
  <2> QED BY <1>2, <1>4, <1>9, <2>1, <2>2, <2>4, <2>6, <2>7, DeliverStep
<1> QED BY <1>1, <1>10, <1>11 DEF AcceptUnheard, l

\* A recorded refusal returns the row to the queue, or it is over.
LEMMA RecordDelivers ==
  ASSUME Kept, Kept', NEW w \in Workers, RecordResult(w)
  PROVE  Delivery!Next \/ UNCHANGED Delivery!vars
<1> USE DEF Kept
<1>1. PICK c \in call[w] :
        \/ c.id # NoMsg /\ MarkSent(c.log, c.id)
        \/ c.id = NoMsg /\ MarkRetry(c.log, c.attempts + 1)
        \/ c.id = NoMsg /\ MarkDead(c.log, c.attempts + 1)
  BY DEF RecordResult
<1> DEFINE l == c.log
<1>2. /\ l \in Logs /\ c.id \in MsgIds \cup {NoMsg}
      /\ Attributed(l, c.id) /\ status[l] # "absent"
  BY NamedRows DEF Attribution, CallsAttributed
<1>3. UNCHANGED <<batch, deliveries, causes>> /\ call' = [call EXCEPT ![w] = {}]
  BY DEF RecordResult, gateVars
<1>4. /\ hasPhone' = hasPhone
      /\ \A k \in Logs \ {l} : status'[k] = status[k]
      /\ status'[l] \in {status[l], "sent", "failed", "dead"}
      /\ c.id # NoMsg => status'[l] \in {status[l], "sent"}
  BY <1>1, <1>2 DEF MarkSent, MarkRetry, MarkDead, rowVars, TypeOK
<1>5. \A d \in call[w] : d = c
  BY DEF OneCall
<1>6. \A k \in Logs : Unsent(k)' = Unsent(k)
  BY <1>3 DEF Unsent
<1>7. \A v \in Workers : call'[v] = IF v = w THEN {} ELSE call[v]
  BY <1>3 DEF TypeOK
<1>8. \A k \in Logs \ {l} : Failing(k)' = Failing(k)
  BY <1>5, <1>7 DEF Failing
<1>9. CASE c.id # NoMsg
  <2>1. Failing(l)' = Failing(l)
    BY <1>5, <1>7, <1>9 DEF Failing
  <2>2. Phase(l) \in {"told", "excused"} /\ deliveries[l] > 0
    BY <1>2, <1>9, AttributedIsTold
  <2>3. Phase(l)' = Phase(l)
    BY <1>3, <2>2 DEF Phase
  <2>4. \A k \in Logs \ {l} : Phase(k)' = Phase(k)
    BY <1>3, <1>4, <1>6, <1>8, SamePhase DEF SamePlace
  <2>5. UNCHANGED <<deliveries, causes>> /\ \A k \in Logs : Phase(k)' = Phase(k)
    BY <1>3, <2>3, <2>4
  <2> QED BY <2>5, StillStep
<1>10. CASE c.id = NoMsg
  <2>1. w \in Failing(l)
    BY <1>10 DEF Failing
  <2>2. \A k \in Logs \ {l} : Phase(k)' = Phase(k)
    BY <1>3, <1>4, <1>6, <1>8, SamePhase DEF SamePlace
  <2>3. Phase(l) \in {"refused", "excused"} /\ (Phase(l) = "excused" <=> causes[l] > 0)
    BY <1>2, <2>1, PhaseByPlace
  <2>4. CASE causes[l] > 0
    <3>1. Phase(l)' = Phase(l)
      BY <1>3, <2>3, <2>4 DEF Phase
    <3>2. UNCHANGED <<deliveries, causes>> /\ \A k \in Logs : Phase(k)' = Phase(k)
      BY <1>3, <2>2, <3>1
    <3> QED BY <3>2, StillStep
  <2>5. CASE ~(causes[l] > 0)
    <3>1. causes[l] = 0
      BY <1>2, <2>5 DEF TypeOK
    <3>2. Unsent(l) = {} /\ ~(deliveries[l] > 0) /\ \A v \in Failing(l) : v = w
      BY <1>2, <2>1, <3>1, OnePlace
    <3>3. w \notin Failing(l)'
      BY <1>7 DEF Failing
    <3>4. \A v \in Failing(l)' : v \in Failing(l)
      BY <1>7 DEF Failing
    <3>5. Failing(l)' = {} /\ Unsent(l)' = {}
      BY <1>2, <1>6, <3>2, <3>3, <3>4
    <3>6. status'[l] # "absent"
      BY <1>2, <1>4
    <3>7. causes'[l] = causes[l] /\ deliveries'[l] = deliveries[l]
      BY <1>3
    <3>8. Phase(l) = "refused" /\ Phase(l)' \in {"waiting", "over"}
      BY <2>3, <2>5, <3>2, <3>5, <3>6, <3>7 DEF Phase
    <3>9. <<Phase(l), Phase(l)'>> \in QuietMoves
      BY <3>8 DEF QuietMoves
    <3>10. UNCHANGED <<deliveries, causes>>
      BY <1>3
    <3> HIDE DEF l
    <3> QED BY <1>2, <2>2, <3>9, <3>10, QuietStep
  <2> QED BY <2>4, <2>5
<1> QED BY <1>9, <1>10

\* What a worker loses in a fault is in nobody's hand afterwards.
LEMMA FaultDelivers ==
  ASSUME Kept, Kept', NEW w \in Workers, EndTick(w) \/ WorkerFault(w)
  PROVE  Delivery!Next \/ UNCHANGED Delivery!vars
<1> USE DEF Kept
<1>1. UNCHANGED <<status, hasPhone, deliveries, causes>>
  BY DEF EndTick, WorkerFault, TickStatementFails, ItemDropped, Crash, rowVars, gateVars
<1>2. /\ batch'[w] \subseteq batch[w] /\ call'[w] \subseteq call[w]
      /\ \A v \in Workers \ {w} : batch'[v] = batch[v] /\ call'[v] = call[v]
      /\ batch'[w] = batch[w] \/ call'[w] = call[w] \/ (batch'[w] = {} /\ call'[w] = {})
  BY DEF EndTick, WorkerFault, TickStatementFails, ItemDropped, Crash, TypeOK
<1>3. ASSUME NEW k \in Logs
      PROVE  \/ Phase(k)' = Phase(k)
             \/ Phase(k) \in {"inHand", "refused"} /\ Phase(k)' = "over"
  <2>1. Unsent(k)' \subseteq Unsent(k) /\ Failing(k)' \subseteq Failing(k)
    BY <1>2 DEF Unsent, Failing
  <2>2. Sendable(k)' = Sendable(k)
    BY <1>1 DEF Sendable
  <2>3. CASE causes[k] > 0
    BY <1>1, <2>3 DEF Phase
  <2>4. CASE ~(causes[k] > 0) /\ Unsent(k)' = Unsent(k) /\ Failing(k)' = Failing(k)
    BY <1>1, <2>4, SamePhase DEF SamePlace
  <2>5. CASE ~(causes[k] > 0) /\ ~(Unsent(k)' = Unsent(k) /\ Failing(k)' = Failing(k))
    <3>1. causes[k] = 0
      BY <2>5 DEF TypeOK
    <3>2. PICK v \in Unsent(k) \cup Failing(k) : v \notin Unsent(k)' \/ v \notin Failing(k)'
      BY <2>1, <2>5
    <3>3. Unsent(k) # {} \/ Failing(k) # {}
      BY <3>2
    <3>4. ~(deliveries[k] > 0) /\ Sendable(k) # 1
      BY <3>1, <3>3, OnePlace
    <3>5. Unsent(k)' = {} /\ Failing(k)' = {}
      <4>1. \A u \in Unsent(k) \cup Failing(k) : u = v
        BY <3>1, OnePlace
      <4>2. Unsent(k) = {} \/ Failing(k) = {}
        BY <3>1, OnePlace
      <4> QED BY <2>1, <2>5, <4>1, <4>2
    <3>6. Phase(k) \in {"inHand", "refused"} /\ status[k] # "absent"
      <4>1. /\ Phase(k) \in {"inHand", "refused", "excused"}
            /\ Phase(k) = "excused" <=> causes[k] > 0
        BY <3>3, PhaseByPlace
      <4>2. Phase(k) \in {"inHand", "refused"}
        BY <2>5, <4>1
      <4> QED BY <4>2, PhaseByPlace
    <3>7. Phase(k)' = "over"
      BY <1>1, <2>2, <2>5, <3>4, <3>5, <3>6 DEF Phase
    <3> QED BY <3>6, <3>7
  <2> QED BY <2>3, <2>4, <2>5
<1>4. UNCHANGED <<deliveries, causes>>
  BY <1>1
<1> QED BY <1>3, <1>4, DropStep

\* Only an applied message.failed changes how far a notification has come.
LEMMA HookDelivers ==
  ASSUME Kept, Kept', NEW h \in Hooks, HookStep(h)
  PROVE  Delivery!Next \/ UNCHANGED Delivery!vars
<1> USE DEF Kept
<1>1. UNCHANGED <<batch, call, hasPhone, msgId, deliveries>>
  BY DEF HookStep, ReceiveEvent, UpdateStatusGuarded, HookFails, workVars, rowVars, gateVars
<1>2. \A k \in Logs : Unsent(k)' = Unsent(k) /\ Failing(k)' = Failing(k)
  BY <1>1 DEF Unsent, Failing
<1>3. CASE UNCHANGED <<status, causes>>
  <2>1. \A k \in Logs : Phase(k)' = Phase(k)
    BY <1>1, <1>2, <1>3, SamePhase DEF SamePlace
  <2>2. UNCHANGED <<deliveries, causes>>
    BY <1>1, <1>3
  <2> QED BY <2>1, <2>2, StillStep
<1>4. CASE ~UNCHANGED <<status, causes>>
  <2>1. UpdateStatusGuarded(h)
    BY <1>4 DEF HookStep, ReceiveEvent, HookFails, rowVars
  <2>2. PICK u \in hook[h] :
          /\ status[u.log] = u.seen
          /\ status' = [status EXCEPT ![u.log] = u.next]
          /\ causes' = IF u.next = "failed" THEN [causes EXCEPT ![u.log] = @ + 1] ELSE causes
    BY <1>4, <2>1 DEF UpdateStatusGuarded
  <2> DEFINE l == u.log
  <2>3. l \in Logs /\ u.seen \in RowStatus /\ u.next \in {"sent", "failed"}
    BY NamedRows
  <2>4. msgId[l] # NoMsg /\ msgId[l] \in MsgIds \cup {NoMsg} /\ Attributed(l, msgId[l])
    BY <2>2, <2>3 DEF Attribution, HooksTraced, RowsAttributed, Exists, TypeOK
  <2>5. Phase(l) \in {"told", "excused"} /\ deliveries[l] > 0
    BY <2>3, <2>4, AttributedIsTold
  <2>6. \A k \in Logs \ {l} : status'[k] = status[k] /\ causes'[k] = causes[k]
    BY <2>2, <2>3 DEF TypeOK
  <2>7. \A k \in Logs \ {l} : Phase(k)' = Phase(k)
    BY <1>1, <1>2, <2>6, SamePhase DEF SamePlace
  <2>8. CASE u.next = "sent"
    <3>1. causes' = causes
      BY <2>2, <2>8
    <3>2. Phase(l)' = Phase(l)
      BY <1>1, <2>5, <3>1 DEF Phase
    <3>3. UNCHANGED <<deliveries, causes>> /\ \A k \in Logs : Phase(k)' = Phase(k)
      BY <1>1, <2>7, <3>1, <3>2
    <3> QED BY <3>3, StillStep
  <2>9. CASE u.next = "failed"
    <3>1. causes' = [causes EXCEPT ![l] = @ + 1]
      BY <2>2, <2>9
    <3> HIDE DEF l
    <3>2. causes' = [k \in Logs |-> IF k \in {l} THEN causes[k] + 1 ELSE causes[k]]
      BY <2>3, <3>1 DEF TypeOK
    <3>3. causes'[l] > 0
      BY <2>3, <3>1 DEF TypeOK
    <3>4. Phase(l)' = "excused"
      BY <3>3 DEF Phase
    <3>5. \A k \in Logs : Phase(k)' = IF k \in {l} THEN "excused" ELSE Phase(k)
      BY <2>7, <3>4
    <3>6. \A k \in {l} : Phase(k) \in {"inHand", "refused", "over", "told", "excused"}
      BY <2>5
    <3>7. {l} \in SUBSET Logs /\ UNCHANGED deliveries
      BY <1>1, <2>3
    <3> QED BY <3>2, <3>5, <3>6, <3>7, ReopenStep
  <2> QED BY <2>3, <2>8, <2>9
<1> QED BY <1>3, <1>4

\* Time changes no place.
LEMMA ClockDelivers ==
  ASSUME Kept, Kept', NEW l \in Logs, Clock(l)
  PROVE  Delivery!Next \/ UNCHANGED Delivery!vars
<1>1. UNCHANGED <<status, hasPhone, batch, call, deliveries, causes>>
  BY DEF Clock, BecomesDue, LockAges, workVars, gateVars
<1>2. \A k \in Logs : Unsent(k)' = Unsent(k) /\ Failing(k)' = Failing(k)
  BY <1>1 DEF Unsent, Failing
<1>3. \A k \in Logs : Phase(k)' = Phase(k)
  BY <1>1, <1>2, SamePhase DEF SamePlace
<1>4. UNCHANGED <<deliveries, causes>>
  BY <1>1
<1> QED BY <1>3, <1>4, StillStep

\* The outbox implements the rules of one delivery per notification: whatever the
\* workers, webhooks, producers, faults and the clock do, a notification goes through
\* its phases as the rules have it and is told again only with an excuse.
THEOREM DeliveryImplemented == Spec => ImplementsDelivery
<1>1. Init => Delivery!Init
  <2> SUFFICES ASSUME Init PROVE Delivery!Init
    OBVIOUS
  <2>1. ASSUME NEW k \in Logs PROVE Phase(k) = "new"
    <3>1. Unsent(k) = {} /\ Failing(k) = {} /\ Sendable(k) = 0 /\ status[k] = "absent"
      BY DEF Init, Unsent, Failing, Sendable, Claimable
    <3> QED BY <3>1 DEF Init, Phase
  <2> QED BY <2>1 DEF Init, Delivery!Init
<1>2. Kept /\ Kept' /\ [Next]_vars => [Delivery!Next]_(Delivery!vars)
  <2> SUFFICES ASSUME Kept, Kept', [Next]_vars
               PROVE  Delivery!Next \/ UNCHANGED Delivery!vars
    OBVIOUS
  <2>1. CASE UNCHANGED vars
    <3>1. UNCHANGED <<status, hasPhone, batch, call, deliveries, causes>>
      BY <2>1 DEF vars, rowVars, workVars, gateVars
    <3>2. \A k \in Logs : Unsent(k)' = Unsent(k) /\ Failing(k)' = Failing(k)
      BY <3>1 DEF Unsent, Failing
    <3>3. \A k \in Logs : Phase(k)' = Phase(k)
      BY <3>1, <3>2, SamePhase DEF SamePlace
    <3> QED BY <3>1, <3>3, StillStep
  <2> QED
    BY <2>1, DispatchDelivers, BulkSendDelivers, DeleteDelivers, BulkRecordDelivers,
       RequeueDelivers, ClaimDelivers, SkipDelivers, SendDelivers, RecordDelivers,
       FaultDelivers, HookDelivers, ClockDelivers
       DEF Next, Produce, WorkerStep
<1>3. Spec => []Kept
  BY TypeCorrect, AttributionKept, BudgetKept, RowsClaimedOnce, HandsKept, OwnersAreTold, PTL
     DEF Kept
<1> QED BY <1>1, <1>2, <1>3, PTL DEF Spec, ImplementsDelivery, Delivery!Spec
=============================================================================
