# letpai-backend: specifications, model checks and proofs

Letpai is a bill-splitting backend in Go: hosts create sessions, add participants and bill
items, send each participant a WhatsApp message with the amount owed, and approve or reject
the payment proofs that come back. This directory holds TLA+ specifications of its logic, the
TLC configurations that check them on small instances, and proofs, checked by TLAPS, of the
results that hold for every instance.

## 1. The system

HTTP handlers (Fiber) call one use case each; use cases load entities through repository
ports, change them and store them back (Postgres; Redis for login codes; object storage for
images). Every server process also runs one `NotificationWorker` goroutine. There is almost no
in-process shared memory: the processes, requests and workers meet in the database, so **what
interleaves is SQL statements**, and most hazards come from what is read in one statement and
relied on in a later one. Two habits of the code shape nearly every module below:

* repositories store **whole rows by id** (`UPDATE ... SET every column WHERE id = $1`), so a
  request writes back all it read, over whatever the table holds by then;
* an error of a secondary step (recalculation, completion, logging, removing a file) is
  **dropped**, and the request answers with success.

| Component | State | Operations | What is hard | What makes it correct | Module |
|---|---|---|---|---|---|
| Notification outbox (`notification_logs`) and worker (`internal/service/notification_worker.go`, `internal/repository/notification_log_postgres.go`) | rows with status, attempts, lock, phone, gateway message id; a worker's claimed batch | enqueue, claim (`SKIP LOCKED`), send, mark sent / retry / dead, requeue stuck rows | several workers, crashes between send and record, lost answers, locks that expire under a live worker | no unexplained duplicate, every row settled in the end, no row lost in `sending` | NotificationOutbox |
| Gateway webhook (`internal/handler/webhook_handler.go`) | none of its own | look up the row, decide, compare-and-swap | replayed, reordered and early events; the row changes between read and swap | an event never lands on a foreign row | NotificationOutbox |
| Bulk rejection (`internal/usecase/payment/bulk_reject.go`) | - | reject, send directly, insert the row afterwards | the row it inserts is claimable | the worker does not repeat what was sent | NotificationOutbox, PaymentLifecycle |
| Payments (`internal/usecase/payment`) | participant's status, proof, manual mark | submit, approve, reject, bulk forms, mark paid by hand | whole rows stored from old reads; only submit is guarded | a row never mixes two decisions; approvals complete the session | PaymentLifecycle, PaymentRules |
| Sessions (`internal/usecase/session`) | status, totals, fees, bank columns, stamps | create, update, cancel, complete when all paid | the same row has many writers | a completed session has nobody left to pay | one module per group of columns |
| Participants (`internal/usecase/participant`) | membership of a session | add, import, update, remove | concurrent with payment, completion and recalculation | shares and bills belong to members | PaymentLifecycle, SessionBilling, Contacts |
| Billing (`internal/usecase/billing`) | bill items, sharers, shares, session total | add, update, delete a bill, set fees, calculate | rounding; a total kept by additions and by sums | amounts add up; the total covers the bills | SplitRules, SessionBilling |
| Sending and reminding (`internal/usecase/notification`, `internal/service/rate_limit.go`) | last-notified time, limiter token | send to all, remind, bulk remind, retry | the limiter is asked before the use case; changes while a batch runs | a closed gate means everybody was told; one reminder per token | NotifyGate |
| Users (`internal/usecase/auth`, `internal/repository/otp_redis.go`) | user rows; a code per number and an index by id | register, verify, log in, forgotten password, profile | reading, marking and replacing a code are separate commands | a used code is gone; a token means a proved number | AccountAccess |
| Admins (`internal/usecase/admin`) | rows with role, active flag, password | setup, sign in, create, edit, delete | the last-super-admin rule is a count read before a write | an active super admin remains; setup happens once | AdminRoster |
| Contacts and groups (`internal/usecase/contact`, `contactgroup`) | per-user lists, soft deletes | create, edit, import, move, join a session | look-ups before INSERT; deleted rows count for UNIQUE | edits are kept; nobody joins twice | Contacts |
| Bank accounts and bill images | a table and the session's columns; a table and object storage | replace the list, edit; upload, number, delete | two places, stored one after the other | pages show accounts in force; listed images have files | SessionAssets |
| Templates, dashboard, id resolution, JWT, HTTP layer | texts | edit, render, query, parse | - | - | section 12 |

`PROJECT.json` lists the same components with their status, and under `hazards` the places in
the code where each difficulty bites and the properties that would catch it.

### How the modules are built

Each module has the tables it concerns as functions, and `req[r]`, what an HTTP request holds
between two statements: `pc` names the statement it runs next, the other fields what it has
read. A request reads and decides in one action and stores in another, in the code's order;
the handlers' ownership checks read what never changes and belong to the first read. A request
that is refused changes nothing and is no action. `Fail` (or `Fault`) is a failed statement or
the death of the process at any step.

History variables record that a request was overtaken: `outdated` holds the requests during
which another one changed a row, `overlapped` (or `lost`) says that such a request has stored
something. What the code can lose that way it does lose, and these modules do not deny it; the
properties say that **nothing else** is lost. `MaxServed` bounds the requests of a behaviour.

No module has fairness except the outbox: hosts and participants may never come back, and
nothing but the worker runs by itself. The runs of the request modules therefore say
`CHECK_DEADLOCK FALSE`: after `MaxServed` requests the system stops.

## 2. Plan

Done: **DeliveryRules** (abstract) and **NotificationOutbox**, which implements it;
**PaymentRules** (abstract) and **PaymentLifecycle**, which implements it; **SplitRules** and **SessionBilling**; **NotifyGate**; **AccountAccess**;
**AdminRoster**; **Contacts**; **SessionAssets**.

Each has a proof module; every invariant and action property a run checks is a theorem (section
11).

A candidate for later: an abstract specification of what a host's notify and remind requests
promise over NotifyGate, in the manner of DeliveryRules.

## 3. NotificationOutbox and DeliveryRules

### State

| Variable | Code |
|---|---|
| `status`, `attempts`, `msgId`, `hasPhone` | columns of `notification_logs`; `"absent"` before the INSERT, `"gone"` after the cascade delete |
| `due` | the comparison `next_attempt_at <= CURRENT_TIMESTAMP`, the only use of the column |
| `lock` | `locked_at`: NULL, younger than `stuckAfter`, or older. `locked_by` is never read |
| `pc`, `batch`, `call` | where `tick` is; the claimed rows it has not sent; the send result it has not recorded |
| `bulk` | a `BulkReject` request between its gateway call and its INSERT |
| `hook` | a webhook request between its SELECT and its compare-and-swap |
| `owner`, `sent` | the gateway's own knowledge of the ids it handed out |
| `deliveries`, `causes` | history, read by properties and bounds only |

### Actions

Each is one SQL statement or one gateway call, in the code's order. `RequeueStuck`,
`ClaimPending`, then per row `SkipPhoneless`, or `SendNotification` followed by `RecordResult`
(`MarkSent`, `MarkRetry`, `MarkDead`), then `EndTick`, are a worker; a worker records from the
snapshot it claimed, as the code does. `ReceiveEvent` and `UpdateStatusGuarded` are a webhook
request. `Dispatch` is the enqueue all use cases share; `BulkSend` and `BulkRecord` are the one
producer that bypasses it. `CascadeDelete` is the removal of a participant. `BecomesDue` and
`LockAges` are time.

Faults are explicit: a statement of the tick fails, a Mark statement fails or a send panics
(`ItemDropped`; the code drops the error in both cases), the process dies or is shut down with
the rest of its batch (`Crash`), a webhook's update fails, an INSERT of `BulkReject` fails. The
gateway may accept a message although the caller sees an error.

### Properties

| Property | What it says |
|---|---|
| `SendingIsLocked` | a row in `sending` has a lock the reaper can age: it cannot be lost there |
| `SendBudget`, and `DuplicatesExplained`, which it implies | every delivery of a row beyond the first is paid for by a cause: a lost answer, a failed record, a lock that expired under a live worker, a failure the gateway reported |
| `Attribution` | message ids in flight stay with the row they were sent for; an event never lands on another |
| `SentNeverReopened` | no worker reopens a sent row; only a reported failure does |
| `UntracedDeadIsFinal` | a dead row no message id was stored for is never claimed again |
| `ImplementsDelivery` | the outbox implements `DeliveryRules` |
| `EventuallySettled` | a pending row is sent, dead or gone in the end |

`DeliveryRules` is the promise made for one notification, without workers, batches, locks,
attempts or ids. Its `phase` is `new`, `waiting`, `inHand` (of one worker), `refused` (by the
gateway, not recorded yet), `told` or `over`, and `excused` from the first cause of a repetition
on; `received` counts what the gateway accepted. Nothing that is told or over is delivered, and
what is excused is delivered no more often than it was excused and once besides. `Phase(l)`
reads the phase from the counters, the workers' hands and the row, in that order: a row that is
deleted while a worker holds it stays `inHand`, as that worker will still send it.
`received` is `deliveries` and `excuses` is `causes`. The mapping makes no use of `status`
`sent` or `dead`, so it also says which rows those statuses may not mislead: the `queued` row of
`BulkReject` is `told` and stays so.

### What the code does, worth knowing

* An event may arrive **before** `MarkSent` has stored the id. The lookup finds nothing, the
  handler answers 200, the gateway does not repeat the event, and the row stays `sent` although
  delivery failed. A failed lookup is answered in the same way. The model drops such an event
  without an action.
* `dead` ranks below `sent` in `rank`: a dead row that has a message id follows
  `message.sent`, then `message.failed`, to `failed`, which the claim picks up again, with no
  attempt counted. `UntracedDeadIsFinal` is what remains of "never claimed again".
* The row `BulkReject` inserts after its own send has no phone and a claimable status; the
  worker marks it dead although its message was delivered.
* `MarkRetry` and `MarkDead` store the claimed count plus one by id alone: a worker that
  outlived its lock sets the count back.

### Environment and bounds

The gateway is external. It is assumed to hand out distinct ids, and to report any event of any
id it has handed out, in any order and any number of times. The order of rows in a batch is left
open. Clock skew between the processes and the database is not modelled.

`MaxSends`, `MaxCauses` and `MaxFaults` bound the guards of `Accept`, `ReceiveEvent`/`LockAges`
and `Fault`. `MaxCauses` limits new failure reports and the expiry of a lock *under a live
worker*; a lock left by a dead worker always expires. `MaxAttempts` is 2 (5 in the migration):
first and last attempt both occur. One row suffices for the per-row properties because no
statement relates two rows except the batch limit and the unique message id, which
`outbox_batch` checks with two. Workers, webhook requests and rows are interchangeable
(`Symmetry`), used for safety runs only.

### Fairness

`Fairness` is weak fairness of every worker's next step (`WorkerStep`: the ticker fires
every 5 s, a gateway call ends after `sendTimeout` at the latest) and of time passing for
each row. Users, webhooks and faults get none, and a fault is never required to stop happening
except by `MaxFaults`.

## 4. PaymentLifecycle and PaymentRules

One session. `row[p]` is the participant's row in `session_participants` (status, proof,
`paid_manually`; a status of `absent` or `removed` stands for no row), `session` the status
column of `sessions`.

| `req[r].pc` | The request |
|---|---|
| `idle` | has not started, or has answered |
| `write` | has read the row `seen` of `who`, and will store it whole after method `op`; `owes`: this bulk approval has approved somebody already |
| `submit` | has passed the pending check and uploaded `proof` |
| `complete` | has stored an approval and will run `CompleteIfAllPaid` (or the next turn of the bulk loop) |
| `save` | has read the session (`seen`) and will store it whole with `status`, then stop or recalculate |
| `add`, `import`, `remove`, `rename` | has passed its checks on the session |
| `splits` | will run `CalculateSplits` at the end of another use case |

`ParticipantUpdate` and `SessionUpdate` are the repositories' `Update`, which write every column
by id alone, `MarkSubmittedWithProof` and `CompleteIfAllPaid` the two UPDATEs guarded in SQL,
`Create` and `Delete` the INSERT and DELETE. `Decided` is the entity method. A bulk approval is a
request that goes back from `complete` for another participant; a bulk rejection is a sequence
of `RejectRead` and `ParticipantUpdate`. `UpdateSession` also stands for `UpdateFeeConfig` and
`AddBillItem` (active sessions only), `UpdateBillItem` for `ReplaceBankAccounts` (any session).
`rowsLost` and `sessionLost` are the history of lost updates.

| Property | What it says |
|---|---|
| `EvidenceConsistent` | in each row and snapshot the status, the proof and the manual mark agree |
| `OneProofAccepted` | two simultaneous submits: one wins, and nobody is asked twice |
| `ApprovalsComplete` | when all are paid by approval, some request is still going to complete the session |
| `CompletedMeansPaid` | a completed session has nobody left to pay, except late joiners |
| `RulesUntilLostUpdate` | up to the first lost update, every step is a step of `PaymentRules` |
| `ImplementsRules` | requests served one at a time implement `PaymentRules` |

`ApprovalsComplete` lists the ways the code leaves a fully paid session active: a payment marked
by hand, a removal, a fault after the approval, a lost update.

What the code does, worth knowing: `paid`, `completed` and `cancelled` are documented as final,
and a reminder or an edit that read the row before stores the older status over them. A rejected
participant is invited to upload a clearer proof and resubmit (`reject_payment.go`), and
`SubmitPayment` accepts pending participants only, so nothing but another decision of the host
gets them on. `AddParticipants` checks that the session is active, the import of a group does not.

Bounds: two requests suffice for a lost update, two participants for a completion that depends
on somebody else, two images for two submits; `MaxFaults` is 1. Participants, requests and images
are interchangeable.

## 5. SplitRules and SessionBilling

`SplitRules` is the arithmetic, as operators: who shares a bill (`Sharers`: the named ones who
are present, else everyone), the share in whole units with the remainder for the last
(`ShareOf`), the rounded charge on a participant's part (`ChargeOn`), what a participant owes
(`Owed`), and the breakdown the payment page works out for itself (`PageShare`, `PageTotal`).
Amounts are integers, percentages hundredths of a percent. The participants a bill names are
read back by a query without an order, so any of them may be the last (`LastSharers`).

`SessionBilling` is one session under concurrent requests:

| Variable | Code |
|---|---|
| `session` | `sessions`: whether it is active, `total_amount`, the two percentages |
| `order`, `gone` | the participants by joining time; those removed |
| `share` | `share_amount` |
| `bill` | `bill_items` with the rows of `bill_item_participants` |
| `req` | a bill to insert, update or delete; the amounts to sum; the three reads of `CalculateSplits`; shares and row to store |

A request that adds a bill reads the session (`AddBillItem`), inserts the bill (`Create`), and
stores the row it read with the amount added (`SessionUpdate`). A changed or deleted bill is
followed by `FindBySessionID`, which sums the bills there are. `CalculateSplits` is four
statements: session, participants (`ReadParticipants`), bills and arithmetic (`ReadBills`),
shares (`BulkUpdateShareAmounts`), and with fees the session row. `ParticipantRead` and
`ParticipantUpdate` are the payment operations, which carry the share amount along.

| Property | What it says |
|---|---|
| `SettledAmounts` | a calculation nothing overlapped and nothing followed leaves shares that add up to the total (with fees) or to the bills (without): rounding loses no unit |
| `PageNeverAboveShare` | in that state the page's own breakdown never shows more than is recorded as owed |
| `TotalCoversBills` | at rest the total covers the bills, whatever the fees did, unless an outdated row was stored or a request was cut short |
| `ScopesPresent` | no bill names a participant who has left |

What the code does, worth knowing: two bills added together count once in the total; setting
fees back to zero leaves the charges in the total until a bill is changed; a bill whose named
participants have all left becomes everyone's.

Bounds: two bills (one for everyone, not divisible by two; one naming a participant), two
participants, fees of none or 10 % and 5 %, two requests at a time, five in all, one fault.

## 6. NotifyGate

One session's batches, reminders and retries. Time is a counter that every stamp moves.

| Variable | Code |
|---|---|
| `updated`, `notified` | `updated_at` (bumped by the triggers of migration 21 and by every edit) and `last_notified_at` of the session |
| `status`, `latest` | each participant's payment status; the type of the latest notification |
| `token` | participants whose limiter (`CheckReminderRateLimit`, one in 24 hours) still grants one |
| `req` | a batch between its counts, its list, its inserts and its mark; a reminder after the middleware; a bulk reminder's turn; a retry |
| `changed`, `informed`, `missed`, `reminded`, `granted`, `reverted` | history |

`Send` reads the session, `Count` runs three times (one query per status, in the code's order),
`List` applies `IsDirtyForNotify` and reads the participants, `Batch` enqueues one at a time and
passes over one whose INSERT fails, `MarkNotified` closes the gate. `SendReminder` is the
middleware, which takes the token first; `FindByID`, `Dispatch` and `BumpNotificationCount`
follow. `BulkReminder` only looks at the limiter (`GetReminderStatus`) and takes no token, for
`RecordReminder` does nothing. `Retry` sends the latest type again, a reminder through the
limiter. `Touch` is the triggers; `Pay`, `EditBill`, `EditSession`, `AddParticipant` and
`RemoveParticipant` are what other modules do to the rows read here.

| Property | What it says |
|---|---|
| `GateClosedMeansTold` | while the gate is closed to the host, everybody who owes was sent what is current, unless the last batch passed the participant over or a change fell between its reads and its mark |
| `ReminderQuota` | reminders and retries share one token; nobody gets two for it unless the limiter failed |
| `CountsMissNobody` | participants who move on between the three counts are not missed by all of them |

What the code does, worth knowing: `last_notified_at` is the time of the mark, not of the reads,
so a change in between closes the gate unseen; two batches sent together both pass it; bulk
reminders are not limited by the rule of one reminder in 24 hours; the middleware spends the
token before the use case may refuse, where a comment in `send_reminder.go` says a failed
enqueue costs nothing; a reminder stores the participant's whole row, which bumps `updated_at`
and may put an older status back.

Assumed: the database and the server read the same clock and time zone; a token comes back only
when no request that was granted the last one is left; renamed contacts and users and edited
templates do not count as changes, as no trigger sees them.

Bounds: two participants, two requests at a time, five in all.

## 7. AccountAccess

Users, their codes and tokens.

| Variable | Code |
|---|---|
| `user` | row of `users`: exists, `is_verified`, profile |
| `otp`, `index` | the Redis entries `otp:user:<phone>` and `otpidx:<id>`; a code is known by its id |
| `token` | users whose tokens circulate |
| `req` | a registration before its INSERT, the invalidation or the creation of a code, a code that was matched and is being marked and deleted, a row that was read to be stored |

`Register`, `ForgotPassword` and `InitiateLogin` (an admin's) lead to `InvalidatePreviousOTPs`
and `Create`, which writes both entries in one transaction. `VerifyOTP` leads to
`FindValidByPhone` (an admin's `FindByID` first), then `MarkAsUsed`, which looks the id up, and
`Delete`, which removes the number's entry whichever code it holds by then; a user's request goes
on to `Load` and `Update`. `Expire` and `TokenExpires` are time. An error of the invalidation is
dropped for users and answered for admins.

| Property | What it says |
|---|---|
| `TokensProved` | a token's holder is verified for as long as it lasts; a user is verified only once a code sent to the number was given back |
| `UsedCodesGone` | a used code is in the cache no more: the two entries never disagree so that marking misses it |
| `LastCodeStands` | the last code of a number stands until used, replaced or expired; only a late marking of an older one takes it away |
| `ProfilesKept` | profile edits survive later verifications, unless they overlap |

What the code does, worth knowing: `ForgotPassword` sends a code, and verifying it only verifies
the number again: no route changes a user's password. Deletion of users is called by nothing.
Two requests that have both read a code are both let in by it.

Bounds: two numbers, one of them an admin's too, three codes, two requests at a time, six in all.

## 8. AdminRoster

| Variable | Code |
|---|---|
| `admin` | rows of `admins`: state (soft delete), number, hash, role, active |
| `token` | admin and the role the token carries; the role is not looked up again |
| `req` | a claim of the setup, a row to create, a count of super admins to come, a row to store or delete |

`Bootstrap` is the first check of the wizard or of the `bootstrap-admin` command;
`UpsertBootstrapSuperAdmin` is the serializable transaction that checks again and claims.
`VerifyOTP`, `Login`, `Logout`, `UpdateProfile`, `SetupPassword` read a row that `Update` stores;
`UpdateAdmin` and `DeleteAdmin` may have to pass `CountActiveSuperAdmins` first. `Update` never
writes the role: its SQL leaves the column out.

| Property | What it says |
|---|---|
| `SuperAdminRemains` | an active super admin remains, unless a request stored or deleted a row after another had changed the table |
| `SetupOnce` | one setup goes through, however many pass the first check |
| `PasswordsKept` | every admin has the password last given to that admin |
| `LastSuperAdminStays` | the documented rule without the exception: `admin_lockout` shows it violated |

What the code does, worth knowing: an admin without a password counts as a placeholder, so a
super admin who signs in by code only may be taken over by a setup; two placeholders make the
setup fail; numbers of deleted admins stay taken; signing in by code does not look at the active
flag; a demotion is answered with success and stores nothing.

Bounds: three admins and numbers (one of each seeded), two passwords, two requests at a time,
five in all; two admins and six requests for the violation.

## 9. Contacts

One user's contacts and groups, and one session they join.

| Variable | Code |
|---|---|
| `contact` | row: state (soft delete), name, number, group |
| `group` | row: state, name |
| `participant` | row: the contact it was copied from, and the number it had then |
| `req` | an edit between its read and its checks and its store; the numbers of an import that are still to be looked up and those kept; ids to move; contacts to join |

An edit reads the contact (`UpdateContact`), passes `FindGroup` and `ExistsByWhatsApp` where it
asks for them, and stores every column (`Update`). An import looks each number up (`Scan`) and
inserts all it keeps in one statement (`BulkCreate`). `Fits` is the table's UNIQUE, which counts
deleted rows. `Join` copies contacts one by one; `Pages` is the query with its limit.

| Property | What it says |
|---|---|
| `EditsKept` | no answered edit or bulk move is lost, unless a request stores a contact another one changed since it was read |
| `CheckedNumbersFit` | a number that passed its look-up can be stored, unless another contact took it meanwhile or a deleted one holds it |
| `OnePerContact` | nobody is in a session twice, unless the contact's number was changed in between |

What the code does, worth knowing: adding a deleted number again passes the look-up and fails in
the INSERT with an internal error; an import never checks its group; contacts keep the id of a
deleted group; the import of a group into a session is wired but no route calls it, and its limit
of 10000 ("get all") is reset to 20.

Assumed: the session is active (PaymentLifecycle has its closing). A list of participants is
modelled as one request per contact. Bounds: two contacts, one group, two numbers, names and
participants, two requests at a time, five in all; a page of one contact, so that a group is
larger than a page.

## 10. SessionAssets

| Variable | Code |
|---|---|
| `accounts`, `legacy` | live rows of `session_bank_accounts`; the three bank columns of `sessions` |
| `image`, `place`, `stored` | rows of `bill_images`, their ordinals, and the objects in storage |
| `req` | a replacement between its soft delete, its inserts and its mirror; a form or an edit that will store the columns it read; a page between its two reads; an image uploaded, numbered, removed |
| `current`, `may`, `prior` | history: the lists a page opened now may show, those a request being served may show or leave, and the images there when one got its place |

`SoftDelete` and `BulkReplace` are one transaction: nobody sees the first before the second, but a
replacement that commits in between makes the INSERTs meet its ordinals (`Blocked`), or, for an
empty list, leaves its rows in place (`Left`). `MirrorUpdate` copies one account into the columns
and clears them otherwise. `FindByID` and `FindBySessionID` are a page: the columns count only
when the table is empty (`Shown`). `UploadBillImage` stores the object first, `Create` enters it;
`Delete` marks the row first, `DeleteWithPrefix` removes the object.

| Property | What it says |
|---|---|
| `PageShowsAccounts` | a page whose reads succeed shows a list that was in force while it was read |
| `ImagesInPlace` | a listed image has its file, whatever failed, and comes after those listed when it got its place |

What the code does, worth knowing: an outdated edit of the session puts an old account back into
the columns; the host's form with an account in it changes no page while the table has rows; the
comment that reads will be correct after a failed mirror does not hold for an empty list, which
leaves the old columns showing; a second read that fails is treated as an empty table; a failed
INSERT or removal leaves an object nobody lists.

Left out: the order within a list and the limit of five, forms that give some of the three
columns, signed URLs and resizing. Bounds: two accounts, three images, two requests at a time,
five in all.

## 11. Runs and proofs

| Run | Instance | Shows |
|---|---|---|
| `outbox_safety` | 1 row, 2 workers, 2 webhook requests, 2 faults, 2 causes | `SendingIsLocked`, `SendBudget`, `SentNeverReopened`, `UntracedDeadIsFinal` |
| `outbox_batch` | 2 rows, 2 workers, batches of 2, 1 webhook request, 1 fault | `Attribution`, `ImplementsDelivery` |
| `outbox_progress` | 1 row, 2 workers, 1 webhook request, 2 faults, 2 causes, `FairSpec` | `EventuallySettled` |
| `payments_safety` | 2 participants, 2 requests, 2 images, 1 fault | the invariants of section 4 and `RulesUntilLostUpdate` |
| `payments_serial` | the same with 1 request | `ImplementsRules` |
| `billing` | section 5 | its four properties |
| `notify` | section 6 | its three properties |
| `auth` | section 7 | its four properties |
| `admin` | section 8 | `SuperAdminRemains`, `SetupOnce`, `PasswordsKept` |
| `admin_lockout` | 2 admins, 6 requests | finds `LastSuperAdminStays` violated: two super admins each count two and remove the other |
| `contacts` | section 9 | its three properties |
| `assets` | section 10 | its two properties |

Two requests at a time suffice for the hazards here: each is a read of one request and a store of
another in between. Five or six requests in all leave room for the rows to be set up first.

### Proofs

Each theorem holds for every value of the constants that the module's assumption allows.

`NotificationOutboxProofs`, from `OutboxAssumption` (finitely many
workers, bounds that are numbers):

* `TypeCorrect` and `SendingLocked` are inductive with the types alone.
* `MessageAttribution` (a stored id was accepted for its row) needs `Attribution`, which
  `AttributionKept` proves: an id first lives in a worker's `call` or a `BulkReject` request, so
  the invariant follows it there, and it says that nothing in flight names a row never inserted.
* `SentStaysSent` and `UntracedDeadStaysDead` rest on `StatusMoves`: what a step may do to one
  row's status, and which worker's snapshot or webhook it needs for that. `Attribution` rules out
  an event of a row that has no id, and an INSERT over a row that is there.
* `BudgetKept` is the main result. Each row has a budget of one, raised by each counted cause; it
  is spent by deliveries, by workers that hold the unsent row, by workers about to record an
  error for it (recording makes it claimable again) and by the row being claimable. Every action
  moves at most what it takes: a claim turns a claimable row into a held one, a send turns a held
  one into a delivery or into an error to record, a record turns that into a claimable row. One
  lemma per group of actions shows this with cardinalities of sets of workers. It needs
  `OneSnapshotPerRow` (a batch never lists a row twice) and `Attribution` (a row being inserted is
  in no worker's hand). `NoUnexplainedDuplicate` follows.
* `DeliveryImplemented` is the refinement of `DeliveryRules`. While a row has no cause, its budget
  of one says that it is in one place only (`OnePlace`), which makes its phase readable from any
  one of them (`PhaseByPlace`). Each action then has one lemma that says which phases it moves and
  that it leaves all other rows' where they are (`SamePhase`). Two more invariants are needed: a
  worker comes to a claim with nothing in hand and has one send result at a time (`HandsKept`), so
  neither a claim nor a record loses another row; and an id that was handed out means a delivery
  (`OwnersAreTold`), so recording a success, or applying an event, moves nothing that was not told.

`PaymentLifecycleProofs`, from `PaymentAssumption` (the marker for no
proof is not an image, the bound on faults is a number):

* `TypeCorrect` needs that an image in a request's hand has been uploaded (`RequestsOK`).
* `SnapshotsJustified` is the strengthening behind the rest: what a request is about to store
  follows from what it read. `ParticipantUpdate` checks nothing, so without it no fact about
  rows survives that action.
* `EvidenceKept` carries `Consistent` through the requests: a row is consistent when it is read,
  a decision keeps it so, and accepted images only accumulate, so storing it later, over whatever
  the table holds by then, stores a consistent row.
* `LostUpdateIsTheOnlyWayOut` maps each action to a step of `PaymentRules` or a stutter; where the
  stored snapshot equals the row, the justification of the snapshot is the guard of the rule.
* `SerialRequestsImplementRules` adds that a single request's snapshot is always current
  (`Fresh`), and concludes the refinement.
* `CompletedIsPaid` is inductive with the types and `Justified`.
* `OneProofWins` needs that nothing was accepted for whoever is yet to join (`SubmitInvariant`);
  `RowEffects` says once what a step may do to one row.
* `ApprovalsAreLookedAt` is inductive with the types and `Justified`: the last approval leaves its
  own request with a look to take, and whoever takes that look closes the session.

`AdminRosterProofs`, from `RosterAssumption`: `SuperAdminStays`, `SetupHappensOnce` and
`PasswordsAreKept` follow from one inductive invariant. It says that a request that is not
outdated is *sound*: the row it will store is the row in the table but for its own change, and if
the change takes an active super admin away it has counted another. A step that changes the table
outdates every other request, so soundness has to be shown for the one that starts only.

`AccountAccessProofs`, from `AccessAssumption`: `CacheInv` ties the two entries of a code together
(a code under a number has its entry under its id and was not used), also for a request between
`MarkAsUsed` and `Delete`; `UsedCodesAreGone` and `LastCodeIsKept` follow. `RowsInv` says that a
row about to be stored is of a verified user and, while nothing overtook it, has the user's name;
`TokensAreProved` and `ProfilesAreKept` follow.

`SessionAssetsProofs`, from `AssetsAssumption`: `ImageInvariant` follows an image through upload,
numbering and entry (its file is stored and no other request's, its place is above those it has
seen). `BankInvariant` says that every list stored in either place, or held by a request that is
about to store it, is among those pages may show. `ImagesStayInPlace` and `PagesShowAccounts`
follow.

`NotifyGateProofs`, from `GateAssumption`, has one inductive invariant for each property.
`QuotaInvariant` says where a token is: with the limiter, with exactly one request that will queue
a reminder for it, or spent. `CountInvariant` says that none of those a batch began with is in a
status that was already counted; payments only move forward through the statuses in the order they
are counted, which is why `reverted` is the only way out. `GateInvariant` adds to
`GateClosedMeansTold` that no stamp, also of an edit not yet stored, is of the future (so a trigger
always opens a gate), and that what a batch in flight has queued is current while nothing changed.

`SessionBillingProofs`, from `BillingAssumption` (finitely many people and bills, percentages of
at most a hundred), opens with lemmas about `Sum` and the arithmetic of `SplitRules`. Facts about
sums over finite sets are shown by a smallest counterexample (`SmallestSet`: proper inclusion is
well founded on a finite set's subsets): an element taken away leaves a set for which the fact
holds. `SharesCoverBill` says that whole units for each sharer and the remainder for one make the
bill's amount; with `SumSwap` what the participants owe is the bills and the charges
(`OwedCoversBills`).

* `TypeCorrect` is inductive; its content is that the arithmetic stays in the natural numbers
  (`OwedTypes`, `Totals`): what all owe is never below what the bills come to.
* `ScopesStayPresent` is inductive with the types: a bill is stored only if those it names are
  there, and who leaves is taken out of every bill in the same statement.
* `SettledAmountsAddUp` rests on `SettledInv`, about the request that calculates: as long as
  nothing has made it outdated, what it has read is what the tables hold, and the shares it has
  worked out or stored are what the rules make of them (`Current`, `Agreed`). A step that changes a
  row makes every other request outdated, so only the step's own request has to be looked at.
* `PagesBelowShares` uses the same invariant, and that the page's quotient is at most the share
  and that rounding is monotone.
* `TotalStaysCovered` rests on `Balanced`: until something is lost or fails, either the session's
  total covers the bills and nobody holds a row to store, or some request is going to sum the
  bills, holds a total that covers them, or is outdated and will be caught storing (`Due`).

`ContactsProofs`, from `ContactsAssumption`. `Effects` says what a step of one request does to the
contacts and the histories, one lemma for each statement that stores a contact says what it
leaves, and three inductive invariants rest on these:

* `EditsInv`: the card an edit is about to store is the edit applied to the card the contact has
  (`Fresh`), or the request is outdated. So a store writes what the user wanted, or is one of those
  the property leaves out.
* `NumbersInv`: numbers are unique over deleted rows too, and a number that has been looked up
  (or, in an edit that does not change it, was the contact's own) is held by no other live
  contact, or the request is among those another contact's store has beaten. Storing a number marks
  every request that has it in hand.
* `ParticipantsInv`: a participant, and a snapshot still to join, has the number its contact has
  until that number is changed (`Carried`); numbers in a session are distinct; only participants
  that are no contact are renamed.

Model-checked only: `EventuallySettled`, as liveness under fairness is out of the prover's reach.
`LastSuperAdminStays` is violated, and says so in its run. The library's induction theorems cannot
be used either; the sums above do without them.

## 12. Not modelled

* Templates, dashboard and id resolution: single-row edits of texts, queries and rendering.
* JWT and password libraries: no state of their own; tokens are sets in sections 7 and 8.
* Routing, parsing and formatting in the HTTP layer. Where a handler or middleware decides
  something it is in the module of its component.
* The rate limits of codes and logins: they refuse, and they let everybody through when Redis
  fails; the reminder limiter, which other logic relies on, is modelled.
* The WhatsApp configuration table: no code inserts its row, so the connection webhook updates
  nothing; QR code and status are pass-through calls.
* Read-only queries; message texts; the exact backoff delays (only that a retry becomes due
  later); rejection reasons and counters.
* `UpdateStatus`, `UpdateStatusWithMessageID`, `UpdateStatusWithError`, `DeleteByParticipantID`
  and the deletion of users, which no use case calls.
