--------------------------- MODULE SessionBilling ---------------------------
(***************************************************************************)
(* The bills of one session, the amounts its participants owe and the      *)
(* total it shows.  A use case reads the session first, changes bills or   *)
(* participants, and stores the whole session row it read; CalculateSplits *)
(* reads session, participants and bills one after the other and stores    *)
(* the shares it worked out.  Each SQL statement or transaction is an      *)
(* action; what a request holds between two of them is kept in req.        *)
(***************************************************************************)
EXTENDS SplitRules

CONSTANTS
  People,      \* participant ids, given out once
  Bills,       \* bill item ids, given out once
  Requests,    \* requests that may be served at the same time
  Entries,     \* bills as a host may enter them: amount, scope, charged
  FeeConfigs,  \* percentages a host may set
  MaxServed,   \* bound: requests served
  MaxFaults    \* bound: crashes and failed statements

ASSUME BillingAssumption ==
  /\ Entries \in SUBSET [amount: Nat \ {0}, scope: SUBSET People, charged: SUBSET Charges]
  /\ FeeConfigs \in SUBSET Percentages
  /\ IsFiniteSet(People) /\ IsFiniteSet(Bills)
  /\ MaxServed \in Nat /\ MaxFaults \in Nat

VARIABLES
  session,  \* the columns of the session kept here: open, total, pct
  order,    \* everyone who has joined, in that order
  gone,     \* those of them who were removed
  share,    \* share_amount of each participant
  bill,     \* the bill items and the participants they name
  req,      \* where each request is and what it has read
  served,   \* requests so far
  faults,   \* faults so far
  outdated, \* history: requests during which another request changed something
  lost,     \* history: a session, bill or share was stored by an outdated request
  settled   \* history: a calculation nothing changed during or since has ended

rows == <<session, order, gone, share, bill>>
vars == <<rows, req, served, faults, outdated, lost, settled>>

-----------------------------------------------------------------------------
Live == {b \in Bills : bill[b].state = "live"}
People_ == {order[k] : k \in DOMAIN order} \ gone
Newest(p) == \E k \in DOMAIN order :
  order[k] = p /\ p \notin gone /\ \A j \in DOMAIN order : j > k => order[j] \in gone
Amount == [b \in Live |-> bill[b].amount]
NoFees == [c \in Charges |-> 0]

Session == [open: BOOLEAN, total: Nat, pct: Percentages]
Bill == [state: {"unused", "live", "deleted"}, amount: Nat, scope: SUBSET People,
         charged: SUBSET Charges]
Request ==
       [pc: {"idle", "splits", "join", "import", "leave"}]
  \cup [pc: {"create"}, seen: Session, entry: Entries]
  \cup [pc: {"update"}, seen: Session, which: Bills, entry: Bill]
  \cup [pc: {"delete"}, seen: Session, which: Bills]
  \cup [pc: {"sum"}, seen: Session, then: {"idle", "splits"}]
  \cup [pc: {"people"}, seen: Session]
  \cup [pc: {"bills"}, seen: Session, of: SUBSET People, newest: People]
  \cup [pc: {"shares"}, row: Session, of: SUBSET People, shares: [People -> Nat]]
  \cup [pc: {"save"}, row: Session, then: {"idle", "splits", "settled"}]
  \cup [pc: {"touch"}, who: People, share: Nat]

At(s) == [pc |-> s]
GoTo(r, state) == req' = [req EXCEPT ![r] = state]
Starts(r) == req[r].pc = "idle" /\ served < MaxServed /\ served' = served + 1

TypeOK ==
  /\ session \in Session
  /\ order \in Seq(People) /\ gone \in SUBSET People
  /\ share \in [People -> Nat]
  /\ bill \in [Bills -> Bill]
  /\ req \in [Requests -> Request]
  /\ served \in 0..MaxServed /\ faults \in 0..MaxFaults
  /\ outdated \in SUBSET Requests
  /\ lost \in BOOLEAN /\ settled \in BOOLEAN

Init ==
  /\ session = [open |-> TRUE, total |-> 0, pct |-> NoFees]
  /\ order = <<>> /\ gone = {}
  /\ share = [p \in People |-> 0]
  /\ bill = [b \in Bills |->
       [state |-> "unused", amount |-> 0, scope |-> {}, charged |-> {}]]
  /\ req = [r \in Requests |-> At("idle")]
  /\ served = 0 /\ faults = 0
  /\ outdated = {} /\ lost = FALSE /\ settled = FALSE

\* History: r begins to read, changes a row for the others, stores what it read.
Reads(r) == outdated' = outdated \ {r} /\ UNCHANGED <<rows, lost, settled>>
Changes(r) == outdated' = outdated \cup (Requests \ {r}) /\ settled' = FALSE
Stores(r) == Changes(r) /\ lost' = (lost \/ r \in outdated)

-----------------------------------------------------------------------------
\* Bills.

AddBillItem(r, e) ==
  /\ Starts(r)
  /\ session.open
  /\ e.scope \in SUBSET People_
  /\ GoTo(r, [pc |-> "create", seen |-> session, entry |-> e])
  /\ Reads(r) /\ UNCHANGED faults

\* Mutated forms: the total is left to the next calculation; the sign is wrong.
AddToTotalNot(s, amount) == s
AddToTotalSubtracted(s, amount) == [s EXCEPT !.total = @ - amount]
AddToTotal(s, amount) == [s EXCEPT !.total = @ + amount]
SetTotal(s, amount) == [s EXCEPT !.total = amount]

\* The bill and the rows that name its participants, in one transaction that
\* fails if one of them has left.
Create(r, b) ==
  /\ req[r].pc = "create"
  /\ bill[b].state = "unused"
  /\ LET q == req[r] IN
       \/ /\ q.entry.scope \in SUBSET People_
          /\ bill' = [bill EXCEPT ![b] = [state |-> "live", amount |-> q.entry.amount,
                        scope |-> q.entry.scope, charged |-> q.entry.charged]]
          /\ GoTo(r, [pc |-> "save", row |-> AddToTotal(q.seen, q.entry.amount), then |-> "idle"])
          /\ Changes(r)
       \/ /\ q.entry.scope \notin SUBSET People_
          /\ GoTo(r, At("idle"))
          /\ UNCHANGED <<bill, outdated, settled>>
  /\ UNCHANGED <<session, order, gone, share, served, faults, lost>>

\* The fields left out of the request keep what was read.
UpdateBillItem(r, b, e) ==
  /\ Starts(r)
  /\ b \in Live
  /\ e.scope \in SUBSET People_
  /\ \E scope \in {e.scope, bill[b].scope} :
       GoTo(r, [pc |-> "update", seen |-> session, which |-> b, entry |->
         [state |-> "live", amount |-> e.amount, scope |-> scope, charged |-> e.charged]])
  /\ Reads(r) /\ UNCHANGED faults

\* The row and the participants it names, rewritten in one transaction.
Update(r) ==
  /\ req[r].pc = "update"
  /\ LET q == req[r] IN
       \/ /\ q.which \in Live /\ q.entry.scope \in SUBSET People_
          /\ bill' = [bill EXCEPT ![q.which] = q.entry]
          /\ GoTo(r, [pc |-> "sum", seen |-> q.seen, then |-> "idle"])
          /\ Stores(r)
       \/ /\ ~(q.which \in Live /\ q.entry.scope \in SUBSET People_)
          /\ GoTo(r, At("idle"))
          /\ UNCHANGED <<bill, outdated, lost, settled>>
  /\ UNCHANGED <<session, order, gone, share, served, faults>>

DeleteBillItem(r, b) ==
  /\ Starts(r)
  /\ b \in Live
  /\ GoTo(r, [pc |-> "delete", seen |-> session, which |-> b])
  /\ Reads(r) /\ UNCHANGED faults

Delete(r) ==
  /\ req[r].pc = "delete"
  /\ LET q == req[r] IN
       \/ /\ q.which \in Live
          /\ bill' = [bill EXCEPT ![q.which].state = "deleted"]
          /\ GoTo(r, [pc |-> "sum", seen |-> q.seen, then |-> "splits"])
          /\ Changes(r)
       \/ /\ q.which \notin Live
          /\ GoTo(r, At("idle"))
          /\ UNCHANGED <<bill, outdated, settled>>
  /\ UNCHANGED <<session, order, gone, share, served, faults, lost>>

\* The amounts of the bills there are now.
FindBySessionID(r) ==
  /\ req[r].pc = "sum"
  /\ GoTo(r, [pc |-> "save", row |-> SetTotal(req[r].seen, Sum(Amount, Live)),
              then |-> req[r].then])
  /\ UNCHANGED <<rows, served, faults, outdated, lost, settled>>

-----------------------------------------------------------------------------
\* The session's own columns.

UpdateFeeConfig(r, pct) ==
  /\ Starts(r)
  /\ session.open
  /\ GoTo(r, [pc |-> "save", row |-> [session EXCEPT !.pct = pct], then |-> "idle"])
  /\ Reads(r) /\ UNCHANGED faults

\* UpdateSession keeps these columns, CancelSession closes the session.
UpdateSession(r, open) ==
  /\ Starts(r)
  /\ session.open
  /\ GoTo(r, [pc |-> "save", row |-> [session EXCEPT !.open = open], then |-> "idle"])
  /\ Reads(r) /\ UNCHANGED faults

\* The UPDATE of every column, and what follows it.
SessionUpdate(r) ==
  /\ req[r].pc = "save"
  /\ session' = req[r].row
  /\ lost' = (lost \/ r \in outdated)
  /\ outdated' = outdated \cup (Requests \ {r})
  /\ settled' = (req[r].then = "settled" /\ r \notin outdated)
  /\ GoTo(r, IF req[r].then = "splits" THEN At("splits") ELSE At("idle"))
  /\ UNCHANGED <<order, gone, share, bill, served, faults>>

-----------------------------------------------------------------------------
\* CalculateSplits, asked for by the host or by another use case.

CalculateSplits(r) ==
  /\ session.open
  /\ \/ Starts(r)
     \/ req[r].pc = "splits" /\ UNCHANGED served
  /\ GoTo(r, [pc |-> "people", seen |-> session])
  /\ Reads(r) /\ UNCHANGED faults

ReadParticipants(r) ==
  /\ req[r].pc = "people"
  /\ \E p \in People :
       /\ Newest(p)
       /\ GoTo(r, [pc |-> "bills", seen |-> req[r].seen, of |-> People_, newest |-> p])
  /\ UNCHANGED <<rows, served, faults, outdated, lost, settled>>

\* Reads the bills and works the shares out.  The total takes the charges in.
GrandTotal(s, B, fees) == SetTotal(s, Sum(Amount, B) + fees)

ReadBills(r) ==
  /\ req[r].pc = "bills"
  /\ LET q == req[r] IN
       \E last \in [Live -> q.of] :
          /\ \A b \in Live : last[b] \in LastSharers(bill[b].scope, q.of, q.newest)
          /\ GoTo(r, [pc |-> "shares",
               of |-> q.of,
               shares |-> [p \in People |-> IF p \in q.of
                  THEN Owed(bill, Live, q.of, last, q.seen.pct, p) ELSE 0],
               row |-> IF HasFees(q.seen.pct)
                       THEN GrandTotal(q.seen, Live, FeesOwed(bill, Live, q.of, last, q.seen.pct))
                       ELSE q.seen])
  /\ UNCHANGED <<rows, served, faults, outdated, lost, settled>>

\* One transaction; whoever has left meanwhile has no row to update.
BulkUpdateShareAmounts(r) ==
  /\ req[r].pc = "shares"
  /\ LET q == req[r] IN
       /\ share' = [p \in People |->
            IF p \in q.of \cap People_ THEN q.shares[p] ELSE share[p]]
       /\ IF ~HasFees(q.row.pct)
          THEN GoTo(r, At("idle")) /\ settled' = (r \notin outdated)
          ELSE GoTo(r, [pc |-> "save", row |-> q.row, then |-> "settled"]) /\ settled' = FALSE
  /\ lost' = (lost \/ r \in outdated)
  /\ outdated' = outdated \cup (Requests \ {r})
  /\ UNCHANGED <<session, order, gone, bill, served, faults>>

-----------------------------------------------------------------------------
\* Participants.

AddParticipants(r) ==
  /\ Starts(r)
  /\ session.open
  /\ GoTo(r, At("join"))
  /\ Reads(r) /\ UNCHANGED faults

ImportFromGroup(r) ==
  /\ Starts(r)
  /\ GoTo(r, At("import"))
  /\ Reads(r) /\ UNCHANGED faults

Join(r, p) ==
  /\ req[r].pc \in {"join", "import"}
  /\ p \notin People_ \cup gone
  /\ order' = Append(order, p)
  /\ Changes(r)
  /\ UNCHANGED <<session, gone, share, bill, req, served, faults, lost>>

\* The splits are recalculated if there is something to split.
AddEnds(r) ==
  /\ req[r].pc = "join"
  /\ Sum(Amount, Live) > 0
  /\ GoTo(r, At("splits"))
  /\ UNCHANGED <<rows, served, faults, outdated, lost, settled>>

RemoveParticipant(r) ==
  /\ Starts(r)
  /\ session.open
  /\ GoTo(r, At("leave"))
  /\ Reads(r) /\ UNCHANGED faults

\* The rows that name the participant in a bill go with the participant's.
\* Mutated form: they stay.
WithoutKept(b, p) == b
Without(b, p) == [b EXCEPT !.scope = @ \ {p}]

Remove(r, p) ==
  /\ req[r].pc = "leave"
  /\ p \in People_
  /\ gone' = gone \cup {p}
  /\ share' = [share EXCEPT ![p] = 0]
  /\ bill' = [b \in Bills |-> Without(bill[b], p)]
  /\ GoTo(r, At("splits"))
  /\ Changes(r)
  /\ UNCHANGED <<session, order, served, faults, lost>>

\* Approving, rejecting, marking paid and reminding store the participant's
\* whole row, the share amount that was read included.
ParticipantRead(r, p) ==
  /\ Starts(r)
  /\ p \in People_
  /\ GoTo(r, [pc |-> "touch", who |-> p, share |-> share[p]])
  /\ Reads(r) /\ UNCHANGED faults

ParticipantUpdate(r) ==
  /\ req[r].pc = "touch"
  /\ req[r].who \in People_
  /\ share' = [share EXCEPT ![req[r].who] = req[r].share]
  /\ IF share' = share THEN UNCHANGED <<outdated, settled, lost>> ELSE Stores(r)
  /\ GoTo(r, At("idle"))
  /\ UNCHANGED <<session, order, gone, bill, served, faults>>

\* The rest of the request changes nothing: a closed session, nobody to split
\* among, a row that is gone.
Return(r) ==
  /\ req[r].pc \in {"splits", "people", "join", "import", "leave", "touch"}
  /\ GoTo(r, At("idle"))
  /\ UNCHANGED <<rows, served, faults, outdated, lost, settled>>

\* A statement fails or the process dies.
Fail(r) ==
  /\ req[r].pc # "idle"
  /\ faults < MaxFaults
  /\ faults' = faults + 1
  /\ GoTo(r, At("idle"))
  /\ UNCHANGED <<rows, served, outdated, lost, settled>>

-----------------------------------------------------------------------------
BillStep(r) ==
  \/ \E e \in Entries : AddBillItem(r, e)
  \/ \E b \in Bills, e \in Entries : UpdateBillItem(r, b, e)
  \/ \E b \in Bills : DeleteBillItem(r, b) \/ Create(r, b)
  \/ Update(r) \/ Delete(r) \/ FindBySessionID(r)

SessionStep(r) ==
  \/ \E pct \in FeeConfigs : UpdateFeeConfig(r, pct)
  \/ \E open \in BOOLEAN : UpdateSession(r, open)
  \/ SessionUpdate(r)

SplitStep(r) ==
  CalculateSplits(r) \/ ReadParticipants(r) \/ ReadBills(r) \/ BulkUpdateShareAmounts(r)

PeopleStep(r) ==
  \/ AddParticipants(r) \/ ImportFromGroup(r) \/ AddEnds(r) \/ RemoveParticipant(r)
  \/ \E p \in People : Join(r, p) \/ Remove(r, p) \/ ParticipantRead(r, p)
  \/ ParticipantUpdate(r)

Next == \E r \in Requests :
  BillStep(r) \/ SessionStep(r) \/ SplitStep(r) \/ PeopleStep(r) \/ Return(r) \/ Fail(r)

Spec == Init /\ [][Next]_vars

-----------------------------------------------------------------------------
(***************************************************************************)
(* Properties                                                              *)
(***************************************************************************)

Shares == [p \in People_ |-> share[p]]
Quiet == \A r \in Requests : req[r].pc = "idle"

\* A calculation that nothing overlapped and nothing has followed leaves the
\* amounts right: with fees the participants owe what the session shows,
\* without fees what the bills add up to.  No unit is lost to the rounding of
\* bills, of charges, or to participants that left.
SettledAmounts == settled =>
  Sum(Shares, People_) =
    IF HasFees(session.pct) THEN session.total ELSE Sum(Amount, Live)

\* In that state the payment page, which divides the bills without their
\* remainders, shows nobody more than the amount that is recorded as owed.
PageNeverAboveShare == settled =>
  \A p \in People_ : PageTotal(bill, Live, Cardinality(People_), session.pct, p) <= share[p]

\* The total on display covers the bills at rest: adding, changing and deleting
\* them one by one keeps it there whatever the fees do.  Only a session row
\* stored by an outdated request, or a request cut short, leaves a bill out.
TotalCoversBills ==
  Quiet /\ ~lost /\ faults = 0 => session.total >= Sum(Amount, Live)

\* A bill names only people who take part, though a request may have read the
\* participants before one of them left.
ScopesPresent == \A b \in Live : bill[b].scope \in SUBSET People_

=============================================================================
