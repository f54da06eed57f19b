------------------------------ MODULE Contacts ------------------------------
(***************************************************************************)
(* One user's contacts and contact groups, and one session the contacts    *)
(* join as participants.  Every statement to the database is a step; a     *)
(* request keeps what it read until it stores it.  Rows of contacts and    *)
(* groups are deleted softly, a deleted row still counts for UNIQUE.       *)
(***************************************************************************)
EXTENDS Integers, Sequences, FiniteSetsExt

CONSTANTS
  Ids,           \* contacts there may ever be
  Groups,        \* groups there may ever be
  Participants,  \* participants there may ever be
  Numbers,       \* WhatsApp numbers
  Names,         \* names of contacts
  GroupNames,    \* names of groups
  Edits,         \* what an update of a contact may ask for
  Batches,       \* the lists of numbers an import may have
  DefaultLimit,  \* contacts a query without a usable limit returns
  Requests,      \* requests that may be served at the same time
  MaxServed      \* bound: requests served

Absent == "absent"  \* a NULL, an omitted field, a row that is not there
Blank == [name |-> Absent, number |-> Absent, group |-> Absent]

\* clears: group_id is given and empty.
Edit == [name: Names \cup {Absent}, number: Numbers \cup {Absent},
         group: Groups \cup {Absent}, clears: BOOLEAN]

ASSUME ContactsAssumption ==
  /\ Absent \notin Ids \cup Groups \cup Numbers \cup Names \cup GroupNames
  /\ Edits \in SUBSET Edit
  /\ Batches \in SUBSET Seq(Numbers)
  /\ DefaultLimit \in Nat \ {0} /\ MaxServed \in Nat

VARIABLES
  contact,      \* the table of contacts
  group,        \* the table of contact groups
  participant,  \* the session's participants
  req,          \* where each request is and what it has read
  served,       \* requests so far
  outdated,     \* history: requests whose contact changed since they read it
  beaten,       \* history: requests whose number went to another contact
  overlapped,   \* history: contacts an outdated request stored
  renumbered,   \* history: contacts whose number was changed
  wanted        \* history: each contact as the user last asked for it

rows == <<contact, group, participant>>
history == <<outdated, beaten, overlapped, renumbered, wanted>>
vars == <<rows, req, served, history>>

-----------------------------------------------------------------------------
States == {"none", "live", "deleted"}
Card == [name: Names \cup {Absent}, number: Numbers \cup {Absent}, group: Groups \cup {Absent}]
Snapshot == [contact: Ids, number: Numbers]

Request ==
       [pc: {"idle"}]
  \cup [pc: {"group", "exists", "store"}, id: Ids \cup {Absent}, card: Card, edit: Edit]
  \cup [pc: {"scan"}, left: Seq(Numbers), keep: Seq(Numbers), group: Groups \cup {Absent}]
  \cup [pc: {"move"}, ids: SUBSET Ids, group: Groups]
  \cup [pc: {"name"}, group: Groups \cup {Absent}, name: GroupNames]
  \cup [pc: {"join"}, left: SUBSET Snapshot]
  \cup [pc: {"rename"}, participant: Participants, number: Numbers]

TypeOK ==
  /\ contact \in [Ids -> [state: States, card: Card]]
  /\ group \in [Groups -> [state: States, name: GroupNames \cup {Absent}]]
  /\ participant \in [Participants -> [state: States, contact: Ids \cup {Absent}, number: Numbers \cup {Absent}]]
  /\ req \in [Requests -> Request]
  /\ served \in 0..MaxServed
  /\ outdated \in SUBSET Requests /\ beaten \in SUBSET Requests
  /\ overlapped \in SUBSET Ids /\ renumbered \in SUBSET Ids
  /\ wanted \in [Ids -> Card]

Init ==
  /\ contact = [c \in Ids |-> [state |-> "none", card |-> Blank]]
  /\ group = [g \in Groups |-> [state |-> "none", name |-> Absent]]
  /\ participant = [p \in Participants |-> [state |-> "none", contact |-> Absent, number |-> Absent]]
  /\ req = [r \in Requests |-> [pc |-> "idle"]]
  /\ served = 0
  /\ outdated = {} /\ beaten = {} /\ overlapped = {} /\ renumbered = {}
  /\ wanted = [c \in Ids |-> Blank]

GoTo(r, state) == req' = [req EXCEPT ![r] = state]
Done(r) == GoTo(r, [pc |-> "idle"])
Starts(r) ==
  /\ req[r].pc = "idle" /\ served < MaxServed
  /\ served' = served + 1
  /\ outdated' = outdated \ {r} /\ beaten' = beaten \ {r}
  /\ UNCHANGED <<overlapped, renumbered, wanted>>

Live(table, x) == table[x].state = "live"
Spare(table, x) == table[x].state = "none"
Holds(c, n) == contact[c].state # "none" /\ contact[c].card.number = n

\* UNIQUE (user_id, whatsapp_number), over deleted rows too.
Fits(n, id) == \A c \in Ids \ {id} : ~Holds(c, n)

\* Mutated form: contacts in no group are not looked at.
ExistsGrouped(n, id) == \E c \in Ids \ {id} : Live(contact, c) /\ Holds(c, n) /\ contact[c].card.group # Absent
Exists(n, id) == \E c \in Ids \ {id} : Live(contact, c) /\ Holds(c, n)

\* History: requests whose contact changes, and those about to store a number
\* that another contact is given.
Editing(q) == req[q].pc \in {"group", "exists", "store"}
Pending(q) == IF Editing(q) THEN {req[q].card.number}
              ELSE IF req[q].pc = "scan" THEN Range(req[q].keep) ELSE {}
Changes(r, ids) == outdated' = outdated \cup {q \in Requests \ {r} : Editing(q) /\ req[q].id \in ids}
Takes(r, numbers) == beaten' = beaten \cup {q \in Requests \ {r} : Pending(q) \cap numbers # {}}

-----------------------------------------------------------------------------
\* One contact: created as an edit of a blank card, or edited as it was read.
\* Mutated form: the id of the group is selected from the groups that are joined.
FoundJoined(c) ==
  LET g == contact[c].card.group IN
  IF g # Absent /\ ~Live(group, g) THEN [contact[c].card EXCEPT !.group = Absent] ELSE contact[c].card
Found(c) == contact[c].card

Applied(edit, card) == [field \in DOMAIN Blank |->
  CASE field = "group" /\ edit.clears -> Absent
    [] edit[field] # Absent -> edit[field]
    [] OTHER -> card[field]]

\* The next check a request needs before it stores its card.
Checks(r, id, card, edit, passed) ==
  GoTo(r, [pc |-> IF edit.group # Absent /\ passed = "none" THEN "group"
                  ELSE IF edit.number # Absent /\ passed # "exists" THEN "exists" ELSE "store",
           id |-> id, card |-> card, edit |-> edit])

CreateContact(r, edit) ==
  /\ Starts(r)
  /\ edit.name # Absent /\ edit.number # Absent /\ ~edit.clears
  /\ Checks(r, Absent, Applied(edit, Blank), edit, "none")
  /\ UNCHANGED rows

UpdateContact(r, c, edit) ==
  /\ Starts(r)
  /\ Live(contact, c)
  /\ Checks(r, c, Applied(edit, Found(c)), edit, "none")
  /\ UNCHANGED rows

FindGroup(r) ==
  /\ req[r].pc = "group"
  /\ LET q == req[r] IN
       IF Live(group, q.edit.group) THEN Checks(r, q.id, q.card, q.edit, "group") ELSE Done(r)
  /\ UNCHANGED <<rows, served, history>>

ExistsByWhatsApp(r) ==
  /\ req[r].pc = "exists"
  /\ LET q == req[r] IN
       IF Exists(q.card.number, q.id) THEN Done(r) /\ UNCHANGED beaten
       ELSE Checks(r, q.id, q.card, q.edit, "exists") /\ beaten' = beaten \ {r}
  /\ UNCHANGED <<rows, served, outdated, overlapped, renumbered, wanted>>

\* A new row, unless the number is held by any other.
Create(r) ==
  /\ req[r].pc = "store" /\ req[r].id = Absent
  /\ LET card == req[r].card IN
       \/ /\ Fits(card.number, Absent)
          /\ \E c \in Ids :
               /\ Spare(contact, c)
               /\ contact' = [contact EXCEPT ![c] = [state |-> "live", card |-> card]]
               /\ wanted' = [wanted EXCEPT ![c] = card]
          /\ Takes(r, {card.number})
       \/ ~Fits(card.number, Absent) /\ UNCHANGED <<contact, wanted, beaten>>
  /\ Done(r)
  /\ UNCHANGED <<group, participant, served, outdated, overlapped, renumbered>>

\* Every column as the request has it, unless the contact is deleted by now or
\* the number is held by another.
Update(r) ==
  /\ req[r].pc = "store" /\ req[r].id # Absent
  /\ LET q == req[r]  c == q.id IN
       IF Live(contact, c) /\ Fits(q.card.number, c)
       THEN /\ contact' = [contact EXCEPT ![c].card = q.card]
            /\ wanted' = [wanted EXCEPT ![c] = Applied(q.edit, @)]
            /\ overlapped' = IF r \in outdated THEN overlapped \cup {c} ELSE overlapped
            /\ renumbered' = IF q.card.number # contact[c].card.number THEN renumbered \cup {c} ELSE renumbered
            /\ Changes(r, {c}) /\ Takes(r, {q.card.number})
       ELSE UNCHANGED <<contact, history>>
  /\ Done(r)
  /\ UNCHANGED <<group, participant, served>>

\* DELETE of one contact and the bulk operation are the same statement.
DeleteContacts(r, ids) ==
  /\ Starts(r)
  /\ contact' = [c \in Ids |-> IF c \in ids /\ Live(contact, c) THEN [contact[c] EXCEPT !.state = "deleted"]
                                                          ELSE contact[c]]
  /\ UNCHANGED <<group, participant, req>>

-----------------------------------------------------------------------------
\* Lists of contacts.  An import looks each number up, keeps those it does not
\* find, and skips one whose query fails; it never looks at the group.

ImportContacts(r, batch, g) ==
  /\ Starts(r)
  /\ g \in {Absent} \cup {h \in Groups : ~Spare(group, h)}
  /\ GoTo(r, [pc |-> "scan", left |-> batch, keep |-> <<>>, group |-> g])
  /\ UNCHANGED rows

Scan(r) ==
  /\ req[r].pc = "scan" /\ req[r].left # <<>>
  /\ LET q == req[r]  n == Head(q.left)  rest == [q EXCEPT !.left = Tail(@)] IN
       \/ GoTo(r, rest)
       \/ ~Exists(n, Absent) /\ GoTo(r, [rest EXCEPT !.keep = Append(@, n)])
  /\ UNCHANGED <<rows, served, history>>

\* One INSERT of many rows: all of them, or none when a number comes twice or is held.
BulkCreate(r) ==
  /\ req[r].pc = "scan" /\ req[r].left = <<>>
  /\ LET q == req[r]  new == Range(q.keep)
         fit == IsInjective(q.keep) /\ \A n \in new : Fits(n, Absent)
     IN
       \/ /\ fit
          /\ \E name \in Names, ids \in kSubset(Len(q.keep), {c \in Ids : Spare(contact, c)}) :
             \E of \in Bijection(ids, new) :
               LET card(c) == [name |-> name, number |-> of[c], group |-> q.group] IN
               /\ contact' = [c \in Ids |-> IF c \in ids THEN [state |-> "live", card |-> card(c)] ELSE contact[c]]
               /\ wanted' = [c \in Ids |-> IF c \in ids THEN card(c) ELSE wanted[c]]
          /\ Takes(r, new)
       \/ ~fit /\ UNCHANGED <<contact, wanted, beaten>>
  /\ Done(r)
  /\ UNCHANGED <<group, participant, served, outdated, overlapped, renumbered>>

AddToGroup(r, ids, g) ==
  /\ Starts(r)
  /\ Live(group, g)
  /\ GoTo(r, [pc |-> "move", ids |-> ids, group |-> g])
  /\ UNCHANGED rows

\* The statement looks at the group again, and touches the group's column only.
BulkAddToGroup(r) ==
  /\ req[r].pc = "move"
  /\ LET q == req[r]  moved == {c \in q.ids : Live(contact, c) /\ Live(group, q.group)} IN
       /\ contact' = [c \in Ids |-> IF c \in moved THEN [contact[c] EXCEPT !.card.group = q.group] ELSE contact[c]]
       /\ wanted' = [c \in Ids |-> IF c \in moved THEN [wanted[c] EXCEPT !.group = q.group] ELSE wanted[c]]
       /\ Changes(r, moved)
  /\ Done(r)
  /\ UNCHANGED <<group, participant, served, beaten, overlapped, renumbered>>

-----------------------------------------------------------------------------
\* Groups.  Their names are unique in the same way; a deleted group's
\* contacts keep its id.
Named(n, g, states) == \E h \in Groups \ {g} : group[h].state \in states /\ group[h].name = n

CreateGroup(r, n) ==
  /\ Starts(r)
  /\ ~Named(n, Absent, {"live"})
  /\ GoTo(r, [pc |-> "name", group |-> Absent, name |-> n])
  /\ UNCHANGED rows

UpdateGroup(r, g, n) ==
  /\ Starts(r)
  /\ Live(group, g) /\ (n # group[g].name => ~Named(n, g, {"live"}))
  /\ GoTo(r, [pc |-> "name", group |-> g, name |-> n])
  /\ UNCHANGED rows

InsertGroup(r) ==
  /\ req[r].pc = "name" /\ req[r].group = Absent
  /\ LET n == req[r].name IN
       \/ /\ ~Named(n, Absent, {"live", "deleted"})
          /\ \E g \in Groups : Spare(group, g) /\ group' = [group EXCEPT ![g] = [state |-> "live", name |-> n]]
       \/ Named(n, Absent, {"live", "deleted"}) /\ UNCHANGED group
  /\ Done(r)
  /\ UNCHANGED <<contact, participant, served, history>>

StoreGroup(r) ==
  /\ req[r].pc = "name" /\ req[r].group # Absent
  /\ LET q == req[r] IN
       group' = IF Live(group, q.group) /\ ~Named(q.name, q.group, {"live", "deleted"})
                THEN [group EXCEPT ![q.group].name = q.name] ELSE group
  /\ Done(r)
  /\ UNCHANGED <<contact, participant, served, history>>

DeleteGroup(r, g) ==
  /\ Starts(r)
  /\ Live(group, g)
  /\ group' = [group EXCEPT ![g].state = "deleted"]
  /\ UNCHANGED <<contact, participant, req>>

-----------------------------------------------------------------------------
\* Participants.  A contact joins with the number it had when it was read.

\* Mutated form: the id of the contact is left out.
SnapshotOfNone(c) == [contact |-> Absent, number |-> contact[c].card.number]
SnapshotOf(c) == [contact |-> c, number |-> contact[c].card.number]

Pages(members) == kSubset(IF Cardinality(members) < DefaultLimit THEN Cardinality(members) ELSE DefaultLimit, members)

\* The limit asked for is too large to be used.  Built by the container, called
\* by no route yet.
ImportFromGroup(r, g) ==
  /\ Starts(r)
  /\ LET members == {c \in Ids : Live(contact, c) /\ contact[c].card.group = g} IN
       /\ members # {}
       /\ \E page \in Pages(members) : GoTo(r, [pc |-> "join", left |-> {SnapshotOf(c) : c \in page}])
  /\ UNCHANGED rows

AddParticipant(r, c) ==
  /\ Starts(r)
  /\ Live(contact, c)
  /\ GoTo(r, [pc |-> "join", left |-> {SnapshotOf(c)}])
  /\ UNCHANGED rows

\* UNIQUE (session_id, custom_whatsapp).
Free(n, p) == \A o \in Participants \ {p} : ~(Live(participant, o) /\ participant[o].number = n)

Joined(p, c, n) == participant' = [participant EXCEPT ![p] = [state |-> "live", contact |-> c, number |-> n]]

\* One contact after the other; one that fails is passed over.
Join(r) ==
  /\ req[r].pc = "join" /\ req[r].left # {}
  /\ \E s \in req[r].left :
       /\ GoTo(r, [req[r] EXCEPT !.left = @ \ {s}])
       /\ \/ \E p \in Participants : Spare(participant, p) /\ Free(s.number, p) /\ Joined(p, s.contact, s.number)
          \/ UNCHANGED participant
  /\ UNCHANGED <<contact, group, served, history>>

JoinEnds(r) ==
  /\ req[r].pc = "join" /\ req[r].left = {}
  /\ Done(r)
  /\ UNCHANGED <<rows, served, history>>

AddCustom(r, n) ==
  /\ Starts(r)
  /\ \E p \in Participants : Spare(participant, p) /\ Free(n, p) /\ Joined(p, Absent, n)
  /\ UNCHANGED <<contact, group, req>>

\* Mutated form: a participant that is a contact may be renamed too.
IsAny(p) == TRUE
IsCustom(p) == participant[p].contact = Absent

UpdateParticipant(r, p, n) ==
  /\ Starts(r)
  /\ Live(participant, p) /\ IsCustom(p)
  /\ GoTo(r, [pc |-> "rename", participant |-> p, number |-> n])
  /\ UNCHANGED rows

Rename(r) ==
  /\ req[r].pc = "rename"
  /\ LET q == req[r] IN
       participant' = IF Live(participant, q.participant) /\ Free(q.number, q.participant)
                      THEN [participant EXCEPT ![q.participant].number = q.number] ELSE participant
  /\ Done(r)
  /\ UNCHANGED <<contact, group, served, history>>

RemoveParticipant(r, p) ==
  /\ Starts(r)
  /\ Live(participant, p)
  /\ participant' = [participant EXCEPT ![p].state = "deleted"]
  /\ UNCHANGED <<contact, group, req>>

\* A statement fails, or the process dies.
Fail(r) ==
  /\ req[r].pc # "idle"
  /\ Done(r)
  /\ UNCHANGED <<rows, served, history>>

-----------------------------------------------------------------------------
ContactRoutes(r) ==
  \/ \E edit \in Edits : CreateContact(r, edit) \/ \E c \in Ids : UpdateContact(r, c, edit)
  \/ \E ids \in SUBSET Ids \ {{}} : DeleteContacts(r, ids) \/ \E g \in Groups : AddToGroup(r, ids, g)
  \/ \E batch \in Batches, g \in Groups \cup {Absent} : ImportContacts(r, batch, g)

GroupRoutes(r) == \E g \in Groups :
  \/ DeleteGroup(r, g)
  \/ \E n \in GroupNames : CreateGroup(r, n) \/ UpdateGroup(r, g, n)

ParticipantRoutes(r) ==
  \/ \E g \in Groups : ImportFromGroup(r, g)
  \/ \E c \in Ids : AddParticipant(r, c)
  \/ \E n \in Numbers : AddCustom(r, n)
  \/ \E p \in Participants : RemoveParticipant(r, p) \/ \E n \in Numbers : UpdateParticipant(r, p, n)

Statements(r) ==
  \/ FindGroup(r) \/ ExistsByWhatsApp(r) \/ Create(r) \/ Update(r)
  \/ Scan(r) \/ BulkCreate(r) \/ BulkAddToGroup(r) \/ InsertGroup(r) \/ StoreGroup(r)
  \/ Join(r) \/ JoinEnds(r) \/ Rename(r)

Next == \E r \in Requests :
  ContactRoutes(r) \/ GroupRoutes(r) \/ ParticipantRoutes(r) \/ Statements(r) \/ Fail(r)

Spec == Init /\ [][Next]_vars

-----------------------------------------------------------------------------
(***************************************************************************)
(* Properties                                                              *)
(***************************************************************************)

\* An edit or a bulk move that is answered with success is not lost: every
\* contact's card is as the user's requests, in the order they were stored,
\* make it, until a request stores a contact another one changed since it was
\* read, group and name and number alike.
EditsKept == \A c \in Ids \ overlapped : contact[c].card = wanted[c]

\* A number that passed ExistsByWhatsApp can be stored, so the user is told of
\* a conflict and never gets an internal failure, unless another contact took
\* the number since, a deleted one holds it, or an import lists it twice.
Stores(r) == IF Editing(r) THEN req[r].pc = "store" ELSE req[r].pc = "scan"
CheckedNumbersFit == \A r \in Requests \ beaten : Stores(r) =>
  \A n \in Pending(r) : \A c \in Ids : Holds(c, n) => contact[c].state = "deleted" \/ (Editing(r) /\ c = req[r].id)

\* One contact has two shares of a bill, under two numbers, only when its
\* number was changed between its joining twice; importing its group again or
\* renaming other participants never does it.
OnePerContact == \A p, o \in Participants :
  Live(participant, p) /\ Live(participant, o) /\ p # o /\ participant[p].contact = participant[o].contact
    => participant[p].contact \in renumbered \cup {Absent}

=============================================================================
