--------------------------- MODULE ContactsProofs ---------------------------
(***************************************************************************)
(* Theorems about a user's contacts, for any number of contacts, groups,   *)
(* participants and requests: types, edits that are not lost, numbers that *)
(* were checked, and one participant to a contact.                         *)
(***************************************************************************)
EXTENDS Contacts, TLAPS

-----------------------------------------------------------------------------
\* Types.  Every contact there is has a number, so has every card to store.

Numbered ==
  /\ \A c \in Ids : contact[c].state # "none" => contact[c].card.number # Absent
  /\ \A r \in Requests : Editing(r) => req[r].card.number # Absent

TypeInv == TypeOK /\ Numbered

\* The fields a request has, by where it is.
LEMMA RequestFields ==
  ASSUME NEW q \in Request
  PROVE  /\ q.pc \in {"idle", "group", "exists", "store", "scan", "move", "name", "join", "rename"}
         /\ q.pc \in {"group", "exists", "store"} => q.id \in Ids \cup {Absent} /\ q.card \in Card /\ q.edit \in Edit
         /\ q.pc = "scan" => /\ q.left \in Seq(Numbers) /\ q.keep \in Seq(Numbers) /\ q.group \in Groups \cup {Absent}
                             /\ q = [pc |-> "scan", left |-> q.left, keep |-> q.keep, group |-> q.group]
         /\ q.pc = "move" => q.ids \in SUBSET Ids /\ q.group \in Groups
         /\ q.pc = "name" => q.group \in Groups \cup {Absent} /\ q.name \in GroupNames
         /\ q.pc = "join" => q.left \in SUBSET Snapshot /\ q = [pc |-> "join", left |-> q.left]
         /\ q.pc = "rename" => q.participant \in Participants /\ q.number \in Numbers
  BY DEF Request

LEMMA IdleState == [pc |-> "idle"] \in Request
  BY DEF Request

LEMMA EditState ==
  ASSUME NEW pc \in {"group", "exists", "store"}, NEW id \in Ids \cup {Absent}, NEW card \in Card, NEW edit \in Edit
  PROVE  [pc |-> pc, id |-> id, card |-> card, edit |-> edit] \in Request
  BY DEF Request

LEMMA ScanState ==
  ASSUME NEW left \in Seq(Numbers), NEW keep \in Seq(Numbers), NEW g \in Groups \cup {Absent}
  PROVE  [pc |-> "scan", left |-> left, keep |-> keep, group |-> g] \in Request
  BY DEF Request

LEMMA NameState ==
  ASSUME NEW g \in Groups \cup {Absent}, NEW n \in GroupNames
  PROVE  [pc |-> "name", group |-> g, name |-> n] \in Request
  BY DEF Request

LEMMA JoinState ==
  ASSUME NEW left \in SUBSET Snapshot
  PROVE  [pc |-> "join", left |-> left] \in Request
  BY DEF Request

\* Where a request goes, the others stay.
LEMMA Gone ==
  ASSUME TypeOK, NEW r \in Requests, NEW state, GoTo(r, state)
  PROVE  /\ req'[r] = state /\ \A q \in Requests \ {r} : req'[q] = req[q]
         /\ state \in Request => req' \in [Requests -> Request]
  BY DEF TypeOK, GoTo

LEMMA EditingAfter ==
  ASSUME TypeOK, Numbered, NEW r \in Requests, NEW state, GoTo(r, state),
         \A c \in Ids : contact'[c].state # "none" => contact'[c].card.number # Absent,
         state.pc \in {"group", "exists", "store"} => state.card.number # Absent
  PROVE  Numbered'
  BY Gone DEF Numbered, Editing

LEMMA StartTypes ==
  ASSUME TypeOK, NEW r \in Requests, Starts(r)
  PROVE  /\ served' \in 0..MaxServed /\ outdated' \in SUBSET Requests /\ beaten' \in SUBSET Requests
         /\ UNCHANGED <<overlapped, renumbered, wanted>>
  BY ContactsAssumption DEF TypeOK, Starts

LEMMA HistoryTypes ==
  ASSUME TypeOK, NEW r \in Requests
  PROVE  /\ \A ids : Changes(r, ids) => outdated' \in SUBSET Requests
         /\ \A numbers : Takes(r, numbers) => beaten' \in SUBSET Requests
  BY DEF TypeOK, Changes, Takes

LEMMA BlankCard == Blank \in Card
  BY DEF Blank, Card

LEMMA AppliedCard ==
  ASSUME NEW edit \in Edit, NEW card \in Card
  PROVE  /\ Applied(edit, card) \in Card
         /\ Applied(edit, card).number = IF edit.number = Absent THEN card.number ELSE edit.number
<1> DEFINE a == Applied(edit, card)
<1>1. DOMAIN Blank = {"name", "number", "group"}
  BY DEF Blank
<1>2. a = [name |-> a.name, number |-> a.number, group |-> a.group]
  BY <1>1 DEF Applied
<1> QED BY <1>1, <1>2 DEF Applied, Card, Edit

LEMMA ContactTypes ==
  ASSUME TypeInv, NEW c \in Ids
  PROVE  /\ contact[c].state \in States /\ contact[c].card \in Card
         /\ contact[c] = [state |-> contact[c].state, card |-> contact[c].card]
         /\ contact[c].state # "none" => contact[c].card.number \in Numbers /\ SnapshotOf(c) \in Snapshot
<1>1. /\ contact[c].state \in States /\ contact[c].card \in Card
      /\ contact[c] = [state |-> contact[c].state, card |-> contact[c].card]
  BY DEF TypeInv, TypeOK
<1>2. contact[c].state # "none" => contact[c].card.number \in Numbers
  BY <1>1 DEF TypeInv, Numbered, Card
<1> QED BY <1>1, <1>2 DEF SnapshotOf, Snapshot

LEMMA EditFields ==
  ASSUME TypeOK, NEW r \in Requests, Editing(r)
  PROVE  req[r].id \in Ids \cup {Absent} /\ req[r].card \in Card /\ req[r].edit \in Edit
  BY RequestFields DEF TypeOK, Editing

LEMMA ChecksTypes ==
  ASSUME TypeInv, NEW r \in Requests, NEW id \in Ids \cup {Absent}, NEW card \in Card, NEW edit \in Edit, NEW passed,
         Checks(r, id, card, edit, passed), card.number # Absent, contact' = contact
  PROVE  req' \in [Requests -> Request] /\ Numbered'
<1>1. PICK pc \in {"group", "exists", "store"} : GoTo(r, [pc |-> pc, id |-> id, card |-> card, edit |-> edit])
  BY DEF Checks
<1>2. req' \in [Requests -> Request]
  BY <1>1, EditState, Gone DEF TypeInv
<1>3. \A c \in Ids : contact'[c].state # "none" => contact'[c].card.number # Absent
  BY DEF TypeInv, Numbered
<1> QED BY <1>1, <1>2, <1>3, EditingAfter DEF TypeInv

LEMMA DoneTypes ==
  ASSUME TypeInv, NEW r \in Requests, Done(r),
         \A c \in Ids : contact'[c].state # "none" => contact'[c].card.number # Absent
  PROVE  req' \in [Requests -> Request] /\ Numbered'
<1>1. GoTo(r, [pc |-> "idle"])
  BY DEF Done
<1> QED BY <1>1, IdleState, Gone, EditingAfter DEF TypeInv

\* A request that is given a place other than an edit's.
LEMMA PlaceTypes ==
  ASSUME TypeInv, NEW r \in Requests, NEW state \in Request, GoTo(r, state),
         state.pc \notin {"group", "exists", "store"}, contact' = contact
  PROVE  req' \in [Requests -> Request] /\ Numbered'
<1>1. \A c \in Ids : contact'[c].state # "none" => contact'[c].card.number # Absent
  BY DEF TypeInv, Numbered
<1> QED BY <1>1, Gone, EditingAfter DEF TypeInv

LEMMA StayTypes ==
  ASSUME TypeInv, UNCHANGED req,
         \A c \in Ids : contact'[c].state # "none" => contact'[c].card.number # Absent
  PROVE  Numbered'
  BY DEF TypeInv, Numbered, Editing

LEMMA ContactRouteTypes ==
  ASSUME TypeInv, NEW r \in Requests, ContactRoutes(r)
  PROVE  TypeInv'
<1>1. TypeOK
  BY DEF TypeInv
<1>2. ASSUME NEW edit \in Edits, CreateContact(r, edit) PROVE TypeInv'
  <2>1. edit \in Edit /\ Applied(edit, Blank) \in Card /\ Applied(edit, Blank).number # Absent
    BY <1>2, ContactsAssumption, BlankCard, AppliedCard DEF CreateContact
  <2>2. req' \in [Requests -> Request] /\ Numbered'
    BY <1>2, <2>1, ChecksTypes DEF CreateContact, rows
  <2> QED BY <1>1, <1>2, <2>2, StartTypes DEF CreateContact, rows, TypeInv, TypeOK
<1>3. ASSUME NEW edit \in Edits, NEW c \in Ids, UpdateContact(r, c, edit) PROVE TypeInv'
  <2>1. contact[c].card \in Card /\ contact[c].card.number \in Numbers
    BY <1>3, ContactTypes DEF UpdateContact, Live
  <2>2. edit \in Edit /\ Applied(edit, Found(c)) \in Card /\ Applied(edit, Found(c)).number # Absent
    BY <2>1, ContactsAssumption, AppliedCard DEF Found
  <2>3. req' \in [Requests -> Request] /\ Numbered'
    BY <1>3, <2>2, ChecksTypes DEF UpdateContact, rows
  <2> QED BY <1>1, <1>3, <2>3, StartTypes DEF UpdateContact, rows, TypeInv, TypeOK
<1>4. ASSUME NEW ids \in SUBSET Ids, DeleteContacts(r, ids) PROVE TypeInv'
  <2>1. ASSUME NEW c \in Ids
        PROVE  /\ contact'[c] \in [state: States, card: Card]
               /\ contact'[c].state # "none" => contact'[c].card.number # Absent
    <3>1. contact'[c] = IF c \in ids /\ Live(contact, c) THEN [contact[c] EXCEPT !.state = "deleted"] ELSE contact[c]
      BY <1>4 DEF DeleteContacts
    <3>2. contact[c].state # "none" => contact[c].card.number # Absent
      BY DEF TypeInv, Numbered
    <3>3. /\ contact[c].state \in States /\ contact[c].card \in Card
          /\ contact[c] = [state |-> contact[c].state, card |-> contact[c].card]
      BY ContactTypes
    <3>4. contact'[c].state \in States /\ contact'[c] = [state |-> contact'[c].state, card |-> contact[c].card]
      BY <3>1, <3>3 DEF States
    <3>5. contact'[c].state # "none" => contact[c].state # "none"
      BY <3>1 DEF Live
    <3> QED BY <3>2, <3>3, <3>4, <3>5
  <2>2. contact' \in [Ids -> [state: States, card: Card]]
    BY <1>4, <2>1 DEF DeleteContacts
  <2>3. Numbered'
    BY <1>4, <2>1, StayTypes DEF DeleteContacts
  <2> QED BY <1>1, <1>4, <2>2, <2>3, StartTypes DEF DeleteContacts, TypeInv, TypeOK
<1>5. ASSUME NEW ids \in SUBSET Ids, NEW g \in Groups, AddToGroup(r, ids, g) PROVE TypeInv'
  <2>1. [pc |-> "move", ids |-> ids, group |-> g] \in Request
    BY DEF Request
  <2>2. req' \in [Requests -> Request] /\ Numbered'
    BY <1>5, <2>1, PlaceTypes DEF AddToGroup, rows
  <2> QED BY <1>1, <1>5, <2>2, StartTypes DEF AddToGroup, rows, TypeInv, TypeOK
<1>6. ASSUME NEW batch \in Batches, NEW g \in Groups \cup {Absent}, ImportContacts(r, batch, g) PROVE TypeInv'
  <2>1. batch \in Seq(Numbers) /\ <<>> \in Seq(Numbers)
    BY ContactsAssumption
  <2>2. [pc |-> "scan", left |-> batch, keep |-> <<>>, group |-> g] \in Request
    BY <2>1, ScanState
  <2>3. req' \in [Requests -> Request] /\ Numbered'
    BY <1>6, <2>2, PlaceTypes DEF ImportContacts, rows
  <2> QED BY <1>1, <1>6, <2>3, StartTypes DEF ImportContacts, rows, TypeInv, TypeOK
<1> QED BY <1>2, <1>3, <1>4, <1>5, <1>6 DEF ContactRoutes

LEMMA GroupRouteTypes ==
  ASSUME TypeInv, NEW r \in Requests, GroupRoutes(r)
  PROVE  TypeInv'
<1>1. TypeOK
  BY DEF TypeInv
<1>2. ASSUME NEW g \in Groups, DeleteGroup(r, g) PROVE TypeInv'
  <2>1. group' \in [Groups -> [state: States, name: GroupNames \cup {Absent}]]
    BY <1>1, <1>2 DEF DeleteGroup, TypeOK, States
  <2>2. Numbered'
    BY <1>2, StayTypes DEF DeleteGroup, TypeInv, Numbered
  <2> QED BY <1>1, <1>2, <2>1, <2>2, StartTypes DEF DeleteGroup, TypeInv, TypeOK
<1>3. ASSUME NEW n \in GroupNames, NEW g \in Groups \cup {Absent}, Starts(r), UNCHANGED rows,
             GoTo(r, [pc |-> "name", group |-> g, name |-> n])
      PROVE  TypeInv'
  <2>1. req' \in [Requests -> Request] /\ Numbered'
    BY <1>3, NameState, PlaceTypes DEF rows
  <2> QED BY <1>1, <1>3, <2>1, StartTypes DEF rows, TypeInv, TypeOK
<1> QED BY <1>2, <1>3 DEF GroupRoutes, CreateGroup, UpdateGroup

LEMMA ParticipantRouteTypes ==
  ASSUME TypeInv, NEW r \in Requests, ParticipantRoutes(r)
  PROVE  TypeInv'
<1>1. TypeOK
  BY DEF TypeInv
<1>2. ASSUME NEW g \in Groups, ImportFromGroup(r, g) PROVE TypeInv'
  <2> DEFINE members == {c \in Ids : Live(contact, c) /\ contact[c].card.group = g}
  <2>1. PICK page \in SUBSET members : GoTo(r, [pc |-> "join", left |-> {SnapshotOf(c) : c \in page}])
    BY <1>2 DEF ImportFromGroup, Pages, kSubset
  <2>2. {SnapshotOf(c) : c \in page} \in SUBSET Snapshot
    BY ContactTypes DEF Live
  <2>3. req' \in [Requests -> Request] /\ Numbered'
    BY <1>2, <2>1, <2>2, JoinState, PlaceTypes DEF ImportFromGroup, rows
  <2> QED BY <1>1, <1>2, <2>3, StartTypes DEF ImportFromGroup, rows, TypeInv, TypeOK
<1>3. ASSUME NEW c \in Ids, AddParticipant(r, c) PROVE TypeInv'
  <2>1. {SnapshotOf(c)} \in SUBSET Snapshot
    BY <1>3, ContactTypes DEF AddParticipant, Live
  <2>2. req' \in [Requests -> Request] /\ Numbered'
    BY <1>3, <2>1, JoinState, PlaceTypes DEF AddParticipant, rows
  <2> QED BY <1>1, <1>3, <2>2, StartTypes DEF AddParticipant, rows, TypeInv, TypeOK
<1>4. ASSUME NEW n \in Numbers, AddCustom(r, n) PROVE TypeInv'
  <2>1. PICK p \in Participants : Joined(p, Absent, n)
    BY <1>4 DEF AddCustom
  <2>2. participant' \in [Participants -> [state: States, contact: Ids \cup {Absent}, number: Numbers \cup {Absent}]]
    BY <1>1, <2>1 DEF Joined, TypeOK, States
  <2>3. Numbered'
    BY <1>4, StayTypes DEF AddCustom, TypeInv, Numbered
  <2> QED BY <1>1, <1>4, <2>2, <2>3, StartTypes DEF AddCustom, TypeInv, TypeOK
<1>5. ASSUME NEW p \in Participants, RemoveParticipant(r, p) PROVE TypeInv'
  <2>1. participant' \in [Participants -> [state: States, contact: Ids \cup {Absent}, number: Numbers \cup {Absent}]]
    BY <1>1, <1>5 DEF RemoveParticipant, TypeOK, States
  <2>2. Numbered'
    BY <1>5, StayTypes DEF RemoveParticipant, TypeInv, Numbered
  <2> QED BY <1>1, <1>5, <2>1, <2>2, StartTypes DEF RemoveParticipant, TypeInv, TypeOK
<1>6. ASSUME NEW p \in Participants, NEW n \in Numbers, UpdateParticipant(r, p, n) PROVE TypeInv'
  <2>1. [pc |-> "rename", participant |-> p, number |-> n] \in Request
    BY DEF Request
  <2>2. req' \in [Requests -> Request] /\ Numbered'
    BY <1>6, <2>1, PlaceTypes DEF UpdateParticipant, rows
  <2> QED BY <1>1, <1>6, <2>2, StartTypes DEF UpdateParticipant, rows, TypeInv, TypeOK
<1> QED BY <1>2, <1>3, <1>4, <1>5, <1>6 DEF ParticipantRoutes

\* A contact that is stored: its row, and what the others keep.
LEMMA StoredTypes ==
  ASSUME TypeInv, NEW c \in Ids, NEW card \in Card, card.number # Absent, NEW state \in States,
         contact' = [contact EXCEPT ![c] = [state |-> state, card |-> card]]
  PROVE  /\ contact' \in [Ids -> [state: States, card: Card]]
         /\ \A d \in Ids : contact'[d].state # "none" => contact'[d].card.number # Absent
  BY DEF TypeInv, TypeOK, Numbered

LEMMA StoreTypes ==
  ASSUME TypeInv, NEW r \in Requests, Create(r) \/ Update(r)
  PROVE  TypeInv'
<1> DEFINE q == req[r]
<1>1. TypeOK
  BY DEF TypeInv
<1>2. Editing(r) /\ q.card \in Card /\ q.edit \in Edit /\ q.card.number # Absent /\ q.id \in Ids \cup {Absent}
  BY EditFields DEF Create, Update, Editing, TypeInv, Numbered
<1>3. ASSUME contact' = contact PROVE req' \in [Requests -> Request] /\ Numbered'
  <2>1. Done(r)
    BY DEF Create, Update
  <2> QED BY <1>3, <2>1, DoneTypes DEF TypeInv, Numbered
<1>4. CASE Create(r)
  <2>1. CASE UNCHANGED <<contact, wanted, beaten>>
    BY <1>1, <1>3, <1>4, <2>1 DEF Create, TypeInv, TypeOK
  <2>2. CASE Fits(q.card.number, Absent)
    <3>1. PICK c \in Ids :
            /\ contact' = [contact EXCEPT ![c] = [state |-> "live", card |-> q.card]]
            /\ wanted' = [wanted EXCEPT ![c] = q.card]
      BY <1>4, <2>2 DEF Create
    <3>2. /\ contact' \in [Ids -> [state: States, card: Card]]
          /\ \A d \in Ids : contact'[d].state # "none" => contact'[d].card.number # Absent
      <4>1. "live" \in States
        BY DEF States
      <4> HIDE DEF q
      <4> QED BY <1>2, <3>1, <4>1, StoredTypes
    <3>3. wanted' \in [Ids -> Card]
      BY <1>1, <1>2, <3>1 DEF TypeOK
    <3>4. req' \in [Requests -> Request] /\ Numbered'
      BY <1>4, <3>2, DoneTypes DEF Create
    <3>5. beaten' \in SUBSET Requests
      BY <1>1, <1>4, <2>2, HistoryTypes DEF Create
    <3> QED BY <1>1, <1>4, <3>2, <3>3, <3>4, <3>5 DEF Create, TypeInv, TypeOK
  <2> QED BY <1>4, <2>1, <2>2 DEF Create
<1>5. CASE Update(r)
  <2> DEFINE c == q.id
  <2>1. CASE ~(Live(contact, c) /\ Fits(q.card.number, c))
    BY <1>1, <1>3, <1>5, <2>1 DEF Update, TypeInv, TypeOK, history
  <2>2. CASE Live(contact, c) /\ Fits(q.card.number, c)
    <3>1. c \in Ids
      BY <1>2, <1>5 DEF Update
    <3>2. /\ contact' = [contact EXCEPT ![c].card = q.card]
          /\ wanted' = [wanted EXCEPT ![c] = Applied(q.edit, @)]
          /\ overlapped' = IF r \in outdated THEN overlapped \cup {c} ELSE overlapped
          /\ renumbered' = IF q.card.number # contact[c].card.number THEN renumbered \cup {c} ELSE renumbered
          /\ Changes(r, {c}) /\ Takes(r, {q.card.number})
      BY <1>5, <2>2 DEF Update
    <3>3. contact' = [contact EXCEPT ![c] = [state |-> contact[c].state, card |-> q.card]] /\ contact[c].state \in States
      <4>1. contact[c].state \in States /\ contact[c] = [state |-> contact[c].state, card |-> contact[c].card]
        BY <3>1, ContactTypes
      <4>2. [contact[c] EXCEPT !.card = q.card] = [state |-> contact[c].state, card |-> q.card]
        BY <4>1
      <4>3. contact' = [contact EXCEPT ![c] = [contact[c] EXCEPT !.card = q.card]]
        BY <3>2
      <4> QED BY <4>1, <4>2, <4>3
    <3>4. /\ contact' \in [Ids -> [state: States, card: Card]]
          /\ \A d \in Ids : contact'[d].state # "none" => contact'[d].card.number # Absent
      <4> HIDE DEF q, c
      <4> QED BY <1>2, <3>1, <3>3, StoredTypes
    <3>5. wanted' \in [Ids -> Card]
      <4>1. wanted[c] \in Card
        BY <1>1, <3>1 DEF TypeOK
      <4>2. Applied(q.edit, wanted[c]) \in Card
        BY <1>2, <4>1, AppliedCard
      <4> QED BY <1>1, <3>1, <3>2, <4>2 DEF TypeOK
    <3>6. req' \in [Requests -> Request] /\ Numbered'
      BY <1>5, <3>4, DoneTypes DEF Update
    <3>7. outdated' \in SUBSET Requests /\ beaten' \in SUBSET Requests
      BY <1>1, <3>2, HistoryTypes
    <3>8. overlapped' \in SUBSET Ids /\ renumbered' \in SUBSET Ids
      BY <1>1, <3>1, <3>2 DEF TypeOK
    <3> QED BY <1>1, <1>5, <3>4, <3>5, <3>6, <3>7, <3>8 DEF Update, TypeInv, TypeOK
  <2> QED BY <2>1, <2>2
<1> QED BY <1>4, <1>5

LEMMA CheckTypes ==
  ASSUME TypeInv, NEW r \in Requests, FindGroup(r) \/ ExistsByWhatsApp(r)
  PROVE  TypeInv'
<1>1. TypeOK
  BY DEF TypeInv
<1>2. /\ Editing(r) /\ req[r].card \in Card /\ req[r].edit \in Edit /\ req[r].id \in Ids \cup {Absent}
      /\ req[r].card.number # Absent
  BY EditFields DEF FindGroup, ExistsByWhatsApp, Editing, TypeInv, Numbered
<1>3. contact' = contact
  BY DEF FindGroup, ExistsByWhatsApp, rows
<1>4. req' \in [Requests -> Request] /\ Numbered'
  <2>1. CASE \E passed : Checks(r, req[r].id, req[r].card, req[r].edit, passed)
    BY <1>2, <1>3, <2>1, ChecksTypes
  <2>2. CASE Done(r)
    BY <1>3, <2>2, DoneTypes DEF TypeInv, Numbered
  <2> QED BY <2>1, <2>2 DEF FindGroup, ExistsByWhatsApp
<1>5. beaten' \in SUBSET Requests /\ UNCHANGED <<outdated, overlapped, renumbered, wanted>>
  BY <1>1 DEF FindGroup, ExistsByWhatsApp, TypeOK, history
<1> QED BY <1>1, <1>4, <1>5 DEF FindGroup, ExistsByWhatsApp, rows, TypeInv, TypeOK

\* The lists of an import, number by number.
LEMMA ScanLists ==
  ASSUME TypeOK, NEW r \in Requests, Scan(r)
  PROVE  LET q == req[r]  n == Head(q.left) IN
         /\ n \in Numbers /\ Tail(q.left) \in Seq(Numbers) /\ Append(q.keep, n) \in Seq(Numbers)
         /\ q.keep \in Seq(Numbers) /\ q.group \in Groups \cup {Absent}
         /\ \/ GoTo(r, [pc |-> "scan", left |-> Tail(q.left), keep |-> q.keep, group |-> q.group])
            \/ /\ ~Exists(n, Absent)
               /\ GoTo(r, [pc |-> "scan", left |-> Tail(q.left), keep |-> Append(q.keep, n), group |-> q.group])
<1> DEFINE q == req[r]
           n == Head(q.left)
           rest == [q EXCEPT !.left = Tail(@)]
<1>1. /\ q.left \in Seq(Numbers) /\ q.keep \in Seq(Numbers) /\ q.group \in Groups \cup {Absent}
      /\ q = [pc |-> "scan", left |-> q.left, keep |-> q.keep, group |-> q.group] /\ q.left # <<>>
  BY RequestFields DEF TypeOK, Scan
<1>2. n \in Numbers /\ Tail(q.left) \in Seq(Numbers) /\ Append(q.keep, n) \in Seq(Numbers)
  BY <1>1
<1>3. /\ rest = [pc |-> "scan", left |-> Tail(q.left), keep |-> q.keep, group |-> q.group]
      /\ [rest EXCEPT !.keep = Append(@, n)] =
           [pc |-> "scan", left |-> Tail(q.left), keep |-> Append(q.keep, n), group |-> q.group]
  <2> DEFINE t == Tail(q.left)
             k == Append(rest.keep, n)
  <2>1. rest = [q EXCEPT !.left = t]
    OBVIOUS
  <2> HIDE DEF t, rest, n, q
  <2>2. rest = [pc |-> "scan", left |-> t, keep |-> q.keep, group |-> q.group]
    BY <1>1, <2>1
  <2>3. k = Append(q.keep, n)
    BY <2>2
  <2> HIDE DEF k
  <2>4. [rest EXCEPT !.keep = k] = [pc |-> "scan", left |-> t, keep |-> k, group |-> q.group]
    BY <2>2
  <2>5. /\ rest = [pc |-> "scan", left |-> t, keep |-> q.keep, group |-> q.group]
        /\ [rest EXCEPT !.keep = k] = [pc |-> "scan", left |-> t, keep |-> Append(q.keep, n), group |-> q.group]
    BY <2>2, <2>3, <2>4
  <2> QED BY <2>5 DEF t, k
<1>4. GoTo(r, rest) \/ (~Exists(n, Absent) /\ GoTo(r, [rest EXCEPT !.keep = Append(@, n)]))
  BY DEF Scan
<1> HIDE DEF rest, n, q
<1>5. /\ n \in Numbers /\ Tail(q.left) \in Seq(Numbers) /\ Append(q.keep, n) \in Seq(Numbers)
      /\ q.keep \in Seq(Numbers) /\ q.group \in Groups \cup {Absent}
      /\ \/ GoTo(r, [pc |-> "scan", left |-> Tail(q.left), keep |-> q.keep, group |-> q.group])
         \/ /\ ~Exists(n, Absent)
            /\ GoTo(r, [pc |-> "scan", left |-> Tail(q.left), keep |-> Append(q.keep, n), group |-> q.group])
  BY <1>1, <1>2, <1>3, <1>4
<1> QED BY <1>5 DEF n, q

\* What an import stores.
Imported(ids, name, of, g) ==
  LET card(c) == [name |-> name, number |-> of[c], group |-> g] IN
  /\ contact' = [c \in Ids |-> IF c \in ids THEN [state |-> "live", card |-> card(c)] ELSE contact[c]]
  /\ wanted' = [c \in Ids |-> IF c \in ids THEN card(c) ELSE wanted[c]]

LEMMA BulkCases ==
  ASSUME NEW r, BulkCreate(r)
  PROVE  LET q == req[r]  new == Range(q.keep) IN
         \/ /\ IsInjective(q.keep) /\ \A n \in new : Fits(n, Absent)
            /\ \E name \in Names, ids \in kSubset(Len(q.keep), {c \in Ids : Spare(contact, c)}) :
                 \E of \in Bijection(ids, new) : Imported(ids, name, of, q.group)
            /\ Takes(r, new)
         \/ UNCHANGED <<contact, wanted, beaten>>
  BY Zenon DEF BulkCreate, Imported

LEMMA BulkTypes ==
  ASSUME TypeInv, NEW r \in Requests, BulkCreate(r)
  PROVE  TypeInv'
<1> DEFINE q == req[r]
           new == Range(q.keep)
<1>1. TypeOK
  BY DEF TypeInv
<1>2. q.keep \in Seq(Numbers) /\ q.group \in Groups \cup {Absent}
  BY <1>1, RequestFields DEF BulkCreate, TypeOK
<1>3. new \in SUBSET Numbers
  BY <1>2 DEF Range
<1>4. CASE UNCHANGED <<contact, wanted, beaten>>
  <2>1. req' \in [Requests -> Request] /\ Numbered'
    BY <1>4, DoneTypes DEF BulkCreate, TypeInv, Numbered
  <2> QED BY <1>1, <1>4, <2>1 DEF BulkCreate, TypeInv, TypeOK
<1>5. CASE /\ \E name \in Names, ids \in kSubset(Len(q.keep), {c \in Ids : Spare(contact, c)}) :
                \E of \in Bijection(ids, new) : Imported(ids, name, of, q.group)
           /\ Takes(r, new)
  <2>1. PICK name \in Names, ids \in SUBSET Ids : \E of \in [ids -> new] : Imported(ids, name, of, q.group)
    BY <1>5 DEF kSubset, Bijection, Injection
  <2>2. PICK of \in [ids -> new] : Imported(ids, name, of, q.group)
    BY <2>1
  <2>3. /\ contact' = [c \in Ids |-> IF c \in ids
              THEN [state |-> "live", card |-> [name |-> name, number |-> of[c], group |-> q.group]] ELSE contact[c]]
        /\ wanted' = [c \in Ids |-> IF c \in ids THEN [name |-> name, number |-> of[c], group |-> q.group] ELSE wanted[c]]
    BY <2>2 DEF Imported
  <2>4. ASSUME NEW c \in ids
        PROVE  [name |-> name, number |-> of[c], group |-> q.group] \in Card /\ of[c] # Absent
    <3>1. of[c] \in Numbers
      BY <1>3
    <3> QED BY <1>2, <3>1, ContactsAssumption DEF Card
  <2>5. ASSUME NEW c \in Ids
        PROVE  /\ contact'[c] \in [state: States, card: Card] /\ wanted'[c] \in Card
               /\ contact'[c].state # "none" => contact'[c].card.number # Absent
    <3>1. CASE c \in ids
      BY <2>3, <2>4, <3>1 DEF States
    <3>2. CASE c \notin ids
      BY <1>1, <2>3, <3>2 DEF TypeOK, TypeInv, Numbered
    <3> QED BY <3>1, <3>2
  <2>6. contact' \in [Ids -> [state: States, card: Card]] /\ wanted' \in [Ids -> Card]
    BY <2>3, <2>5
  <2>7. req' \in [Requests -> Request] /\ Numbered'
    BY <2>5, DoneTypes DEF BulkCreate
  <2>8. beaten' \in SUBSET Requests
    BY <1>1, <1>5, HistoryTypes
  <2> QED BY <1>1, <2>6, <2>7, <2>8 DEF BulkCreate, TypeInv, TypeOK
<1> QED BY <1>4, <1>5, BulkCases

LEMMA GroupedCard ==
  ASSUME NEW card \in Card, NEW g \in Groups
  PROVE  /\ [card EXCEPT !.group = g] \in Card
         /\ [card EXCEPT !.group = g].number = card.number
  BY DEF Card

LEMMA MoveTypes ==
  ASSUME TypeInv, NEW r \in Requests, BulkAddToGroup(r)
  PROVE  TypeInv'
<1> DEFINE q == req[r]
           moved == {c \in q.ids : Live(contact, c) /\ Live(group, q.group)}
<1>1. TypeOK
  BY DEF TypeInv
<1>2. q.ids \in SUBSET Ids /\ q.group \in Groups
  BY <1>1, RequestFields DEF BulkAddToGroup, TypeOK
<1>3. /\ contact' = [c \in Ids |-> IF c \in moved THEN [contact[c] EXCEPT !.card.group = q.group] ELSE contact[c]]
      /\ wanted' = [c \in Ids |-> IF c \in moved THEN [wanted[c] EXCEPT !.group = q.group] ELSE wanted[c]]
      /\ Changes(r, moved)
  BY DEF BulkAddToGroup
<1>4. ASSUME NEW c \in Ids
      PROVE  /\ contact'[c] \in [state: States, card: Card] /\ wanted'[c] \in Card
             /\ contact'[c].state # "none" => contact'[c].card.number # Absent
  <2>1. contact[c].state # "none" => contact[c].card.number # Absent
    BY DEF TypeInv, Numbered
  <2>2. contact[c].state \in States /\ contact[c].card \in Card /\ wanted[c] \in Card
    BY <1>1 DEF TypeOK
  <2>3. contact[c] = [state |-> contact[c].state, card |-> contact[c].card]
    BY ContactTypes
  <2>4. CASE c \in moved
    <3>1. contact'[c] = [state |-> contact[c].state, card |-> [contact[c].card EXCEPT !.group = q.group]]
      BY <1>3, <2>3, <2>4
    <3>2. wanted'[c] = [wanted[c] EXCEPT !.group = q.group]
      BY <1>3, <2>4
    <3>3. [wanted[c] EXCEPT !.group = q.group] \in Card
      BY <1>2, <2>2, GroupedCard
    <3>4. /\ [contact[c].card EXCEPT !.group = q.group] \in Card
          /\ [contact[c].card EXCEPT !.group = q.group].number = contact[c].card.number
      BY <1>2, <2>2, GroupedCard
    <3> DEFINE card == [contact[c].card EXCEPT !.group = q.group]
    <3>5. contact'[c] = [state |-> contact[c].state, card |-> card] /\ card \in Card /\ card.number = contact[c].card.number
      BY <3>1, <3>4
    <3> HIDE DEF moved, q, card
    <3>6. wanted'[c] \in Card
      BY <3>2, <3>3
    <3> QED BY <2>1, <2>2, <3>5, <3>6
  <2>5. CASE c \notin moved
    BY <1>3, <2>1, <2>2, <2>3, <2>5
  <2> QED BY <2>4, <2>5
<1>5. contact' \in [Ids -> [state: States, card: Card]] /\ wanted' \in [Ids -> Card]
  BY <1>3, <1>4
<1>6. req' \in [Requests -> Request] /\ Numbered'
  BY <1>4, DoneTypes DEF BulkAddToGroup
<1>7. outdated' \in SUBSET Requests
  BY <1>1, <1>3, HistoryTypes
<1> QED BY <1>1, <1>5, <1>6, <1>7 DEF BulkAddToGroup, TypeInv, TypeOK

LEMMA GroupAndPeopleTypes ==
  ASSUME TypeInv, NEW r \in Requests,
         InsertGroup(r) \/ StoreGroup(r) \/ Join(r) \/ JoinEnds(r) \/ Rename(r) \/ Scan(r) \/ Fail(r)
  PROVE  TypeInv'
<1> DEFINE q == req[r]
           Rows == [Participants -> [state: States, contact: Ids \cup {Absent}, number: Numbers \cup {Absent}]]
<1>1. TypeOK /\ q \in Request
  BY DEF TypeInv, TypeOK
<1>2. ASSUME contact' = contact, Done(r) PROVE req' \in [Requests -> Request] /\ Numbered'
  BY <1>2, DoneTypes DEF TypeInv, Numbered
<1>3. CASE InsertGroup(r) \/ StoreGroup(r)
  <2>1. req' \in [Requests -> Request] /\ Numbered'
    BY <1>2, <1>3 DEF InsertGroup, StoreGroup
  <2>2. q.name \in GroupNames /\ q.group \in Groups \cup {Absent}
    BY <1>1, <1>3, RequestFields DEF InsertGroup, StoreGroup
  <2>3. group' \in [Groups -> [state: States, name: GroupNames \cup {Absent}]]
    BY <1>1, <1>3, <2>2 DEF InsertGroup, StoreGroup, TypeOK, States
  <2> QED BY <1>1, <1>3, <2>1, <2>3 DEF InsertGroup, StoreGroup, history, TypeInv, TypeOK
<1>4. CASE Join(r)
  <2>1. q.left \in SUBSET Snapshot /\ q = [pc |-> "join", left |-> q.left]
    BY <1>1, <1>4, RequestFields DEF Join
  <2>2. PICK s \in q.left :
          /\ GoTo(r, [q EXCEPT !.left = @ \ {s}])
          /\ \/ \E p \in Participants : Joined(p, s.contact, s.number)
             \/ UNCHANGED participant
    BY <1>4 DEF Join
  <2>3. [q EXCEPT !.left = @ \ {s}] = [pc |-> "join", left |-> q.left \ {s}]
    BY <2>1
  <2>4. [pc |-> "join", left |-> q.left \ {s}] \in Request
    BY <2>1, JoinState
  <2>5. req' \in [Requests -> Request] /\ Numbered'
    BY <1>4, <2>2, <2>3, <2>4, PlaceTypes DEF Join
  <2>6. s.contact \in Ids /\ s.number \in Numbers
    BY <2>1 DEF Snapshot
  <2>7. participant' \in Rows
    BY <1>1, <2>2, <2>6 DEF Joined, TypeOK, States
  <2> QED BY <1>1, <1>4, <2>5, <2>7 DEF Join, history, TypeInv, TypeOK
<1>5. CASE JoinEnds(r) \/ Fail(r)
  <2>1. req' \in [Requests -> Request] /\ Numbered'
    BY <1>2, <1>5 DEF JoinEnds, Fail, rows
  <2> QED BY <1>1, <1>5, <2>1 DEF JoinEnds, Fail, rows, history, TypeInv, TypeOK
<1>6. CASE Rename(r)
  <2>1. req' \in [Requests -> Request] /\ Numbered'
    BY <1>2, <1>6 DEF Rename
  <2>2. q.participant \in Participants /\ q.number \in Numbers
    BY <1>1, <1>6, RequestFields DEF Rename
  <2>3. participant' \in Rows
    BY <1>1, <1>6, <2>2 DEF Rename, TypeOK
  <2> QED BY <1>1, <1>6, <2>1, <2>3 DEF Rename, history, TypeInv, TypeOK
<1>7. CASE Scan(r)
  <2>1. q.keep \in Seq(Numbers) /\ q.group \in Groups \cup {Absent}
    BY <1>1, <1>7, RequestFields DEF Scan
  <2>2. \E left, keep \in Seq(Numbers) : GoTo(r, [pc |-> "scan", left |-> left, keep |-> keep, group |-> q.group])
    BY <1>1, <1>7, <2>1, ScanLists
  <2>3. req' \in [Requests -> Request] /\ Numbered'
    BY <1>7, <2>1, <2>2, ScanState, PlaceTypes DEF Scan, rows
  <2> QED BY <1>1, <1>7, <2>3 DEF Scan, rows, history, TypeInv, TypeOK
<1> QED BY <1>3, <1>4, <1>5, <1>6, <1>7

LEMMA TypeStep ==
  ASSUME TypeInv, [Next]_vars
  PROVE  TypeInv'
<1>1. CASE UNCHANGED vars
  BY <1>1 DEF TypeInv, TypeOK, Numbered, Editing, vars, rows, history
<1> QED BY <1>1, ContactRouteTypes, GroupRouteTypes, ParticipantRouteTypes, StoreTypes, CheckTypes, BulkTypes,
           MoveTypes, GroupAndPeopleTypes DEF Next, Statements

LEMMA InitTypes == Init => TypeInv
<1> SUFFICES ASSUME Init PROVE TypeInv
  OBVIOUS
<1>1. contact \in [Ids -> [state: States, card: Card]] /\ wanted \in [Ids -> Card]
  BY BlankCard DEF Init, States
<1>2. group \in [Groups -> [state: States, name: GroupNames \cup {Absent}]]
  BY DEF Init, States
<1>3. participant \in [Participants -> [state: States, contact: Ids \cup {Absent}, number: Numbers \cup {Absent}]]
  BY DEF Init, States
<1>4. req \in [Requests -> Request] /\ served \in 0..MaxServed
  BY IdleState, ContactsAssumption DEF Init
<1>5. Numbered
  BY DEF Init, Numbered, Editing
<1> QED BY <1>1, <1>2, <1>3, <1>4, <1>5 DEF Init, TypeInv, TypeOK

\* Every row and request has its type: a card has a number before it is stored,
\* so whoever joins from a contact has one.
THEOREM TypeCorrect == Spec => []TypeOK
<1>1. TypeInv => TypeOK
  BY DEF TypeInv
<1> QED BY <1>1, InitTypes, TypeStep, PTL DEF Spec

-----------------------------------------------------------------------------
\* What a step of one request does to the contacts and to the others.

Only(r) == \A q \in Requests \ {r} : req'[q] = req[q]
SameFor(set, r) == \A q \in Requests \ {r} : q \in set' <=> q \in set

\* No contact changes, and no history but that of r.
Keeps(r) ==
  /\ UNCHANGED <<contact, overlapped, renumbered, wanted>>
  /\ SameFor(outdated, r) /\ SameFor(beaten, r)

Step(r) == ContactRoutes(r) \/ GroupRoutes(r) \/ ParticipantRoutes(r) \/ Statements(r) \/ Fail(r)
StoresContact(r) == Create(r) \/ Update(r) \/ (\E ids \in SUBSET Ids : DeleteContacts(r, ids)) \/ BulkCreate(r) \/ BulkAddToGroup(r)

LEMMA StartsKeep ==
  ASSUME NEW r, Starts(r)
  PROVE  /\ UNCHANGED <<overlapped, renumbered, wanted>>
         /\ SameFor(outdated, r) /\ SameFor(beaten, r)
         /\ r \notin outdated' /\ r \notin beaten' /\ req[r].pc = "idle"
  BY DEF Starts, SameFor

LEMMA Effects ==
  ASSUME TypeInv, NEW r \in Requests, Step(r)
  PROVE  Only(r) /\ (Keeps(r) \/ StoresContact(r))
<1>1. TypeOK
  BY DEF TypeInv
<1>2. Only(r)
  <2>1. req' = req \/ \E state : GoTo(r, state)
    <3>1. CASE ContactRoutes(r)
      <4>1. ASSUME NEW id, NEW card, NEW edit, NEW passed, Checks(r, id, card, edit, passed)
            PROVE  \E state : GoTo(r, state)
        BY <4>1 DEF Checks
      <4> QED BY <3>1, <4>1 DEF ContactRoutes, CreateContact, UpdateContact, DeleteContacts, AddToGroup, ImportContacts
    <3>2. CASE GroupRoutes(r)
      BY <3>2 DEF GroupRoutes, CreateGroup, UpdateGroup, DeleteGroup
    <3>3. CASE ParticipantRoutes(r)
      BY <3>3 DEF ParticipantRoutes, ImportFromGroup, AddParticipant, AddCustom, RemoveParticipant, UpdateParticipant
    <3>4. CASE Statements(r) \/ Fail(r)
      <4>1. ASSUME NEW id, NEW card, NEW edit, NEW passed, Checks(r, id, card, edit, passed)
            PROVE  \E state : GoTo(r, state)
        BY <4>1 DEF Checks
      <4>2. ASSUME Done(r) PROVE \E state : GoTo(r, state)
        BY <4>2 DEF Done
      <4>3. ASSUME Scan(r) PROVE \E state : GoTo(r, state)
        BY <4>3 DEF Scan
      <4>4. ASSUME Join(r) PROVE \E state : GoTo(r, state)
        BY <4>4 DEF Join
      <4>5. ASSUME FindGroup(r) \/ ExistsByWhatsApp(r) PROVE \E state : GoTo(r, state)
        BY <4>1, <4>2, <4>5 DEF FindGroup, ExistsByWhatsApp
      <4>6. ASSUME Create(r) \/ Update(r) \/ BulkCreate(r) \/ BulkAddToGroup(r) \/ InsertGroup(r) \/ StoreGroup(r)
                   \/ JoinEnds(r) \/ Rename(r) \/ Fail(r)
            PROVE  Done(r)
        BY <4>6 DEF Create, Update, BulkCreate, BulkAddToGroup, InsertGroup, StoreGroup, JoinEnds, Rename, Fail
      <4> QED BY <3>4, <4>2, <4>3, <4>4, <4>5, <4>6 DEF Statements
    <3> QED BY <3>1, <3>2, <3>3, <3>4 DEF Step
  <2> QED BY <1>1, <2>1, Gone DEF Only
<1>3. Keeps(r) \/ StoresContact(r)
  <2>1. ASSUME Starts(r), contact' = contact PROVE Keeps(r)
    BY <2>1, StartsKeep DEF Keeps
  <2>2. CASE ContactRoutes(r)
    BY <2>1, <2>2 DEF ContactRoutes, CreateContact, UpdateContact, AddToGroup, ImportContacts, rows, StoresContact
  <2>3. CASE GroupRoutes(r)
    BY <2>1, <2>3 DEF GroupRoutes, CreateGroup, UpdateGroup, DeleteGroup, rows
  <2>4. CASE ParticipantRoutes(r)
    BY <2>1, <2>4 DEF ParticipantRoutes, ImportFromGroup, AddParticipant, AddCustom, RemoveParticipant,
                      UpdateParticipant, rows
  <2>5. ASSUME contact' = contact, UNCHANGED history PROVE Keeps(r)
    BY <2>5 DEF Keeps, SameFor, history
  <2>6. CASE Statements(r) \/ Fail(r)
    <3>1. ASSUME ExistsByWhatsApp(r) PROVE Keeps(r)
      BY <3>1 DEF ExistsByWhatsApp, Keeps, SameFor, rows
    <3>2. ASSUME FindGroup(r) \/ Scan(r) \/ InsertGroup(r) \/ StoreGroup(r) \/ Join(r) \/ JoinEnds(r) \/ Rename(r) \/ Fail(r)
          PROVE  contact' = contact /\ UNCHANGED history
      BY <3>2 DEF FindGroup, Scan, InsertGroup, StoreGroup, Join, JoinEnds, Rename, Fail, rows
    <3> QED BY <2>5, <2>6, <3>1, <3>2 DEF Statements, StoresContact
  <2> QED BY <2>2, <2>3, <2>4, <2>6 DEF Step
<1> QED BY <1>2, <1>3

\* The steps that store contacts, each by what it leaves.
LEMMA CreateEffect ==
  ASSUME TypeInv, NEW r \in Requests, Create(r)
  PROVE  /\ req'[r] = [pc |-> "idle"] /\ participant' = participant
         /\ UNCHANGED <<outdated, overlapped, renumbered>>
         /\ \/ UNCHANGED <<contact, wanted, beaten>>
            \/ \E c \in Ids :
                 /\ Fits(req[r].card.number, Absent) /\ Takes(r, {req[r].card.number}) /\ contact[c].state = "none"
                 /\ contact'[c] = [state |-> "live", card |-> req[r].card] /\ wanted'[c] = req[r].card
                 /\ \A d \in Ids \ {c} : contact'[d] = contact[d] /\ wanted'[d] = wanted[d]
<1>1. req'[r] = [pc |-> "idle"]
  BY Gone DEF Create, Done, TypeInv
<1>2. CASE UNCHANGED <<contact, wanted, beaten>>
  BY <1>1, <1>2 DEF Create
<1>3. CASE Fits(req[r].card.number, Absent)
  <2>1. PICK c \in Ids :
          /\ Spare(contact, c)
          /\ contact' = [contact EXCEPT ![c] = [state |-> "live", card |-> req[r].card]]
          /\ wanted' = [wanted EXCEPT ![c] = req[r].card]
    BY <1>3 DEF Create
  <2>2. Takes(r, {req[r].card.number})
    BY <1>3 DEF Create
  <2>3. /\ contact'[c] = [state |-> "live", card |-> req[r].card] /\ wanted'[c] = req[r].card
        /\ \A d \in Ids \ {c} : contact'[d] = contact[d] /\ wanted'[d] = wanted[d]
    BY <2>1 DEF TypeInv, TypeOK
  <2> QED BY <1>1, <1>3, <2>1, <2>2, <2>3 DEF Create, Spare
<1> QED BY <1>2, <1>3 DEF Create

LEMMA UpdateEffect ==
  ASSUME TypeInv, NEW r \in Requests, Update(r)
  PROVE  LET q == req[r]  c == q.id IN
         /\ req'[r] = [pc |-> "idle"] /\ participant' = participant
         /\ \/ UNCHANGED <<contact, history>>
            \/ /\ c \in Ids /\ contact[c].state = "live" /\ Fits(q.card.number, c)
               /\ contact'[c] = [state |-> "live", card |-> q.card] /\ wanted'[c] = Applied(q.edit, wanted[c])
               /\ \A d \in Ids \ {c} : contact'[d] = contact[d] /\ wanted'[d] = wanted[d]
               /\ overlapped' = IF r \in outdated THEN overlapped \cup {c} ELSE overlapped
               /\ renumbered' = IF q.card.number # contact[c].card.number THEN renumbered \cup {c} ELSE renumbered
               /\ Changes(r, {c}) /\ Takes(r, {q.card.number})
<1> DEFINE q == req[r]
           c == q.id
<1>1. req'[r] = [pc |-> "idle"]
  BY Gone DEF Update, Done, TypeInv
<1>2. CASE ~(Live(contact, c) /\ Fits(q.card.number, c))
  BY <1>1, <1>2 DEF Update
<1>3. CASE Live(contact, c) /\ Fits(q.card.number, c)
  <2>1. /\ contact' = [contact EXCEPT ![c].card = q.card]
        /\ wanted' = [wanted EXCEPT ![c] = Applied(q.edit, @)]
        /\ overlapped' = IF r \in outdated THEN overlapped \cup {c} ELSE overlapped
        /\ renumbered' = IF q.card.number # contact[c].card.number THEN renumbered \cup {c} ELSE renumbered
        /\ Changes(r, {c}) /\ Takes(r, {q.card.number})
    BY <1>3 DEF Update
  <2>2. c \in Ids
    BY EditFields DEF Update, Editing, TypeInv
  <2>3. contact[c] = [state |-> "live", card |-> contact[c].card]
    BY <1>3, <2>2, ContactTypes DEF Live
  <2>4. /\ contact'[c] = [contact[c] EXCEPT !.card = q.card]
        /\ \A d \in Ids \ {c} : contact'[d] = contact[d]
        /\ wanted'[c] = Applied(q.edit, wanted[c])
        /\ \A d \in Ids \ {c} : wanted'[d] = wanted[d]
    BY <2>1, <2>2 DEF TypeInv, TypeOK
  <2>5. contact'[c] = [state |-> "live", card |-> q.card]
    BY <2>3, <2>4
  <2> QED BY <1>1, <1>3, <2>1, <2>2, <2>4, <2>5 DEF Update, Live
<1> QED BY <1>2, <1>3

LEMMA DeleteEffect ==
  ASSUME TypeInv, NEW r \in Requests, NEW ids, DeleteContacts(r, ids)
  PROVE  /\ req' = req /\ participant' = participant
         /\ UNCHANGED <<overlapped, renumbered, wanted>> /\ SameFor(outdated, r) /\ SameFor(beaten, r)
         /\ req[r].pc = "idle"
         /\ \A c \in Ids : /\ contact'[c].card = contact[c].card
                           /\ contact'[c].state = "none" <=> contact[c].state = "none"
                           /\ contact[c].state = "deleted" => contact'[c].state = "deleted"
<1>1. ASSUME NEW c \in Ids
      PROVE  /\ contact'[c].card = contact[c].card
             /\ contact'[c].state = "none" <=> contact[c].state = "none"
             /\ contact[c].state = "deleted" => contact'[c].state = "deleted"
  <2>1. contact'[c] = IF c \in ids /\ Live(contact, c) THEN [contact[c] EXCEPT !.state = "deleted"] ELSE contact[c]
    BY DEF DeleteContacts
  <2>2. contact[c] = [state |-> contact[c].state, card |-> contact[c].card]
    BY ContactTypes
  <2> QED BY <2>1, <2>2 DEF Live
<1> QED BY <1>1, StartsKeep DEF DeleteContacts

LEMMA BulkEffect ==
  ASSUME TypeInv, NEW r \in Requests, BulkCreate(r)
  PROVE  LET new == Range(req[r].keep) IN
         /\ req'[r] = [pc |-> "idle"] /\ participant' = participant
         /\ UNCHANGED <<outdated, overlapped, renumbered>>
         /\ \/ UNCHANGED <<contact, wanted, beaten>>
            \/ \E ids \in SUBSET Ids : \E of \in [ids -> new] :
                 /\ Takes(r, new)
                 /\ \A c \in ids : /\ contact[c].state = "none" /\ Fits(of[c], Absent)
                                   /\ contact'[c].state = "live" /\ contact'[c].card.number = of[c]
                                   /\ contact'[c].card = wanted'[c]
                 /\ \A c, d \in ids : c # d => of[c] # of[d]
                 /\ \A c \in Ids \ ids : contact'[c] = contact[c] /\ wanted'[c] = wanted[c]
<1> DEFINE q == req[r]
           new == Range(q.keep)
<1>1. req'[r] = [pc |-> "idle"] /\ participant' = participant /\ UNCHANGED <<outdated, overlapped, renumbered>>
  BY Gone DEF BulkCreate, Done, TypeInv
<1>2. CASE /\ \A n \in new : Fits(n, Absent)
           /\ \E name \in Names, ids \in kSubset(Len(q.keep), {c \in Ids : Spare(contact, c)}) :
                \E of \in Bijection(ids, new) : Imported(ids, name, of, q.group)
           /\ Takes(r, new)
  <2>1. PICK name \in Names, ids \in SUBSET {c \in Ids : Spare(contact, c)} :
          \E of \in Bijection(ids, new) : Imported(ids, name, of, q.group)
    BY <1>2 DEF kSubset
  <2>2. PICK of \in [ids -> new] : IsInjective(of) /\ Imported(ids, name, of, q.group)
    BY <2>1 DEF Bijection, Injection
  <2>3. \A c, d \in ids : c # d => of[c] # of[d]
    BY <2>2 DEF IsInjective
  <2>4. /\ contact' = [c \in Ids |-> IF c \in ids
              THEN [state |-> "live", card |-> [name |-> name, number |-> of[c], group |-> q.group]] ELSE contact[c]]
        /\ wanted' = [c \in Ids |-> IF c \in ids THEN [name |-> name, number |-> of[c], group |-> q.group] ELSE wanted[c]]
    BY <2>2 DEF Imported
  <2>5. ASSUME NEW c \in ids
        PROVE  /\ contact[c].state = "none" /\ Fits(of[c], Absent)
               /\ contact'[c].state = "live" /\ contact'[c].card.number = of[c]
               /\ contact'[c].card = wanted'[c]
    BY <1>2, <2>1, <2>4 DEF Spare
  <2>6. \A c \in Ids \ ids : contact'[c] = contact[c] /\ wanted'[c] = wanted[c]
    BY <2>4
  <2>7. ids \in SUBSET Ids
    OBVIOUS
  <2>8. Takes(r, new)
    BY <1>2
  <2> QED BY <1>1, <2>3, <2>5, <2>6, <2>7, <2>8
<1>3. CASE UNCHANGED <<contact, wanted, beaten>>
  BY <1>1, <1>3
<1> QED BY <1>2, <1>3, BulkCases

LEMMA MoveEffect ==
  ASSUME TypeInv, NEW r \in Requests, BulkAddToGroup(r)
  PROVE  /\ req'[r] = [pc |-> "idle"] /\ participant' = participant
         /\ UNCHANGED <<beaten, overlapped, renumbered>>
         /\ \E moved \in SUBSET Ids :
              /\ Changes(r, moved)
              /\ \A c \in Ids : /\ contact'[c].state = contact[c].state
                                /\ contact'[c].card.number = contact[c].card.number
                                /\ contact[c].card = wanted[c] => contact'[c].card = wanted'[c]
              /\ \A c \in Ids \ moved : contact'[c] = contact[c]
<1> DEFINE q == req[r]
           moved == {c \in q.ids : Live(contact, c) /\ Live(group, q.group)}
<1>1. /\ contact' = [c \in Ids |-> IF c \in moved THEN [contact[c] EXCEPT !.card.group = q.group] ELSE contact[c]]
      /\ wanted' = [c \in Ids |-> IF c \in moved THEN [wanted[c] EXCEPT !.group = q.group] ELSE wanted[c]]
      /\ Changes(r, moved)
  BY DEF BulkAddToGroup
<1>2. q.ids \in SUBSET Ids /\ q.group \in Groups
  BY RequestFields DEF BulkAddToGroup, TypeInv, TypeOK
<1>3. req'[r] = [pc |-> "idle"]
  BY Gone DEF BulkAddToGroup, Done, TypeInv
<1>4. ASSUME NEW c \in Ids
      PROVE  /\ contact'[c].state = contact[c].state
             /\ contact'[c].card.number = contact[c].card.number
             /\ contact[c].card = wanted[c] => contact'[c].card = wanted'[c]
  <2>1. CASE c \notin moved
    BY <1>1, <2>1
  <2>2. CASE c \in moved
    <3> DEFINE card == [contact[c].card EXCEPT !.group = q.group]
    <3>1. contact[c] = [state |-> contact[c].state, card |-> contact[c].card] /\ contact[c].card \in Card
      BY ContactTypes
    <3>2. card.number = contact[c].card.number
      BY <1>2, <3>1, GroupedCard
    <3>3. contact'[c] = [state |-> contact[c].state, card |-> card]
      BY <1>1, <2>2, <3>1
    <3>4. contact[c].card = wanted[c] => wanted'[c] = card
      BY <1>1, <2>2
    <3> HIDE DEF card
    <3> QED BY <3>2, <3>3, <3>4
  <2> QED BY <2>1, <2>2
<1>5. moved \in SUBSET Ids /\ \A c \in Ids \ moved : contact'[c] = contact[c]
  BY <1>1, <1>2
<1> HIDE DEF moved
<1> QED BY <1>1, <1>3, <1>4, <1>5 DEF BulkAddToGroup

\* No contact goes back to what it was before it was there, and whose number
\* changes is renumbered.
LEMMA ContactsStay ==
  ASSUME TypeInv, NEW r \in Requests, Keeps(r) \/ StoresContact(r)
  PROVE  /\ renumbered \in SUBSET renumbered'
         /\ \A c \in Ids : contact[c].state # "none" =>
              /\ contact'[c].state # "none"
              /\ contact'[c].card.number # contact[c].card.number => c \in renumbered'
<1>1. CASE Keeps(r)
  BY <1>1 DEF Keeps
<1>2. CASE Create(r)
  BY <1>2, CreateEffect
<1>3. CASE Update(r)
  <2> DEFINE q == req[r]
  <2>1. CASE UNCHANGED <<contact, history>>
    BY <2>1 DEF history
  <2>2. CASE /\ contact[q.id].state = "live" /\ contact'[q.id] = [state |-> "live", card |-> q.card]
             /\ \A d \in Ids \ {q.id} : contact'[d] = contact[d]
             /\ renumbered' = IF q.card.number # contact[q.id].card.number THEN renumbered \cup {q.id} ELSE renumbered
    BY <2>2
  <2> QED BY <1>3, <2>1, <2>2, UpdateEffect
<1>4. ASSUME NEW ids, DeleteContacts(r, ids)
      PROVE  /\ renumbered' = renumbered
             /\ \A c \in Ids : contact'[c].card = contact[c].card /\ (contact'[c].state = "none" <=> contact[c].state = "none")
  BY <1>4, DeleteEffect
<1>5. CASE BulkCreate(r)
  BY <1>5, BulkEffect
<1>6. CASE BulkAddToGroup(r)
  BY <1>6, MoveEffect
<1> QED BY <1>1, <1>2, <1>3, <1>4, <1>5, <1>6 DEF StoresContact

-----------------------------------------------------------------------------
\* Edits that are kept.

\* An edit that nothing overlapped is made from the card the contact has.
Fresh(r) == Editing(r) /\ req[r].id # Absent =>
  /\ contact[req[r].id].state # "none"
  /\ r \notin outdated => req[r].card = Applied(req[r].edit, contact[req[r].id].card)
EditsInv == EditsKept /\ \A r \in Requests : Fresh(r)

\* What a step leaves of the contact q edits.
Leaves(q, touched) ==
  /\ q \in outdated => q \in outdated'
  /\ Editing(q) /\ req[q].id \in touched => q \in outdated'
  /\ \A c \in Ids \ touched : contact'[c].card = contact[c].card
  /\ \A c \in Ids : contact[c].state # "none" => contact'[c].state # "none"

LEMMA FreshStays ==
  ASSUME TypeInv, NEW r \in Requests, Only(r), NEW q \in Requests \ {r}, Fresh(q), NEW touched, Leaves(q, touched)
  PROVE  Fresh(q)'
<1>1. req'[q] = req[q]
  BY DEF Only
<1>2. Editing(q) /\ req[q].id # Absent => req[q].id \in Ids
  BY EditFields DEF TypeInv
<1> QED BY <1>1, <1>2 DEF Fresh, Editing, Leaves

LEMMA IdleFresh ==
  ASSUME NEW r, req'[r].pc \notin {"group", "exists", "store"}
  PROVE  Fresh(r)'
  BY DEF Fresh, Editing

\* The checks of an edit keep the edit and its card.
LEMMA ChecksEffect ==
  ASSUME TypeInv, NEW r \in Requests, NEW id, NEW card, NEW edit, NEW passed,
         Checks(r, id, card, edit, passed)
  PROVE  /\ req'[r].id = id /\ req'[r].card = card /\ req'[r].edit = edit
         /\ req'[r].pc \in {"group", "exists", "store"}
         /\ req'[r].pc = "store" => edit.number = Absent \/ passed = "exists"
<1> DEFINE pc == IF edit.group # Absent /\ passed = "none" THEN "group"
                 ELSE IF edit.number # Absent /\ passed # "exists" THEN "exists" ELSE "store"
<1>1. pc \in {"group", "exists", "store"} /\ (pc = "store" => edit.number = Absent \/ passed = "exists")
  OBVIOUS
<1>2. req'[r] = [pc |-> pc, id |-> id, card |-> card, edit |-> edit]
  BY Gone DEF Checks, TypeInv
<1> HIDE DEF pc
<1> QED BY <1>1, <1>2

LEMMA KeepsFresh ==
  ASSUME TypeInv, EditsInv, NEW r \in Requests, Step(r), Keeps(r)
  PROVE  Fresh(r)'
<1>1. TypeOK /\ contact' = contact
  BY DEF TypeInv, Keeps
<1>2. ASSUME NEW edit \in Edits, CreateContact(r, edit) PROVE Fresh(r)'
  <2>1. req'[r].id = Absent
    BY <1>2, ChecksEffect DEF CreateContact
  <2> QED BY <2>1 DEF Fresh
<1>3. ASSUME NEW edit \in Edits, NEW c \in Ids, UpdateContact(r, c, edit) PROVE Fresh(r)'
  <2>1. /\ req'[r].id = c /\ req'[r].card = Applied(edit, contact[c].card) /\ req'[r].edit = edit
        /\ contact[c].state # "none"
    BY <1>3, ChecksEffect DEF UpdateContact, Found, Live
  <2> QED BY <1>1, <2>1 DEF Fresh
<1>4. CASE FindGroup(r) \/ ExistsByWhatsApp(r)
  <2>1. outdated' = outdated /\ Editing(r) /\ Fresh(r)
    BY <1>4 DEF FindGroup, ExistsByWhatsApp, history, Editing, EditsInv
  <2>2. CASE Done(r)
    <3>1. req'[r] = [pc |-> "idle"]
      BY <1>1, <2>2, Gone DEF Done
    <3> QED BY <3>1, IdleFresh
  <2>3. CASE \E passed : Checks(r, req[r].id, req[r].card, req[r].edit, passed)
    <3>1. req'[r].id = req[r].id /\ req'[r].card = req[r].card /\ req'[r].edit = req[r].edit
      BY <2>3, ChecksEffect
    <3> QED BY <1>1, <2>1, <3>1 DEF Fresh
  <2> QED BY <1>4, <2>2, <2>3 DEF FindGroup, ExistsByWhatsApp
<1>5. ASSUME NEW state, GoTo(r, state), state.pc \notin {"group", "exists", "store"} PROVE Fresh(r)'
  BY <1>1, <1>5, Gone, IdleFresh
<1>6. ASSUME req' = req, req[r].pc = "idle" PROVE Fresh(r)'
  BY <1>6, IdleFresh
<1>7. ASSUME Done(r) PROVE Fresh(r)'
  BY <1>5, <1>7 DEF Done
<1>8. CASE ContactRoutes(r)
  <2>1. ASSUME NEW ids, DeleteContacts(r, ids) PROVE Fresh(r)'
    BY <1>6, <2>1 DEF DeleteContacts, Starts
  <2>2. ASSUME NEW ids, NEW g, AddToGroup(r, ids, g) PROVE Fresh(r)'
    BY <1>5, <2>2 DEF AddToGroup
  <2>3. ASSUME NEW batch, NEW g, ImportContacts(r, batch, g) PROVE Fresh(r)'
    BY <1>5, <2>3 DEF ImportContacts
  <2> QED BY <1>2, <1>3, <1>8, <2>1, <2>2, <2>3 DEF ContactRoutes
<1>9. CASE GroupRoutes(r)
  BY <1>5, <1>6, <1>9 DEF GroupRoutes, CreateGroup, UpdateGroup, DeleteGroup, Starts
<1>10. CASE ParticipantRoutes(r)
  BY <1>5, <1>6, <1>10 DEF ParticipantRoutes, ImportFromGroup, AddParticipant, AddCustom, RemoveParticipant,
                           UpdateParticipant, Starts
<1>11. CASE Statements(r) \/ Fail(r)
  <2>1. ASSUME Scan(r) PROVE Fresh(r)'
    <3>1. \E left, keep, g : GoTo(r, [pc |-> "scan", left |-> left, keep |-> keep, group |-> g])
      BY <1>1, <2>1, ScanLists
    <3> QED BY <1>5, <3>1
  <2>2. ASSUME Join(r) PROVE Fresh(r)'
    <3>1. PICK s : GoTo(r, [req[r] EXCEPT !.left = @ \ {s}])
      BY <2>2 DEF Join
    <3>2. req[r] = [pc |-> "join", left |-> req[r].left]
      BY <1>1, <2>2, RequestFields DEF Join, TypeOK
    <3>3. [req[r] EXCEPT !.left = @ \ {s}].pc = "join"
      BY <3>2
    <3> QED BY <1>5, <3>1, <3>3
  <2> QED BY <1>4, <1>7, <1>11, <2>1, <2>2 DEF Statements, Create, Update, BulkCreate, BulkAddToGroup, InsertGroup,
                 StoreGroup, JoinEnds, Rename, Fail
<1> QED BY <1>8, <1>9, <1>10, <1>11 DEF Step

LEMMA EditsStep ==
  ASSUME TypeInv, EditsInv, [Next]_vars
  PROVE  EditsInv'
<1>1. CASE UNCHANGED vars
  BY <1>1 DEF EditsInv, EditsKept, Fresh, Editing, vars, rows, history
<1>2. SUFFICES ASSUME NEW r \in Requests, Step(r) PROVE EditsInv'
  BY <1>1 DEF Next, Step
<1>3. Only(r) /\ (Keeps(r) \/ StoresContact(r))
  BY <1>2, Effects
<1>4. /\ renumbered \in SUBSET renumbered'
      /\ \A c \in Ids : contact[c].state # "none" => contact'[c].state # "none"
  BY <1>3, ContactsStay
<1>5. CASE Keeps(r)
  <2>1. ASSUME NEW q \in Requests \ {r} PROVE Fresh(q)'
    <3>1. Fresh(q) /\ (q \in outdated => q \in outdated')
      BY <1>5 DEF EditsInv, Keeps, SameFor
    <3>2. Leaves(q, {})
      BY <1>4, <1>5, <3>1 DEF Keeps, Leaves
    <3> QED BY <1>3, <3>1, <3>2, FreshStays
  <2>2. EditsKept'
    BY <1>5 DEF Keeps, EditsInv, EditsKept
  <2> QED BY <1>2, <1>5, <2>1, <2>2, KeepsFresh DEF EditsInv
<1>6. CASE Create(r)
  <2>1. /\ Fresh(r)' /\ outdated' = outdated /\ overlapped' = overlapped
    <3>1. req'[r] = [pc |-> "idle"] /\ outdated' = outdated /\ overlapped' = overlapped
      BY <1>6, CreateEffect
    <3> QED BY <3>1, IdleFresh
  <2>2. CASE UNCHANGED <<contact, wanted>>
    <3>1. \A q \in Requests \ {r} : Leaves(q, {})
      BY <1>4, <2>1, <2>2 DEF Leaves
    <3>2. \A q \in Requests \ {r} : Fresh(q)'
      BY <1>3, <3>1, FreshStays DEF EditsInv
    <3> QED BY <2>1, <2>2, <3>2 DEF EditsInv, EditsKept
  <2>3. CASE \E c \in Ids : /\ contact[c].state = "none"
                            /\ contact'[c] = [state |-> "live", card |-> req[r].card] /\ wanted'[c] = req[r].card
                            /\ \A d \in Ids \ {c} : contact'[d] = contact[d] /\ wanted'[d] = wanted[d]
    <3>1. PICK c \in Ids : /\ contact[c].state = "none"
                           /\ contact'[c] = [state |-> "live", card |-> req[r].card] /\ wanted'[c] = req[r].card
                           /\ \A d \in Ids \ {c} : contact'[d] = contact[d] /\ wanted'[d] = wanted[d]
      BY <2>3
    <3>2. ASSUME NEW q \in Requests \ {r} PROVE Fresh(q)'
      <4>1. Fresh(q) /\ req'[q] = req[q]
        BY <1>3 DEF EditsInv, Only
      <4>2. Editing(q) /\ req[q].id # Absent => req[q].id \in Ids \ {c}
        BY <3>1, <4>1, EditFields DEF TypeInv, Fresh
      <4> QED BY <1>4, <2>1, <3>1, <4>1, <4>2 DEF Fresh, Editing
    <3>3. EditsKept'
      BY <2>1, <3>1 DEF EditsInv, EditsKept
    <3> QED BY <2>1, <3>2, <3>3 DEF EditsInv
  <2> QED BY <1>6, <2>2, <2>3, CreateEffect
<1>7. CASE Update(r)
  <2> DEFINE q == req[r]
             c == q.id
  <2>1. Fresh(r)'
    <3>1. req'[r] = [pc |-> "idle"]
      BY <1>7, UpdateEffect
    <3> QED BY <3>1, IdleFresh
  <2>2. CASE UNCHANGED <<contact, history>>
    <3>1. outdated' = outdated /\ overlapped' = overlapped /\ wanted' = wanted
      BY <2>2 DEF history
    <3>2. \A o \in Requests \ {r} : Leaves(o, {})
      BY <1>4, <2>2, <3>1 DEF Leaves
    <3>3. \A o \in Requests \ {r} : Fresh(o)'
      BY <1>3, <3>2, FreshStays DEF EditsInv
    <3> QED BY <2>1, <2>2, <3>1, <3>3 DEF EditsInv, EditsKept
  <2>3. CASE /\ c \in Ids /\ contact[c].state = "live"
             /\ contact'[c] = [state |-> "live", card |-> q.card] /\ wanted'[c] = Applied(q.edit, wanted[c])
             /\ \A d \in Ids \ {c} : contact'[d] = contact[d] /\ wanted'[d] = wanted[d]
             /\ overlapped' = IF r \in outdated THEN overlapped \cup {c} ELSE overlapped
             /\ Changes(r, {c})
    <3>1. ASSUME NEW o \in Requests \ {r} PROVE Fresh(o)'
      <4>1. (o \in outdated => o \in outdated') /\ (Editing(o) /\ req[o].id \in {c} => o \in outdated')
        BY <2>3 DEF Changes
      <4>2. Leaves(o, {c})
        BY <1>4, <2>3, <4>1 DEF Leaves
      <4> QED BY <1>3, <4>2, FreshStays DEF EditsInv
    <3>2. EditsKept'
      <4>1. ASSUME c \notin overlapped' PROVE contact'[c].card = wanted'[c]
        <5>1. r \notin outdated /\ c \notin overlapped
          BY <2>3, <4>1
        <5>2. Editing(r) /\ c # Absent
          BY <1>7 DEF Update, Editing
        <5>3. q.card = Applied(q.edit, contact[c].card)
          BY <5>1, <5>2 DEF EditsInv, Fresh
        <5>4. contact[c].card = wanted[c]
          BY <2>3, <5>1 DEF EditsInv, EditsKept
        <5> HIDE DEF q, c
        <5> QED BY <2>3, <5>3, <5>4
      <4>2. ASSUME NEW d \in Ids \ {c}, d \notin overlapped' PROVE contact'[d].card = wanted'[d]
        BY <2>3, <4>2 DEF EditsInv, EditsKept
      <4> QED BY <4>1, <4>2 DEF EditsKept
    <3> QED BY <2>1, <3>1, <3>2 DEF EditsInv
  <2> QED BY <1>7, <2>2, <2>3, UpdateEffect
<1>8. ASSUME NEW ids, DeleteContacts(r, ids) PROVE EditsInv'
  <2>1. /\ \A c \in Ids : contact'[c].card = contact[c].card
        /\ overlapped' = overlapped /\ wanted' = wanted /\ SameFor(outdated, r)
        /\ req' = req /\ req[r].pc = "idle"
    BY <1>8, DeleteEffect
  <2>2. Fresh(r)'
    BY <2>1, IdleFresh
  <2>3. ASSUME NEW q \in Requests \ {r} PROVE Fresh(q)'
    <3>1. Leaves(q, {})
      BY <1>4, <2>1 DEF Leaves, SameFor
    <3> QED BY <1>3, <3>1, FreshStays DEF EditsInv
  <2> QED BY <2>1, <2>2, <2>3 DEF EditsInv, EditsKept
<1>9. CASE BulkCreate(r)
  <2>1. /\ Fresh(r)' /\ outdated' = outdated /\ overlapped' = overlapped
    BY <1>9, BulkEffect, IdleFresh
  <2>2. PICK ids \in SUBSET Ids :
          /\ \A c \in ids : contact[c].state = "none" /\ contact'[c].card = wanted'[c]
          /\ \A c \in Ids \ ids : contact'[c] = contact[c] /\ wanted'[c] = wanted[c]
    <3>1. CASE UNCHANGED <<contact, wanted, beaten>>
      <4>1. {} \in SUBSET Ids /\ \A c \in Ids \ {} : contact'[c] = contact[c] /\ wanted'[c] = wanted[c]
        BY <3>1
      <4> QED BY <4>1
    <3>2. CASE \E ids \in SUBSET Ids :
                 /\ \A c \in ids : contact[c].state = "none" /\ contact'[c].card = wanted'[c]
                 /\ \A c \in Ids \ ids : contact'[c] = contact[c] /\ wanted'[c] = wanted[c]
      BY <3>2
    <3> QED BY <1>9, <3>1, <3>2, BulkEffect
  <2>3. ASSUME NEW q \in Requests \ {r} PROVE Fresh(q)'
    <3>1. Fresh(q) /\ req'[q] = req[q]
      BY <1>3 DEF EditsInv, Only
    <3>2. Editing(q) /\ req[q].id # Absent => req[q].id \in Ids \ ids
      BY <2>2, <3>1, EditFields DEF TypeInv, Fresh
    <3> QED BY <1>4, <2>1, <2>2, <3>1, <3>2 DEF Fresh, Editing
  <2>4. EditsKept'
    BY <2>1, <2>2 DEF EditsInv, EditsKept
  <2> QED BY <2>1, <2>3, <2>4 DEF EditsInv
<1>10. CASE BulkAddToGroup(r)
  <2>1. Fresh(r)' /\ overlapped' = overlapped
    BY <1>10, MoveEffect, IdleFresh
  <2>2. PICK moved \in SUBSET Ids :
          /\ Changes(r, moved)
          /\ \A c \in Ids : contact[c].card = wanted[c] => contact'[c].card = wanted'[c]
          /\ \A c \in Ids \ moved : contact'[c] = contact[c]
    BY <1>10, MoveEffect
  <2>3. ASSUME NEW q \in Requests \ {r} PROVE Fresh(q)'
    <3>1. (q \in outdated => q \in outdated') /\ (Editing(q) /\ req[q].id \in moved => q \in outdated')
      BY <2>2 DEF Changes
    <3>2. Leaves(q, moved)
      BY <1>4, <2>2, <3>1 DEF Leaves
    <3> QED BY <1>3, <3>2, FreshStays DEF EditsInv
  <2>4. EditsKept'
    BY <2>1, <2>2 DEF EditsInv, EditsKept
  <2> QED BY <2>1, <2>3, <2>4 DEF EditsInv
<1> QED BY <1>3, <1>5, <1>6, <1>7, <1>8, <1>9, <1>10 DEF StoresContact

\* No edit or bulk move that was stored is lost, until a request stores a
\* contact that another one changed since it was read.
THEOREM EditsStayKept == Spec => []EditsKept
<1>1. Init => TypeInv /\ EditsInv
  <2>1. Init => EditsInv
    BY DEF Init, EditsInv, EditsKept, Fresh, Editing
  <2> QED BY <2>1, InitTypes
<1>2. TypeInv /\ EditsInv /\ [Next]_vars => (TypeInv /\ EditsInv)'
  BY TypeStep, EditsStep
<1>3. EditsInv => EditsKept
  BY DEF EditsInv
<1> QED BY <1>1, <1>2, <1>3, PTL DEF Spec

-----------------------------------------------------------------------------
\* Numbers that were looked up.

\* Every number is one contact's, deleted ones included.
NumbersUnique == \A c, d \in Ids :
  c # d /\ contact[c].state # "none" /\ contact[d].state # "none"
    => contact[c].card.number # contact[d].card.number

\* Only r's own contact holds n, or contacts that are deleted.
Clear(r, n) == \A c \in Ids : Holds(c, n) => contact[c].state = "deleted" \/ (Editing(r) /\ c = req[r].id)

\* A request whose number has been looked up, or was its contact's from the start.
Checked(r) == Editing(r) => req[r].pc = "store" \/ req[r].edit.number = Absent
AllClear(r) == r \notin beaten /\ Checked(r) => \A n \in Pending(r) : Clear(r, n)
NumbersInv == NumbersUnique /\ \A r \in Requests : AllClear(r)

\* What a step leaves of the numbers q is to store.
Spares(q) ==
  /\ q \notin beaten' => q \notin beaten
  /\ \A c \in Ids : contact[c].state = "deleted" => contact'[c].state = "deleted"
  /\ q \notin beaten' => \A n \in Pending(q), c \in Ids : Holds(c, n)' => Holds(c, n)

LEMMA ClearStays ==
  ASSUME NEW r \in Requests, Only(r), NEW q \in Requests \ {r}, AllClear(q), Spares(q)
  PROVE  AllClear(q)'
<1>1. req'[q] = req[q]
  BY DEF Only
<1>2. Editing(q)' = Editing(q) /\ Pending(q)' = Pending(q) /\ Checked(q)' = Checked(q)
  BY <1>1 DEF Editing, Pending, Checked
<1>3. ASSUME q \notin beaten', Checked(q)', NEW n \in Pending(q)', NEW c \in Ids, Holds(c, n)'
      PROVE  contact'[c].state = "deleted" \/ (Editing(q)' /\ c = req'[q].id)
  <2>1. Clear(q, n) /\ Holds(c, n)
    BY <1>2, <1>3 DEF AllClear, Spares
  <2> QED BY <1>1, <1>2, <2>1 DEF Clear, Spares
<1> QED BY <1>3 DEF AllClear, Clear

\* What is to be stored once a request has gone elsewhere.
LEMMA NonePending ==
  ASSUME NEW r, req'[r].pc \notin {"group", "exists", "store", "scan"}
  PROVE  AllClear(r)'
  BY DEF AllClear, Pending, Editing

LEMMA KeepsClear ==
  ASSUME TypeInv, NumbersInv, NEW r \in Requests, Step(r), Keeps(r)
  PROVE  AllClear(r)'
<1>1. TypeOK /\ contact' = contact /\ Absent \notin Ids
  BY ContactsAssumption DEF TypeInv, Keeps
<1>2. \A n, c : Holds(c, n)' = Holds(c, n)
  BY <1>1 DEF Holds
<1>3. ASSUME NEW edit \in Edits, CreateContact(r, edit) PROVE AllClear(r)'
  <2>1. req'[r].edit = edit /\ req'[r].pc \in {"group", "exists", "store"} /\ req'[r].pc # "store" /\ edit.number # Absent
    BY <1>3, ChecksEffect DEF CreateContact
  <2> QED BY <2>1 DEF AllClear, Checked, Editing
<1>4. ASSUME NEW edit \in Edits, NEW c \in Ids, UpdateContact(r, c, edit) PROVE AllClear(r)'
  <2>1. /\ req'[r].id = c /\ req'[r].card = Applied(edit, contact[c].card) /\ req'[r].edit = edit
        /\ req'[r].pc \in {"group", "exists", "store"} /\ (req'[r].pc = "store" => edit.number = Absent)
        /\ contact[c].state = "live"
    BY <1>4, ChecksEffect DEF UpdateContact, Found, Live
  <2>2. edit.number = Absent => req'[r].card.number = contact[c].card.number
    <3>1. edit \in Edit /\ contact[c].card \in Card
      BY ContactTypes, ContactsAssumption
    <3> QED BY <2>1, <3>1, AppliedCard
  <2>3. Editing(r)' /\ Pending(r)' = {req'[r].card.number}
    BY <2>1 DEF Editing, Pending
  <2>4. ASSUME Checked(r)', NEW n \in Pending(r)' PROVE Clear(r, n)'
    <3>1. n = contact[c].card.number
      BY <2>1, <2>2, <2>3, <2>4 DEF Checked
    <3>2. \A d \in Ids : Holds(d, n) => d = c
      BY <2>1, <3>1 DEF Holds, NumbersInv, NumbersUnique
    <3> QED BY <1>2, <2>1, <2>3, <3>2 DEF Clear
  <2> QED BY <2>4 DEF AllClear
<1>5. ASSUME NEW state, GoTo(r, state), state.pc \notin {"group", "exists", "store", "scan"} PROVE AllClear(r)'
  BY <1>1, <1>5, Gone, NonePending
<1>6. ASSUME Done(r) PROVE AllClear(r)'
  BY <1>5, <1>6 DEF Done
<1>7. CASE FindGroup(r)
  <2>1. CASE Checks(r, req[r].id, req[r].card, req[r].edit, "group")
    <3>1. /\ req'[r].id = req[r].id /\ req'[r].card = req[r].card /\ req'[r].edit = req[r].edit
          /\ req'[r].pc \in {"group", "exists", "store"} /\ (req'[r].pc = "store" => req[r].edit.number = Absent)
      BY <2>1, ChecksEffect
    <3>2. Editing(r) /\ Editing(r)' /\ Pending(r)' = Pending(r) /\ (Checked(r)' => Checked(r)) /\ beaten' = beaten
      BY <1>7, <3>1 DEF FindGroup, Editing, Pending, Checked, history
    <3>3. \A n : Clear(r, n)' = Clear(r, n)
      BY <1>1, <1>2, <3>1, <3>2 DEF Clear
    <3> QED BY <3>2, <3>3 DEF AllClear, NumbersInv
  <2> QED BY <1>6, <1>7, <2>1 DEF FindGroup
<1>8. CASE ExistsByWhatsApp(r)
  <2>1. CASE ~Exists(req[r].card.number, req[r].id) /\ Checks(r, req[r].id, req[r].card, req[r].edit, "exists")
    <3>1. /\ req'[r].id = req[r].id /\ req'[r].card = req[r].card /\ req'[r].pc \in {"group", "exists", "store"}
      BY <2>1, ChecksEffect
    <3>2. Editing(r)' /\ Pending(r)' = {req[r].card.number}
      BY <3>1 DEF Editing, Pending
    <3>3. ASSUME NEW c \in Ids, Holds(c, req[r].card.number), c # req[r].id
          PROVE  contact[c].state = "deleted"
      BY <2>1, <3>3, ContactTypes DEF Exists, Holds, Live, States
    <3>4. ASSUME NEW n \in Pending(r)' PROVE Clear(r, n)'
      BY <1>1, <1>2, <3>1, <3>2, <3>3, <3>4 DEF Clear
    <3> QED BY <3>4 DEF AllClear
  <2> QED BY <1>6, <1>8, <2>1 DEF ExistsByWhatsApp
<1>9. CASE Scan(r)
  <2> DEFINE q == req[r]
             n == Head(q.left)
  <2>1. PICK left, keep, g :
          /\ GoTo(r, [pc |-> "scan", left |-> left, keep |-> keep, group |-> g])
          /\ keep = q.keep \/ (~Exists(n, Absent) /\ keep = Append(q.keep, n))
          /\ q.keep \in Seq(Numbers) /\ n \in Numbers
    BY <1>1, <1>9, ScanLists
  <2>2. q.pc = "scan" /\ ~Editing(r) /\ beaten' = beaten
    BY <1>9 DEF Scan, Editing, history
  <2>3. req'[r] = [pc |-> "scan", left |-> left, keep |-> keep, group |-> g]
    BY <1>1, <2>1, Gone
  <2>4. ~Editing(r)' /\ Pending(r)' = Range(keep) /\ Pending(r) = Range(q.keep) /\ Checked(r)
    BY <2>2, <2>3 DEF Editing, Pending, Checked
  <2>5. Range(keep) \in SUBSET (Range(q.keep) \cup (IF Exists(n, Absent) THEN {} ELSE {n}))
    <3>1. CASE keep = q.keep
      BY <3>1
    <3>2. CASE ~Exists(n, Absent) /\ keep = Append(q.keep, n)
      BY <2>1, <3>2 DEF Range
    <3> QED BY <2>1, <3>1, <3>2
  <2>6. ASSUME ~Exists(n, Absent) PROVE Clear(r, n)
    BY <1>1, <2>6, ContactTypes DEF Exists, Clear, Holds, Live, States
  <2>7. \A m : Clear(r, m) => Clear(r, m)'
    BY <1>1, <1>2, <2>2 DEF Clear
  <2> HIDE DEF n, q
  <2>8. ASSUME r \notin beaten', NEW m \in Pending(r)' PROVE Clear(r, m)'
    <3>1. r \notin beaten /\ Checked(r)
      BY <2>2, <2>4, <2>8
    <3>2. CASE m \in Pending(r)
      BY <2>7, <3>1, <3>2 DEF NumbersInv, AllClear
    <3>3. CASE ~Exists(n, Absent) /\ m = n
      BY <2>6, <2>7, <3>3
    <3> QED BY <2>4, <2>5, <2>8, <3>2, <3>3
  <2> QED BY <2>8 DEF AllClear
<1>10. ASSUME req' = req, req[r].pc = "idle" PROVE AllClear(r)'
  BY <1>10, NonePending
<1>11. CASE ContactRoutes(r)
  <2>1. ASSUME NEW ids, DeleteContacts(r, ids) PROVE AllClear(r)'
    BY <1>10, <2>1 DEF DeleteContacts, Starts
  <2>2. ASSUME NEW ids, NEW g, AddToGroup(r, ids, g) PROVE AllClear(r)'
    BY <1>5, <2>2 DEF AddToGroup
  <2>3. ASSUME NEW batch, NEW g, ImportContacts(r, batch, g) PROVE AllClear(r)'
    <3>1. req'[r] = [pc |-> "scan", left |-> batch, keep |-> <<>>, group |-> g]
      BY <1>1, <2>3, Gone DEF ImportContacts
    <3>2. Pending(r)' = Range(<<>>)
      BY <3>1 DEF Pending, Editing
    <3> QED BY <3>2 DEF AllClear, Range
  <2> QED BY <1>3, <1>4, <1>11, <2>1, <2>2, <2>3 DEF ContactRoutes
<1>12. CASE GroupRoutes(r)
  BY <1>5, <1>10, <1>12 DEF GroupRoutes, CreateGroup, UpdateGroup, DeleteGroup, Starts
<1>13. CASE ParticipantRoutes(r)
  BY <1>5, <1>10, <1>13 DEF ParticipantRoutes, ImportFromGroup, AddParticipant, AddCustom, RemoveParticipant,
                            UpdateParticipant, Starts
<1>14. CASE Join(r)
  <2>1. PICK s : GoTo(r, [req[r] EXCEPT !.left = @ \ {s}])
    BY <1>14 DEF Join
  <2>2. req[r] = [pc |-> "join", left |-> req[r].left]
    BY <1>1, <1>14, RequestFields DEF Join, TypeOK
  <2>3. [req[r] EXCEPT !.left = @ \ {s}].pc = "join"
    BY <2>2
  <2> QED BY <1>5, <2>1, <2>3
<1> QED BY <1>6, <1>7, <1>8, <1>9, <1>11, <1>12, <1>13, <1>14
        DEF Step, Statements, Create, Update, BulkCreate, BulkAddToGroup, InsertGroup, StoreGroup, JoinEnds, Rename, Fail

\* A number that is given to contacts is nobody else's, and is marked with
\* every request that is to store it.
LEMMA NumbersStep ==
  ASSUME TypeInv, NumbersInv, [Next]_vars
  PROVE  NumbersInv'
<1>1. CASE UNCHANGED vars
  BY <1>1 DEF NumbersInv, NumbersUnique, AllClear, Checked, Clear, Pending, Editing, Holds, vars, rows, history
<1>2. SUFFICES ASSUME NEW r \in Requests, Step(r) PROVE NumbersInv'
  BY <1>1 DEF Next, Step
<1>3. Only(r) /\ (Keeps(r) \/ StoresContact(r))
  BY <1>2, Effects
<1>4. SUFFICES NumbersUnique' /\ AllClear(r)' /\ \A q \in Requests \ {r} : Spares(q)
  BY <1>3, ClearStays DEF NumbersInv
<1>5. CASE Keeps(r)
  <2>1. NumbersUnique'
    BY <1>5 DEF Keeps, NumbersInv, NumbersUnique
  <2>2. \A q \in Requests \ {r} : Spares(q)
    BY <1>5 DEF Keeps, SameFor, Spares, Holds
  <2> QED BY <1>2, <1>5, <2>1, <2>2, KeepsClear
<1>6. ASSUME req'[r] = [pc |-> "idle"] PROVE AllClear(r)'
  BY <1>6, NonePending
<1>7. CASE Create(r)
  <2>1. req'[r] = [pc |-> "idle"]
    BY <1>7, CreateEffect
  <2>2. CASE UNCHANGED <<contact, wanted, beaten>>
    BY <1>6, <2>1, <2>2 DEF NumbersInv, NumbersUnique, Spares, Holds
  <2>3. CASE \E c \in Ids :
               /\ Fits(req[r].card.number, Absent) /\ Takes(r, {req[r].card.number}) /\ contact[c].state = "none"
               /\ contact'[c] = [state |-> "live", card |-> req[r].card]
               /\ \A d \in Ids \ {c} : contact'[d] = contact[d]
    <3>1. PICK c \in Ids :
               /\ Fits(req[r].card.number, Absent) /\ Takes(r, {req[r].card.number}) /\ contact[c].state = "none"
               /\ contact'[c] = [state |-> "live", card |-> req[r].card]
               /\ \A d \in Ids \ {c} : contact'[d] = contact[d]
      BY <2>3
    <3>2. NumbersUnique'
      BY <3>1, ContactsAssumption DEF NumbersInv, NumbersUnique, Fits, Holds
    <3>3. \A q \in Requests \ {r} : Spares(q)
      BY <3>1 DEF Spares, Takes, Holds
    <3> QED BY <1>6, <2>1, <3>2, <3>3
  <2> QED BY <1>7, <2>2, <2>3, CreateEffect
<1>8. CASE Update(r)
  <2> DEFINE c == req[r].id
  <2>1. req'[r] = [pc |-> "idle"]
    BY <1>8, UpdateEffect
  <2>2. CASE UNCHANGED <<contact, history>>
    BY <1>6, <2>1, <2>2 DEF NumbersInv, NumbersUnique, Spares, Holds, history
  <2>3. CASE /\ c \in Ids /\ contact[c].state = "live" /\ Fits(req[r].card.number, c)
             /\ contact'[c] = [state |-> "live", card |-> req[r].card]
             /\ \A d \in Ids \ {c} : contact'[d] = contact[d]
             /\ Takes(r, {req[r].card.number})
    <3>1. NumbersUnique'
      BY <2>3 DEF NumbersInv, NumbersUnique, Fits, Holds
    <3>2. \A q \in Requests \ {r} : Spares(q)
      BY <2>3 DEF Spares, Takes, Holds
    <3> QED BY <1>6, <2>1, <3>1, <3>2
  <2> QED BY <1>8, <2>2, <2>3, UpdateEffect
<1>9. ASSUME NEW ids, DeleteContacts(r, ids) PROVE NumbersUnique' /\ AllClear(r)' /\ \A q \in Requests \ {r} : Spares(q)
  <2>1. /\ req' = req /\ req[r].pc = "idle" /\ SameFor(beaten, r)
        /\ \A c \in Ids : /\ contact'[c].card = contact[c].card
                          /\ contact'[c].state = "none" <=> contact[c].state = "none"
                          /\ contact[c].state = "deleted" => contact'[c].state = "deleted"
    BY <1>9, DeleteEffect
  <2>2. NumbersUnique'
    BY <2>1 DEF NumbersInv, NumbersUnique
  <2>3. \A q \in Requests \ {r} : Spares(q)
    BY <2>1 DEF Spares, Holds, SameFor
  <2> QED BY <2>1, <2>2, <2>3, NonePending
<1>10. CASE BulkCreate(r)
  <2> DEFINE new == Range(req[r].keep)
  <2>1. req'[r] = [pc |-> "idle"]
    BY <1>10, BulkEffect
  <2>2. CASE UNCHANGED <<contact, wanted, beaten>>
    BY <1>6, <2>1, <2>2 DEF NumbersInv, NumbersUnique, Spares, Holds
  <2>3. CASE \E ids \in SUBSET Ids : \E of \in [ids -> new] :
               /\ Takes(r, new)
               /\ \A c \in ids : /\ contact[c].state = "none" /\ Fits(of[c], Absent)
                                 /\ contact'[c].state = "live" /\ contact'[c].card.number = of[c]
                                 /\ contact'[c].card = wanted'[c]
               /\ \A c, d \in ids : c # d => of[c] # of[d]
               /\ \A c \in Ids \ ids : contact'[c] = contact[c] /\ wanted'[c] = wanted[c]
    <3>1. PICK ids \in SUBSET Ids : \E of \in [ids -> new] :
               /\ Takes(r, new)
               /\ \A c \in ids : /\ contact[c].state = "none" /\ Fits(of[c], Absent)
                                 /\ contact'[c].card.number = of[c] /\ contact'[c].state = "live"
               /\ \A c, d \in ids : c # d => of[c] # of[d]
               /\ \A c \in Ids \ ids : contact'[c] = contact[c]
      BY <2>3
    <3>2. PICK of \in [ids -> new] :
               /\ Takes(r, new)
               /\ \A c \in ids : /\ contact[c].state = "none" /\ Fits(of[c], Absent)
                                 /\ contact'[c].card.number = of[c] /\ contact'[c].state = "live"
               /\ \A c, d \in ids : c # d => of[c] # of[d]
               /\ \A c \in Ids \ ids : contact'[c] = contact[c]
      BY <3>1
    <3> HIDE DEF new
    <3>3. \A c \in ids, d \in Ids : Holds(d, of[c]) => FALSE
      BY <3>2, ContactsAssumption DEF Fits
    <3>4. NumbersUnique'
      BY <3>2, <3>3 DEF NumbersInv, NumbersUnique, Holds
    <3>5. \A c \in ids : of[c] \in new
      BY <3>2
    <3>6. \A q \in Requests \ {r} : Spares(q)
      BY <3>2, <3>5 DEF Spares, Takes, Holds
    <3> QED BY <1>6, <2>1, <3>4, <3>6
  <2> QED BY <1>10, <2>2, <2>3, BulkEffect
<1>11. CASE BulkAddToGroup(r)
  <2>1. /\ req'[r] = [pc |-> "idle"] /\ beaten' = beaten
        /\ \A c \in Ids : contact'[c].state = contact[c].state /\ contact'[c].card.number = contact[c].card.number
    BY <1>11, MoveEffect
  <2>2. NumbersUnique'
    BY <2>1 DEF NumbersInv, NumbersUnique
  <2>3. \A q \in Requests \ {r} : Spares(q)
    BY <2>1 DEF Spares, Holds
  <2> QED BY <1>6, <2>1, <2>2, <2>3
<1> QED BY <1>3, <1>5, <1>7, <1>8, <1>9, <1>10, <1>11 DEF StoresContact

\* A number that passed its check can be stored, unless it was given to
\* another contact since or a deleted one holds it.
THEOREM CheckedNumbersStayFit == Spec => []CheckedNumbersFit
<1>1. Init => TypeInv /\ NumbersInv
  <2>1. Init => NumbersInv
    BY DEF Init, NumbersInv, NumbersUnique, AllClear, Pending, Editing
  <2> QED BY <2>1, InitTypes
<1>2. TypeInv /\ NumbersInv /\ [Next]_vars => (TypeInv /\ NumbersInv)'
  BY TypeStep, NumbersStep
<1>3. NumbersInv => CheckedNumbersFit
  BY DEF NumbersInv, AllClear, CheckedNumbersFit, Stores, Checked, Clear
<1> QED BY <1>1, <1>2, <1>3, PTL DEF Spec

-----------------------------------------------------------------------------
\* One participant to a contact.

\* A participant or a snapshot of a contact that is there has the number the
\* contact has, until that number is changed.
Carried(x, contacts, changed) == x.contact # Absent =>
  /\ contacts[x.contact].state # "none"
  /\ x.contact \notin changed => x.number = contacts[x.contact].card.number

SeatOK(p) == Live(participant, p) => Carried(participant[p], contact, renumbered)
JoinOK(r) == req[r].pc = "join" => \A s \in req[r].left : Carried(s, contact, renumbered)
RenameOK(r) == req[r].pc = "rename" => ~Spare(participant, req[r].participant) /\ IsCustom(req[r].participant)
NumbersApart == \A p, o \in Participants :
  Live(participant, p) /\ Live(participant, o) /\ p # o => participant[p].number # participant[o].number

ParticipantsInv ==
  /\ \A p \in Participants : SeatOK(p)
  /\ \A r \in Requests : JoinOK(r) /\ RenameOK(r)
  /\ NumbersApart

LEMMA CarriedStays ==
  ASSUME TypeInv, NEW r \in Requests, Keeps(r) \/ StoresContact(r)
  PROVE  \A x : x.contact \in Ids \cup {Absent} /\ Carried(x, contact, renumbered) => Carried(x, contact', renumbered')
  BY ContactsStay DEF Carried

LEMMA SnapshotCarried ==
  ASSUME NEW c \in Ids, Live(contact, c)
  PROVE  Carried(SnapshotOf(c), contact, renumbered)
  BY DEF SnapshotOf, Carried, Live

\* A step changes one participant at most: it is given a number nobody in the
\* session has, and stays whose it is.
Seated(p) ==
  /\ \A o \in Participants \ {p} : participant'[o] = participant[o]
  /\ participant'[p].state = "live" =>
       Free(participant'[p].number, p) /\ Carried(participant'[p], contact, renumbered)
  /\ participant[p].state # "none" =>
       participant'[p].state # "none" /\ participant'[p].contact = participant[p].contact

LEMMA SeatTaken ==
  ASSUME TypeInv, NEW p \in Participants, Spare(participant, p), NEW c, NEW n, Free(n, p), Joined(p, c, n),
         Carried([contact |-> c, number |-> n], contact, renumbered)
  PROVE  Seated(p)
<1>1. participant' = [participant EXCEPT ![p] = [state |-> "live", contact |-> c, number |-> n]]
  BY DEF Joined
<1>2. /\ participant'[p] = [state |-> "live", contact |-> c, number |-> n]
      /\ \A o \in Participants \ {p} : participant'[o] = participant[o]
  BY <1>1 DEF TypeInv, TypeOK
<1>3. Carried(participant'[p], contact, renumbered)
  BY <1>2 DEF Carried
<1> QED BY <1>2, <1>3 DEF Seated, Spare

LEMMA SeatTypes ==
  ASSUME TypeInv, NEW p \in Participants
  PROVE  /\ participant[p].contact \in Ids \cup {Absent}
         /\ participant[p] = [state |-> participant[p].state, contact |-> participant[p].contact,
                              number |-> participant[p].number]
  BY DEF TypeInv, TypeOK

LEMMA SeatsStep ==
  ASSUME TypeInv, ParticipantsInv, NEW r \in Requests, Step(r)
  PROVE  \/ participant' = participant
         \/ contact' = contact /\ renumbered' = renumbered /\ \E p \in Participants : Seated(p)
<1>1. TypeOK
  BY DEF TypeInv
<1>2. ASSUME NEW n \in Numbers, AddCustom(r, n)
      PROVE  contact' = contact /\ renumbered' = renumbered /\ \E p \in Participants : Seated(p)
  <2>1. Carried([contact |-> Absent, number |-> n], contact, renumbered)
    BY DEF Carried
  <2> QED BY <1>2, <2>1, SeatTaken DEF AddCustom, Starts
<1>3. ASSUME NEW p \in Participants, RemoveParticipant(r, p)
      PROVE  contact' = contact /\ renumbered' = renumbered /\ Seated(p)
  <2>1. /\ participant'[p] = [participant[p] EXCEPT !.state = "deleted"]
        /\ \A o \in Participants \ {p} : participant'[o] = participant[o]
    BY <1>1, <1>3 DEF RemoveParticipant, TypeOK
  <2>2. participant'[p].state = "deleted" /\ participant'[p].contact = participant[p].contact
    BY <2>1, SeatTypes
  <2> QED BY <1>3, <2>1, <2>2 DEF Seated, RemoveParticipant, Starts
<1>4. CASE Join(r)
  <2>1. PICK s \in req[r].left :
          \/ \E p \in Participants : Spare(participant, p) /\ Free(s.number, p) /\ Joined(p, s.contact, s.number)
          \/ UNCHANGED participant
    BY <1>4 DEF Join
  <2>2. contact' = contact /\ renumbered' = renumbered
    BY <1>4 DEF Join, history
  <2>3. Carried([contact |-> s.contact, number |-> s.number], contact, renumbered)
    BY <1>4, <2>1 DEF Join, ParticipantsInv, JoinOK, Carried
  <2> QED BY <2>1, <2>2, <2>3, SeatTaken
<1>5. CASE Rename(r)
  <2> DEFINE p == req[r].participant
             n == req[r].number
  <2>1. CASE Live(participant, p) /\ Free(n, p)
    <3>1. p \in Participants /\ IsCustom(p)
      BY <1>1, <1>5, <2>1, RequestFields DEF Rename, TypeOK, ParticipantsInv, RenameOK
    <3>2. participant' = [participant EXCEPT ![p].number = n]
      BY <1>5, <2>1 DEF Rename
    <3>3. /\ participant'[p] = [participant[p] EXCEPT !.number = n]
          /\ \A o \in Participants \ {p} : participant'[o] = participant[o]
      BY <1>1, <3>1, <3>2 DEF TypeOK
    <3> HIDE DEF p, n
    <3>4. participant'[p] = [state |-> participant[p].state, contact |-> participant[p].contact, number |-> n]
      BY <3>1, <3>3, SeatTypes
    <3>5. Seated(p)
      BY <2>1, <3>1, <3>3, <3>4 DEF Seated, IsCustom, Carried, Live
    <3> QED BY <1>5, <3>1, <3>5 DEF Rename, history
  <2> QED BY <1>5, <2>1 DEF Rename
<1>6. CASE ContactRoutes(r) \/ GroupRoutes(r)
  BY <1>6 DEF ContactRoutes, GroupRoutes, CreateContact, UpdateContact, DeleteContacts, AddToGroup, ImportContacts,
              DeleteGroup, CreateGroup, UpdateGroup, rows
<1>7. CASE ParticipantRoutes(r)
  BY <1>2, <1>3, <1>7 DEF ParticipantRoutes, ImportFromGroup, AddParticipant, UpdateParticipant, rows
<1>8. CASE Fail(r) \/ FindGroup(r) \/ ExistsByWhatsApp(r) \/ Create(r) \/ Update(r) \/ Scan(r) \/ BulkCreate(r)
           \/ BulkAddToGroup(r) \/ InsertGroup(r) \/ StoreGroup(r) \/ JoinEnds(r)
  BY <1>8 DEF Fail, FindGroup, ExistsByWhatsApp, Create, Update, Scan, BulkCreate, BulkAddToGroup, InsertGroup,
              StoreGroup, JoinEnds, rows
<1> QED BY <1>4, <1>5, <1>6, <1>7, <1>8 DEF Step, Statements

\* Where a request goes: to join, with snapshots of contacts that are there, or
\* to rename a participant that is no contact.
LEMMA GoesOK ==
  ASSUME NEW r, req'[r].pc \notin {"join", "rename"}
  PROVE  JoinOK(r)' /\ RenameOK(r)'
  BY DEF JoinOK, RenameOK

LEMMA PlacesStep ==
  ASSUME TypeInv, ParticipantsInv, NEW r \in Requests, Step(r)
  PROVE  JoinOK(r)' /\ RenameOK(r)'
<1>1. TypeOK
  BY DEF TypeInv
<1>2. ASSUME NEW state, GoTo(r, state), state.pc \notin {"join", "rename"} PROVE JoinOK(r)' /\ RenameOK(r)'
  BY <1>1, <1>2, Gone, GoesOK
<1>3. ASSUME Done(r) PROVE JoinOK(r)' /\ RenameOK(r)'
  BY <1>2, <1>3 DEF Done
<1>4. ASSUME req' = req, req[r].pc = "idle" PROVE JoinOK(r)' /\ RenameOK(r)'
  BY <1>4, GoesOK
<1>5. ASSUME NEW id, NEW card, NEW edit, NEW passed, Checks(r, id, card, edit, passed) PROVE JoinOK(r)' /\ RenameOK(r)'
  <2>1. req'[r].pc \in {"group", "exists", "store"}
    BY <1>5, ChecksEffect
  <2> QED BY <2>1, GoesOK
<1>6. ASSUME NEW snapshots, GoTo(r, [pc |-> "join", left |-> snapshots]), contact' = contact, renumbered' = renumbered,
             \A s \in snapshots : Carried(s, contact, renumbered)
      PROVE  JoinOK(r)' /\ RenameOK(r)'
  <2>1. req'[r] = [pc |-> "join", left |-> snapshots]
    BY <1>1, <1>6, Gone
  <2> QED BY <1>6, <2>1 DEF JoinOK, RenameOK
<1>7. CASE ContactRoutes(r)
  BY <1>2, <1>4, <1>5, <1>7 DEF ContactRoutes, CreateContact, UpdateContact, DeleteContacts, AddToGroup,
                                ImportContacts, Starts
<1>8. CASE GroupRoutes(r)
  BY <1>2, <1>4, <1>8 DEF GroupRoutes, CreateGroup, UpdateGroup, DeleteGroup, Starts
<1>9. CASE ParticipantRoutes(r)
  <2>1. ASSUME NEW g \in Groups, ImportFromGroup(r, g) PROVE JoinOK(r)' /\ RenameOK(r)'
    <3> DEFINE members == {c \in Ids : Live(contact, c) /\ contact[c].card.group = g}
    <3>1. PICK page \in SUBSET members : GoTo(r, [pc |-> "join", left |-> {SnapshotOf(c) : c \in page}])
      BY <2>1 DEF ImportFromGroup, Pages, kSubset
    <3>2. \A s \in {SnapshotOf(c) : c \in page} : Carried(s, contact, renumbered)
      BY SnapshotCarried
    <3>3. contact' = contact /\ renumbered' = renumbered
      BY <2>1 DEF ImportFromGroup, Starts, rows
    <3> QED BY <1>6, <3>1, <3>2, <3>3
  <2>2. ASSUME NEW c \in Ids, AddParticipant(r, c) PROVE JoinOK(r)' /\ RenameOK(r)'
    <3>1. \A s \in {SnapshotOf(c)} : Carried(s, contact, renumbered)
      BY <2>2, SnapshotCarried DEF AddParticipant
    <3> QED BY <1>6, <2>2, <3>1 DEF AddParticipant, Starts, rows
  <2>3. ASSUME NEW p \in Participants, NEW n \in Numbers, UpdateParticipant(r, p, n) PROVE JoinOK(r)' /\ RenameOK(r)'
    <3>1. req'[r] = [pc |-> "rename", participant |-> p, number |-> n] /\ participant' = participant
      BY <1>1, <2>3, Gone DEF UpdateParticipant, rows
    <3> QED BY <2>3, <3>1 DEF UpdateParticipant, JoinOK, RenameOK, Live, Spare, IsCustom
  <2> QED BY <1>4, <1>9, <2>1, <2>2, <2>3 DEF ParticipantRoutes, AddCustom, RemoveParticipant, Starts
<1>10. CASE Join(r)
  <2>1. PICK s : GoTo(r, [req[r] EXCEPT !.left = @ \ {s}])
    BY <1>10 DEF Join
  <2>2. req[r] = [pc |-> "join", left |-> req[r].left]
    BY <1>1, <1>10, RequestFields DEF Join, TypeOK
  <2> DEFINE after == req[r].left \ {s}
  <2>3. [req[r] EXCEPT !.left = @ \ {s}] = [req[r] EXCEPT !.left = after]
    OBVIOUS
  <2>4. \A x \in after : Carried(x, contact, renumbered)
    BY <1>10 DEF Join, ParticipantsInv, JoinOK
  <2> HIDE DEF after
  <2>5. [req[r] EXCEPT !.left = after] = [pc |-> "join", left |-> after]
    BY <2>2
  <2> QED BY <1>6, <1>10, <2>1, <2>3, <2>4, <2>5 DEF Join, history
<1>11. CASE Scan(r)
  <2>1. \E left, keep, g : GoTo(r, [pc |-> "scan", left |-> left, keep |-> keep, group |-> g])
    BY <1>1, <1>11, ScanLists
  <2> QED BY <1>2, <2>1
<1>12. CASE FindGroup(r) \/ ExistsByWhatsApp(r)
  BY <1>3, <1>5, <1>12 DEF FindGroup, ExistsByWhatsApp
<1>13. CASE Fail(r) \/ Create(r) \/ Update(r) \/ BulkCreate(r) \/ BulkAddToGroup(r) \/ InsertGroup(r) \/ StoreGroup(r)
            \/ JoinEnds(r) \/ Rename(r)
  BY <1>3, <1>13 DEF Fail, Create, Update, BulkCreate, BulkAddToGroup, InsertGroup, StoreGroup, JoinEnds, Rename
<1> QED BY <1>7, <1>8, <1>9, <1>10, <1>11, <1>12, <1>13 DEF Step, Statements

LEMMA ParticipantsStep ==
  ASSUME TypeInv, ParticipantsInv, [Next]_vars
  PROVE  ParticipantsInv'
<1>1. CASE UNCHANGED vars
  BY <1>1 DEF ParticipantsInv, SeatOK, JoinOK, RenameOK, NumbersApart, Live, Spare, IsCustom, vars, rows, history
<1>2. SUFFICES ASSUME NEW r \in Requests, Step(r) PROVE ParticipantsInv'
  BY <1>1 DEF Next, Step
<1>3. Only(r) /\ \A x : x.contact \in Ids \cup {Absent} /\ Carried(x, contact, renumbered) => Carried(x, contact', renumbered')
  BY <1>2, Effects, CarriedStays
<1>4. ASSUME NEW q \in Requests \ {r} PROVE JoinOK(q)'
  <2>1. req'[q] = req[q] /\ JoinOK(q)
    BY <1>3 DEF Only, ParticipantsInv
  <2>2. req[q].pc = "join" => \A s \in req[q].left : s.contact \in Ids
    BY RequestFields DEF TypeInv, TypeOK, Snapshot
  <2> QED BY <1>3, <2>1, <2>2 DEF JoinOK
<1>5. CASE participant' = participant
  <2>1. \A p \in Participants : SeatOK(p)'
    BY <1>3, <1>5, SeatTypes DEF ParticipantsInv, SeatOK, Live
  <2>2. \A q \in Requests \ {r} : RenameOK(q)'
    BY <1>3, <1>5 DEF ParticipantsInv, RenameOK, Only, Spare, IsCustom
  <2>3. NumbersApart'
    BY <1>5 DEF ParticipantsInv, NumbersApart, Live
  <2> QED BY <1>2, <1>4, <2>1, <2>2, <2>3, PlacesStep DEF ParticipantsInv
<1>6. CASE contact' = contact /\ renumbered' = renumbered /\ \E p \in Participants : Seated(p)
  <2>1. PICK p \in Participants : Seated(p)
    BY <1>6
  <2>2. \A o \in Participants : SeatOK(o)'
    BY <1>6, <2>1 DEF ParticipantsInv, SeatOK, Live, Seated
  <2>3. ASSUME NEW q \in Requests \ {r} PROVE RenameOK(q)'
    <3>1. req'[q] = req[q] /\ RenameOK(q)
      BY <1>3 DEF Only, ParticipantsInv
    <3>2. req[q].pc = "rename" => req[q].participant \in Participants
      BY RequestFields DEF TypeInv, TypeOK
    <3> QED BY <2>1, <3>1, <3>2 DEF RenameOK, Seated, Spare, IsCustom
  <2>4. NumbersApart'
    BY <2>1 DEF ParticipantsInv, NumbersApart, Live, Seated, Free
  <2> QED BY <1>2, <1>4, <2>2, <2>3, <2>4, PlacesStep DEF ParticipantsInv
<1> QED BY <1>2, <1>5, <1>6, SeatsStep

\* A contact has two participants at once only if its number was changed.
THEOREM OneStaysPerContact == Spec => []OnePerContact
<1>1. Init => TypeInv /\ ParticipantsInv
  <2>1. Init => ParticipantsInv
    BY DEF Init, ParticipantsInv, SeatOK, JoinOK, RenameOK, NumbersApart, Live
  <2> QED BY <2>1, InitTypes
<1>2. TypeInv /\ ParticipantsInv /\ [Next]_vars => (TypeInv /\ ParticipantsInv)'
  BY TypeStep, ParticipantsStep
<1>3. ParticipantsInv => OnePerContact
  BY DEF ParticipantsInv, SeatOK, NumbersApart, Carried, OnePerContact
<1> QED BY <1>1, <1>2, <1>3, PTL DEF Spec

=============================================================================
