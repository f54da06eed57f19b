---------------------------- MODULE SessionAssets ----------------------------
(***************************************************************************)
(* What a session carries besides amounts: the bank accounts its payment   *)
(* page shows, in a table of their own and, for older clients, in the      *)
(* session's row, and the images of its bills, in a table and in object    *)
(* storage.  Statements and calls to the storage are steps.                *)
(***************************************************************************)
EXTENDS Integers, FiniteSets

CONSTANTS
  Accounts,   \* bank accounts a host may list
  Images,     \* images that may ever be uploaded
  Requests,   \* requests that may be served at the same time
  MaxServed   \* bound: requests served

ASSUME AssetsAssumption == MaxServed \in Nat

VARIABLES
  accounts,   \* live rows of session_bank_accounts
  legacy,     \* sessions.bank_name, bank_account_number, bank_account_holder
  image,      \* the row of each image in bill_images
  place,      \* its ordinal
  stored,     \* images in the object storage
  req,        \* where each request is and what it has read
  served,     \* requests so far
  current,    \* history: lists a page that is opened now may show
  may,        \* history: lists a request that is served may leave or show
  prior       \* history: images that were there when an image got its place

bank == <<accounts, legacy, current, may>>
images == <<image, place, stored, prior>>
vars == <<bank, images, req, served>>

-----------------------------------------------------------------------------
Lists == SUBSET Accounts
\* The session's own columns hold one account or none.
Single == {list \in Lists : Cardinality(list) <= 1}

Request ==
       [pc: {"idle"}]
  \cup [pc: {"replace", "mirror"}, list: Lists]
  \cup [pc: {"patch"}, list: Single]
  \cup [pc: {"insert"}, list: Lists, missed: BOOLEAN]
  \cup [pc: {"edit", "page"}, legacy: Single]
  \cup [pc: {"number", "delete", "remove"}, of: Images]
  \cup [pc: {"create"}, of: Images, place: Nat, after: SUBSET Images]

TypeOK ==
  /\ accounts \in Lists
  /\ legacy \in Single
  /\ image \in [Images -> {"none", "live", "deleted"}]
  /\ place \in [Images -> Nat]
  /\ stored \in SUBSET Images
  /\ req \in [Requests -> Request]
  /\ served \in 0..MaxServed
  /\ current \in SUBSET Lists
  /\ may \in [Requests -> SUBSET Lists]
  /\ prior \in [Images -> SUBSET Images]

Idle == [pc |-> "idle"]
Live == {i \in Images : image[i] = "live"}

\* A session is created with the columns of its own row.
Init ==
  /\ accounts = {} /\ legacy \in Single
  /\ image = [i \in Images |-> "none"]
  /\ place = [i \in Images |-> 0]
  /\ stored = {}
  /\ req = [r \in Requests |-> Idle]
  /\ served = 0
  /\ current = {legacy}
  /\ may = [r \in Requests |-> {}]
  /\ prior = [i \in Images |-> {}]

GoTo(r, state) == req' = [req EXCEPT ![r] = state]
Begins(r) == req[r].pc = "idle" /\ served < MaxServed /\ served' = served + 1

\* History: a list is on its way, or an older one is brought back.  Whoever
\* is served meanwhile may show it or leave it.
Served == {r \in Requests : req[r].pc \in {"replace", "insert", "mirror", "patch", "page"}}
Heard(list) == [r \in Requests |-> IF r \in Served THEN may[r] \cup {list} ELSE may[r]]
Writing == {r \in Served : req[r].pc # "page"}

Writes(r, list) ==
  /\ current' = current \cup {list}
  /\ may' = [Heard(list) EXCEPT ![r] = {list} \cup {req[w].list : w \in Writing}]

\* What came before a list that has been stored is gone.
Wrote(r) == current' = may[r] /\ may' = [may EXCEPT ![r] = {}]
Forget(r) == may' = [may EXCEPT ![r] = {}]

-----------------------------------------------------------------------------
\* The list is replaced: one transaction on the table, the columns afterwards.

ReplaceBankAccounts(r, list) ==
  /\ Begins(r)
  /\ GoTo(r, [pc |-> "replace", list |-> list])
  /\ Writes(r, list)
  /\ UNCHANGED <<accounts, legacy, images>>

\* The first statement of the transaction: it marks the rows it can see, and
\* nobody sees that before the transaction ends.
SoftDelete(r) ==
  /\ req[r].pc = "replace"
  /\ GoTo(r, [pc |-> "insert", list |-> req[r].list, missed |-> FALSE])
  /\ UNCHANGED <<bank, images, served>>

\* Rows stored since are still live: the first INSERT meets their ordinal.
Blocked(q) == q.missed /\ q.list # {}

\* An empty list leaves rows it has not seen where they are.
Left(q) == IF q.missed THEN accounts ELSE q.list

BulkReplace(r) ==
  /\ req[r].pc = "insert" /\ ~Blocked(req[r])
  /\ accounts' = Left(req[r])
  /\ req' = [q \in Requests |->
       IF q = r THEN [pc |-> "mirror", list |-> req[r].list]
       ELSE IF req[q].pc = "insert" /\ ~req[r].missed THEN [req[q] EXCEPT !.missed = (req[r].list # {})]
       ELSE req[q]]
  /\ UNCHANGED <<legacy, current, may, images, served>>

\* Mutated forms: the whole list is copied; an empty list leaves the columns
\* as they are.
MirrorAll(list) == list
MirrorKept(list) == IF Cardinality(list) = 1 THEN list ELSE IF list = {} THEN legacy ELSE {}
\* One account is mirrored into the columns, several clear them.
Mirror(list) == IF Cardinality(list) = 1 THEN list ELSE {}

\* Of the row that was read, SetBankInfo replaces all three columns.
MirrorUpdate(r) ==
  /\ req[r].pc = "mirror"
  /\ legacy' = Mirror(req[r].list)
  /\ GoTo(r, Idle)
  /\ Wrote(r)
  /\ UNCHANGED <<accounts, images, served>>

-----------------------------------------------------------------------------
\* The columns have editors of their own: the host's form, with an account in
\* it, and every other edit of the session, which stores what it read.

UpdateSession(r, list) ==
  /\ Begins(r)
  /\ GoTo(r, [pc |-> "patch", list |-> list])
  /\ Writes(r, list)
  /\ UNCHANGED <<accounts, legacy, images>>

\* Pages show it once the table is empty.
Update(r) ==
  /\ req[r].pc = "patch"
  /\ legacy' = req[r].list
  /\ GoTo(r, Idle)
  /\ IF accounts = {} THEN Wrote(r) ELSE Forget(r) /\ UNCHANGED current
  /\ UNCHANGED <<accounts, images, served>>

EditSession(r) ==
  /\ Begins(r)
  /\ GoTo(r, [pc |-> "edit", legacy |-> legacy])
  /\ UNCHANGED <<bank, images>>

EditUpdate(r) ==
  /\ req[r].pc = "edit"
  /\ legacy' = req[r].legacy
  /\ IF req[r].legacy = legacy THEN UNCHANGED <<current, may>>
     ELSE current' = current \cup {req[r].legacy} /\ may' = Heard(req[r].legacy)
  /\ GoTo(r, Idle)
  /\ UNCHANGED <<accounts, images, served>>

-----------------------------------------------------------------------------
\* A page: the session's row is read first, the table last.

FindByID(r) ==
  /\ Begins(r)
  /\ GoTo(r, [pc |-> "page", legacy |-> legacy])
  /\ may' = [may EXCEPT ![r] = current]
  /\ UNCHANGED <<accounts, legacy, current, images>>

\* The columns are a fallback, also for a read that fails: then a page shows
\* an account that is mirrored, and none of several.
Shown(q) == IF accounts = {} THEN q.legacy ELSE accounts

FindBySessionID(r) ==
  /\ req[r].pc = "page"
  /\ GoTo(r, Idle)
  /\ Forget(r)
  /\ UNCHANGED <<accounts, legacy, current, images, served>>

-----------------------------------------------------------------------------
\* An image: stored under a name of its own, numbered, entered.

UploadBillImage(r, i) ==
  /\ Begins(r)
  /\ image[i] = "none" /\ i \notin stored
  /\ \A q \in Requests : req[q].pc \in {"number", "create"} => req[q].of # i
  /\ stored' = stored \cup {i}
  /\ GoTo(r, [pc |-> "number", of |-> i])
  /\ UNCHANGED <<bank, image, place, prior>>

\* Mutated form: as many as there are.
NextPlaceCount(n) == n = Cardinality(Live)
\* One above the greatest.
NextPlace(n) ==
  /\ \A i \in Live : place[i] < n
  /\ n = 0 \/ \E i \in Live : n = place[i] + 1

NextOrdinal(r) ==
  /\ req[r].pc = "number"
  /\ \E n \in 0..MaxServed :
       /\ NextPlace(n)
       /\ GoTo(r, [pc |-> "create", of |-> req[r].of, place |-> n, after |-> Live])
  /\ UNCHANGED <<bank, images, served>>

Create(r) ==
  /\ req[r].pc = "create"
  /\ LET q == req[r] IN
       /\ image' = [image EXCEPT ![q.of] = "live"]
       /\ place' = [place EXCEPT ![q.of] = q.place]
       /\ prior' = [prior EXCEPT ![q.of] = q.after]
  /\ GoTo(r, Idle)
  /\ UNCHANGED <<bank, stored, served>>

DeleteBillImage(r, i) ==
  /\ Begins(r)
  /\ image[i] = "live"
  /\ GoTo(r, [pc |-> "delete", of |-> i])
  /\ UNCHANGED <<bank, images>>

\* The row first; one that is gone ends the request.
Delete(r) ==
  /\ req[r].pc = "delete"
  /\ LET i == req[r].of IN
       IF image[i] = "live"
       THEN image' = [image EXCEPT ![i] = "deleted"] /\ GoTo(r, [pc |-> "remove", of |-> i])
       ELSE GoTo(r, Idle) /\ UNCHANGED image
  /\ UNCHANGED <<bank, place, stored, prior, served>>

\* The file afterwards, if the storage answers.
DeleteWithPrefix(r) ==
  /\ req[r].pc = "remove"
  /\ stored' = stored \ {req[r].of}
  /\ GoTo(r, Idle)
  /\ UNCHANGED <<bank, image, place, prior, served>>

-----------------------------------------------------------------------------
\* A statement or a call fails, or the process dies; an open transaction
\* leaves nothing.
Fail(r) ==
  /\ req[r].pc # "idle"
  /\ GoTo(r, Idle)
  /\ Forget(r)
  /\ UNCHANGED <<accounts, legacy, current, images, served>>

BankRoutes(r) ==
  \/ \E list \in Lists : ReplaceBankAccounts(r, list)
  \/ \E list \in Single : UpdateSession(r, list)
  \/ SoftDelete(r) \/ BulkReplace(r) \/ MirrorUpdate(r) \/ Update(r)
  \/ EditSession(r) \/ EditUpdate(r) \/ FindByID(r) \/ FindBySessionID(r)

ImageRoutes(r) ==
  \/ \E i \in Images : UploadBillImage(r, i) \/ DeleteBillImage(r, i)
  \/ NextOrdinal(r) \/ Create(r) \/ Delete(r) \/ DeleteWithPrefix(r)

Next == \E r \in Requests : BankRoutes(r) \/ ImageRoutes(r) \/ Fail(r)

Spec == Init /\ [][Next]_vars

-----------------------------------------------------------------------------
(***************************************************************************)
(* Properties                                                              *)
(***************************************************************************)

\* A page whose two reads succeed shows a list that was in force when it was
\* opened or came while it was read, although a list is stored in two
\* places one after the other and either store may fail: the last one saved,
\* one whose request overlapped with it or failed, one an outdated edit of
\* the session put back, or one the host's form left behind a stored list.
PageShowsAccounts == \A r \in Requests : req[r].pc = "page" => Shown(req[r]) \in may[r]

\* Every listed image has its file, whatever failed in between, and comes
\* after those that were listed when it got its place: images deleted
\* meanwhile, and two uploads at once, disturb no order but their own.
ImagesInPlace == \A i \in Live :
  /\ i \in stored
  /\ \A j \in prior[i] \cap Live : place[j] < place[i]

=============================================================================
