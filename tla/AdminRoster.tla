---------------------------- MODULE AdminRoster ----------------------------
(***************************************************************************)
(* The admins: first-boot setup, sign-in, profile and password, and the    *)
(* rules that keep one super admin.  A request reads the row it works on,  *)
(* may count the super admins, and stores the row it read with its change  *)
(* in it; the count, the row and the UPDATE are statements of their own.   *)
(* Only the setup claims its row in one serializable transaction.          *)
(***************************************************************************)
EXTENDS Integers

CONSTANTS
  Admins,      \* admin ids, given out once
  Numbers,     \* WhatsApp numbers
  Passwords,   \* passwords admins choose
  SeedAdmin,   \* the admin and the number the migrations insert
  SeedNumber,
  Requests,    \* requests that may be served at the same time
  MaxServed    \* bound: requests served

NoHash == "none"
SeedHash == "seed"
Placeholder == {NoHash, SeedHash}

ASSUME RosterAssumption ==
  /\ SeedAdmin \in Admins /\ SeedNumber \in Numbers
  /\ Passwords \cap Placeholder = {}
  /\ MaxServed \in Nat

VARIABLES
  admin,      \* the rows of the table
  token,      \* tokens in circulation: whose, and the role they carry
  req,        \* where each request is and what it has read
  served,     \* requests so far
  outdated,   \* history: requests during which another one changed a row
  overlapped, \* history: a row was stored or deleted by an outdated request
  wanted,     \* history: the password each admin was last given
  claims,     \* history: setups that went through
  reopened    \* history: an admin was deactivated or deleted

history == <<outdated, overlapped, wanted, claims, reopened>>
vars == <<admin, token, req, served, history>>

-----------------------------------------------------------------------------
Hash == Passwords \cup Placeholder
Role == {"super_admin", "admin"}
Row == [state: {"unused", "live", "deleted"}, number: Numbers, hash: Hash,
        role: Role, active: BOOLEAN]
Token == [who: Admins, role: Role]

Request ==
       [pc: {"idle"}]
  \cup [pc: {"claim"}, number: Numbers, hash: Passwords, wizard: BOOLEAN]
  \cup [pc: {"create"}, row: Row]
  \cup [pc: {"count"}, who: Admins, row: Row, then: {"store", "delete"}]
  \cup [pc: {"store"}, who: Admins, row: Row, why: {"sign-in", "password", "other"}]
  \cup [pc: {"delete"}, who: Admins]

TypeOK ==
  /\ admin \in [Admins -> Row]
  /\ token \in SUBSET Token
  /\ req \in [Requests -> Request]
  /\ served \in 0..MaxServed
  /\ outdated \in SUBSET Requests /\ overlapped \in BOOLEAN
  /\ wanted \in [Admins -> Hash]
  /\ claims \in Nat /\ reopened \in BOOLEAN

NewAdmin(n, hash, role) ==
  [state |-> "live", number |-> n, hash |-> hash, role |-> role, active |-> TRUE]

Init ==
  /\ admin = [a \in Admins |->
       IF a = SeedAdmin THEN NewAdmin(SeedNumber, SeedHash, "super_admin")
       ELSE [NewAdmin(SeedNumber, NoHash, "admin") EXCEPT !.state = "unused", !.active = FALSE]]
  /\ token = {}
  /\ req = [r \in Requests |-> [pc |-> "idle"]]
  /\ served = 0
  /\ outdated = {} /\ overlapped = FALSE
  /\ wanted = [a \in Admins |-> IF a = SeedAdmin THEN SeedHash ELSE NoHash]
  /\ claims = 0 /\ reopened = FALSE

Live == {a \in Admins : admin[a].state = "live"}
Super == {a \in Live : admin[a].role = "super_admin"}
ActiveSuper == {a \in Super : admin[a].active}

\* Whether setup is over: an active super admin has a password of his own.
HasUsableSuperAdmin == \E a \in ActiveSuper : admin[a].hash \notin Placeholder

\* The unique index on numbers sees deleted admins too.
Taken(n, but) == \E a \in Admins \ but : admin[a].state # "unused" /\ admin[a].number = n

GoTo(r, state) == req' = [req EXCEPT ![r] = state]
Done(r) == GoTo(r, [pc |-> "idle"])
Starts(r) ==
  /\ req[r].pc = "idle" /\ served < MaxServed
  /\ served' = served + 1
  /\ outdated' = outdated \ {r}
  /\ UNCHANGED <<admin, token, overlapped, wanted, claims, reopened>>

\* History: the other requests no longer know every row.
Changes(r) ==
  /\ outdated' = IF admin' = admin THEN outdated ELSE outdated \cup (Requests \ {r})
  /\ reopened' = (reopened \/ \E a \in Live : admin[a].active /\ ~admin'[a].active)

-----------------------------------------------------------------------------
\* Setup, by the wizard or by the bootstrap command.

Bootstrap(r, n, hash, wizard) ==
  /\ Starts(r)
  /\ ~HasUsableSuperAdmin
  /\ GoTo(r, [pc |-> "claim", number |-> n, hash |-> hash, wizard |-> wizard])

Placeholders == {a \in Super : admin[a].hash \in Placeholder}

\* The rows the claim may leave: the one placeholder taken over, or a new row.
\* Two placeholders cannot take the same number, nor can anyone's be taken.
Claimed(q, a) ==
  /\ ~Taken(q.number, {a})
  /\ \/ Placeholders = {a}
     \/ Placeholders = {} /\ admin[a].state = "unused"

\* Mutated form: the check made before the password was hashed is relied on.
GateUnchecked == TRUE
Gate == ~HasUsableSuperAdmin

UpsertBootstrapSuperAdmin(r) ==
  /\ req[r].pc = "claim"
  /\ LET q == req[r] IN
       \/ \E a \in Admins :
            /\ Gate /\ Claimed(q, a)
            /\ admin' = [admin EXCEPT ![a] = NewAdmin(q.number, q.hash, "super_admin")]
            /\ token' = IF q.wizard THEN token \cup {[who |-> a, role |-> "super_admin"]} ELSE token
            /\ wanted' = [wanted EXCEPT ![a] = q.hash]
            /\ claims' = claims + 1
            /\ Changes(r)
       \/ /\ ~Gate \/ \A a \in Admins : ~Claimed(q, a)
          /\ UNCHANGED <<admin, token, wanted, claims, outdated, reopened>>
  /\ Done(r)
  /\ UNCHANGED <<served, overlapped>>

-----------------------------------------------------------------------------
\* Signing in.  A one-time code is enough for an admin who is not active.

\* Mutated forms: the SELECT leaves the password, or the role, out.
FindWithoutRole(a) == [admin[a] EXCEPT !.role = ""]
FindWithoutHash(a) == [admin[a] EXCEPT !.hash = NoHash]
Find(a) == admin[a]

Store(a, row, why) == [pc |-> "store", who |-> a, row |-> row, why |-> why]

VerifyOTP(r, a) ==
  /\ Starts(r)
  /\ a \in Live
  /\ GoTo(r, Store(a, Find(a), "sign-in"))

Login(r, a, password) ==
  /\ Starts(r)
  /\ a \in Live /\ admin[a].active
  /\ admin[a].hash = password
  /\ GoTo(r, Store(a, Find(a), "sign-in"))

\* Ends no token; the row is read and stored for the sake of last_login_at.
Logout(r, t) ==
  /\ Starts(r)
  /\ t.who \in Live
  /\ GoTo(r, Store(t.who, Find(t.who), "other"))

TokenExpires(t) ==
  /\ token' = token \ {t}
  /\ UNCHANGED <<admin, req, served, history>>

-----------------------------------------------------------------------------
\* An admin's own profile: the name, which is not kept here, and the password.

UpdateProfile(r, t) ==
  /\ Starts(r)
  /\ t.who \in Live
  /\ GoTo(r, Store(t.who, Find(t.who), "other"))

SetupPassword(r, t, password) ==
  /\ Starts(r)
  /\ t.who \in Live
  /\ GoTo(r, Store(t.who, [Find(t.who) EXCEPT !.hash = password], "password"))

-----------------------------------------------------------------------------
\* Management, for those whose token says super_admin.

CreateAdmin(r, t, n, hash, role) ==
  /\ Starts(r)
  /\ t.role = "super_admin"
  /\ \A a \in Live : admin[a].number # n
  /\ GoTo(r, [pc |-> "create", row |-> NewAdmin(n, hash, role)])

Create(r, a) ==
  /\ req[r].pc = "create"
  /\ admin[a].state = "unused"
  /\ IF Taken(req[r].row.number, {})
     THEN UNCHANGED <<admin, wanted, outdated, reopened>>
     ELSE /\ admin' = [admin EXCEPT ![a] = req[r].row]
          /\ wanted' = [wanted EXCEPT ![a] = req[r].row.hash]
          /\ Changes(r)
  /\ Done(r)
  /\ UNCHANGED <<token, served, overlapped, claims>>

\* A role or an active flag left out of the request stays as it was read.
UpdateAdmin(r, t, a, role, active) ==
  /\ Starts(r)
  /\ t.role = "super_admin"
  /\ a \in Live
  /\ LET demoting     == role # "super_admin" /\ admin[a].role = "super_admin"
         deactivating == ~active /\ admin[a].active
         row          == [Find(a) EXCEPT !.role = role, !.active = active]
     IN /\ ~(a = t.who /\ (demoting \/ deactivating))
        /\ IF (demoting \/ deactivating) /\ admin[a].role = "super_admin"
           THEN GoTo(r, [pc |-> "count", who |-> a, row |-> row, then |-> "store"])
           ELSE GoTo(r, Store(a, row, "other"))

DeleteAdmin(r, t, a) ==
  /\ Starts(r)
  /\ t.role = "super_admin"
  /\ a # t.who
  /\ a \in Live
  /\ IF admin[a].role = "super_admin"
     THEN GoTo(r, [pc |-> "count", who |-> a, row |-> Find(a), then |-> "delete"])
     ELSE GoTo(r, [pc |-> "delete", who |-> a])

\* Somebody else would be left.  Mutated form: the count may be one.
OthersLeftNot == ActiveSuper # {}
OthersLeft == \E a, b \in ActiveSuper : a # b

CountActiveSuperAdmins(r) ==
  /\ req[r].pc = "count"
  /\ IF ~OthersLeft THEN Done(r)
     ELSE IF req[r].then = "store" THEN GoTo(r, Store(req[r].who, req[r].row, "other"))
     ELSE GoTo(r, [pc |-> "delete", who |-> req[r].who])
  /\ UNCHANGED <<admin, token, served, history>>

\* Name, password and active flag, whatever the row is by now; never the role.
Update(r) ==
  /\ req[r].pc = "store"
  /\ LET q == req[r] IN
       /\ admin' = [admin EXCEPT ![q.who].hash = q.row.hash, ![q.who].active = q.row.active]
       /\ token' = IF q.why = "sign-in"
                   THEN token \cup {[who |-> q.who, role |-> q.row.role]} ELSE token
       /\ wanted' = IF q.why = "password" THEN [wanted EXCEPT ![q.who] = q.row.hash] ELSE wanted
  /\ overlapped' = (overlapped \/ r \in outdated)
  /\ Done(r) /\ Changes(r)
  /\ UNCHANGED <<served, claims>>

SoftDelete(r) ==
  /\ req[r].pc = "delete"
  /\ LET a == req[r].who IN
       admin' = IF a \in Live
                THEN [admin EXCEPT ![a].state = "deleted", ![a].active = FALSE]
                ELSE admin
  /\ overlapped' = (overlapped \/ r \in outdated)
  /\ Done(r) /\ Changes(r)
  /\ UNCHANGED <<token, served, wanted, claims>>

\* A statement fails or the process dies.
Fail(r) ==
  /\ req[r].pc # "idle"
  /\ Done(r)
  /\ UNCHANGED <<admin, token, served, history>>

-----------------------------------------------------------------------------
SetupRoutes(r) ==
  \/ \E n \in Numbers, h \in Passwords, wizard \in BOOLEAN : Bootstrap(r, n, h, wizard)
  \/ \E a \in Admins : VerifyOTP(r, a) \/ \E h \in Passwords : Login(r, a, h)

OwnRoutes(r) == \E t \in token :
  Logout(r, t) \/ UpdateProfile(r, t) \/ \E h \in Passwords : SetupPassword(r, t, h)

ManagementRoutes(r) == \E t \in token, role \in Role :
  \/ \E n \in Numbers, h \in Passwords \cup {NoHash} : CreateAdmin(r, t, n, h, role)
  \/ \E a \in Admins : DeleteAdmin(r, t, a) \/ \E active \in BOOLEAN : UpdateAdmin(r, t, a, role, active)

Statements(r) ==
  \/ UpsertBootstrapSuperAdmin(r) \/ CountActiveSuperAdmins(r) \/ Update(r) \/ SoftDelete(r)
  \/ \E a \in Admins : Create(r, a)

Next ==
  \/ \E r \in Requests :
       SetupRoutes(r) \/ OwnRoutes(r) \/ ManagementRoutes(r) \/ Statements(r) \/ Fail(r)
  \/ \E t \in token : TokenExpires(t)

Spec == Init /\ [][Next]_vars

-----------------------------------------------------------------------------
(***************************************************************************)
(* Properties                                                              *)
(***************************************************************************)

\* Whatever is deleted, deactivated or taken over by a setup, an active super
\* admin remains, unless a request stored or deleted a row after another one
\* had changed the table under it.
SuperAdminRemains == overlapped \/ ActiveSuper # {}

\* However many wizards pass the first check together, one setup goes through;
\* there is another only after an admin was deactivated or deleted, or a row
\* read before the setup was stored after it.
SetupOnce == claims > 1 => reopened \/ overlapped

\* Renames, logouts, sign-ins and edits of others store the password with the
\* row; each leaves an admin the password last given to that admin.
PasswordsKept == ~overlapped => \A a \in Live : admin[a].hash = wanted[a]

\* admin_management.go, "the last remaining super_admin cannot be demoted or
\* deactivated (would lock the system; recovery requires direct DB access)",
\* and "forbids deleting the last remaining super_admin".
LastSuperAdminStays == ActiveSuper # {}

=============================================================================
