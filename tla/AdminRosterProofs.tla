------------------------ MODULE AdminRosterProofs ------------------------
(***************************************************************************)
(* Proofs about AdminRoster, for any number of admins and requests: the    *)
(* types, that an active super admin remains, that setup goes through once *)
(* and that passwords are kept.  What a request no other one has overtaken *)
(* is about to store agrees with the table, and leaves somebody in charge. *)
(***************************************************************************)
EXTENDS AdminRoster, TLAPS

\* Setting a's active flag so leaves an active super admin.
Leaves(a, active) == active \/ a \notin ActiveSuper \/ OthersLeft

Sound(q) ==
  /\ q.pc = "count" => q.row.hash = admin[q.who].hash
  /\ q.pc = "store" =>
       /\ Leaves(q.who, q.row.active)
       /\ IF q.why = "password" THEN q.row.hash \in Passwords
                                ELSE q.row.hash = admin[q.who].hash
  /\ q.pc = "delete" => Leaves(q.who, FALSE)

RequestsSound == \A r \in Requests \ outdated : Sound(req[r])

\* Once a setup went through its password stands, while nobody is removed.
SetupStands == claims > 0 => reopened \/ overlapped \/ HasUsableSuperAdmin

IInv == TypeOK /\ RequestsSound /\ SuperAdminRemains /\ SetupStands /\ SetupOnce /\ PasswordsKept

-----------------------------------------------------------------------------
(***************************************************************************)
(* Types                                                                   *)
(***************************************************************************)

\* The steps of requests, one by one.
LEMMA Steps ==
  ASSUME Next
  PROVE  \/ \E t \in token : TokenExpires(t)
         \/ \E r \in Requests :
              \/ \E n \in Numbers, h \in Passwords, wizard \in BOOLEAN : Bootstrap(r, n, h, wizard)
              \/ \E a \in Admins : VerifyOTP(r, a) \/ Create(r, a)
              \/ \E a \in Admins, h \in Passwords : Login(r, a, h)
              \/ \E t \in token : Logout(r, t) \/ UpdateProfile(r, t)
              \/ \E t \in token, h \in Passwords : SetupPassword(r, t, h)
              \/ \E t \in token, role \in Role, n \in Numbers, h \in Passwords \cup {NoHash} :
                   CreateAdmin(r, t, n, h, role)
              \/ \E t \in token, a \in Admins : DeleteAdmin(r, t, a)
              \/ \E t \in token, a \in Admins, role \in Role, active \in BOOLEAN :
                   UpdateAdmin(r, t, a, role, active)
              \/ UpsertBootstrapSuperAdmin(r) \/ CountActiveSuperAdmins(r)
              \/ Update(r) \/ SoftDelete(r) \/ Fail(r)
BY DEF Next, SetupRoutes, OwnRoutes, ManagementRoutes, Statements

\* A request that starts or goes on keeps its type if its new state has one.
LEMMA GoToTyped ==
  ASSUME TypeOK, NEW r \in Requests, NEW state \in Request, GoTo(r, state)
  PROVE  req' \in [Requests -> Request]
BY DEF TypeOK, GoTo

LEMMA IdleTyped == [pc |-> "idle"] \in Request
BY DEF Request

LEMMA StoreTyped ==
  ASSUME NEW a \in Admins, NEW row \in Row, NEW why \in {"sign-in", "password", "other"}
  PROVE  Store(a, row, why) \in Request
BY DEF Store, Request

LEMMA NewAdminTyped ==
  ASSUME NEW n \in Numbers, NEW h \in Hash, NEW role \in Role
  PROVE  NewAdmin(n, h, role) \in Row
BY DEF NewAdmin, Row

LEMMA StartsTyped ==
  ASSUME TypeOK, NEW r \in Requests, Starts(r), req' \in [Requests -> Request]
  PROVE  TypeOK'
<1>1. served' \in 0..MaxServed
  BY RosterAssumption DEF TypeOK, Starts
<1>2. outdated' \in SUBSET Requests
  BY DEF TypeOK, Starts
<1> QED  BY <1>1, <1>2 DEF TypeOK, Starts

LEMMA ChangesTyped ==
  ASSUME TypeOK, NEW r \in Requests, Changes(r)
  PROVE  outdated' \in SUBSET Requests /\ reopened' \in BOOLEAN
BY DEF TypeOK, Changes

LEMMA TypeInit == Init => TypeOK
<1> SUFFICES ASSUME Init PROVE TypeOK
  OBVIOUS
<1>1. NewAdmin(SeedNumber, SeedHash, "super_admin") \in Row
  BY RosterAssumption DEF NewAdmin, Row, Hash, Placeholder, Role
<1>2. [NewAdmin(SeedNumber, NoHash, "admin") EXCEPT !.state = "unused", !.active = FALSE] \in Row
  BY RosterAssumption DEF NewAdmin, Row, Hash, Placeholder, Role
<1>3. admin \in [Admins -> Row]
  BY <1>1, <1>2 DEF Init
<1>4. req \in [Requests -> Request]
  BY IdleTyped DEF Init
<1>5. wanted \in [Admins -> Hash]
  BY DEF Init, Hash, Placeholder
<1>6. token \in SUBSET Token /\ outdated \in SUBSET Requests
  BY DEF Init
<1>7. served \in 0..MaxServed /\ claims \in Nat
  BY RosterAssumption DEF Init
<1>8. overlapped \in BOOLEAN /\ reopened \in BOOLEAN
  BY DEF Init
<1> QED
  BY <1>3, <1>4, <1>5, <1>6, <1>7, <1>8 DEF TypeOK

LEMMA TypeStep == TypeOK /\ [Next]_vars => TypeOK'
<1> SUFFICES ASSUME TypeOK, [Next]_vars PROVE TypeOK'
  OBVIOUS
<1> USE IdleTyped
<1>1. CASE UNCHANGED vars
  BY <1>1 DEF vars, history, TypeOK
<1>2. CASE \E t \in token : TokenExpires(t)
  BY <1>2 DEF TokenExpires, TypeOK, history
<1>3. ASSUME NEW r \in Requests, NEW n \in Numbers, NEW h \in Passwords, NEW wizard \in BOOLEAN,
             Bootstrap(r, n, h, wizard)
      PROVE  TypeOK'
  <2>1. [pc |-> "claim", number |-> n, hash |-> h, wizard |-> wizard] \in Request
    BY DEF Request
  <2> QED  BY <1>3, <2>1, GoToTyped, StartsTyped DEF Bootstrap
<1>4. ASSUME NEW r \in Requests, NEW a \in Admins, NEW row \in Row,
             NEW why \in {"sign-in", "password", "other"}, Starts(r), GoTo(r, Store(a, row, why))
      PROVE  TypeOK'
  BY <1>4, StoreTyped, GoToTyped, StartsTyped
<1>5. ASSUME NEW a \in Admins
      PROVE  Find(a) \in Row
  BY DEF Find, TypeOK
<1>6. ASSUME NEW r \in Requests, NEW a \in Admins, VerifyOTP(r, a) \/ \E h \in Passwords : Login(r, a, h)
      PROVE  TypeOK'
  BY <1>4, <1>5, <1>6 DEF VerifyOTP, Login
<1>7. ASSUME NEW r \in Requests, NEW t \in token, Logout(r, t) \/ UpdateProfile(r, t)
      PROVE  TypeOK'
  <2>1. t.who \in Admins
    BY DEF TypeOK, Token
  <2> QED  BY <2>1, <1>4, <1>5, <1>7 DEF Logout, UpdateProfile
<1>8. ASSUME NEW r \in Requests, NEW t \in token, NEW h \in Passwords, SetupPassword(r, t, h)
      PROVE  TypeOK'
  <2>1. t.who \in Admins
    BY DEF TypeOK, Token
  <2>2. [Find(t.who) EXCEPT !.hash = h] \in Row
    BY <2>1, <1>5 DEF Row, Hash
  <2> QED  BY <2>1, <2>2, <1>4, <1>8 DEF SetupPassword
<1>9. ASSUME NEW r \in Requests, NEW t \in token, NEW role \in Role, NEW n \in Numbers,
             NEW h \in Passwords \cup {NoHash}, CreateAdmin(r, t, n, h, role)
      PROVE  TypeOK'
  <2>1. NewAdmin(n, h, role) \in Row
    BY NewAdminTyped DEF Hash, Placeholder
  <2>2. [pc |-> "create", row |-> NewAdmin(n, h, role)] \in Request
    BY <2>1 DEF Request
  <2> QED  BY <1>9, <2>2, GoToTyped, StartsTyped DEF CreateAdmin
<1>10. ASSUME NEW r \in Requests, NEW t \in token, NEW a \in Admins, DeleteAdmin(r, t, a)
       PROVE  TypeOK'
  <2>1. /\ [pc |-> "count", who |-> a, row |-> Find(a), then |-> "delete"] \in Request
        /\ [pc |-> "delete", who |-> a] \in Request
    BY <1>5 DEF Request
  <2> QED  BY <1>10, <2>1, GoToTyped, StartsTyped DEF DeleteAdmin
<1>11. ASSUME NEW r \in Requests, NEW t \in token, NEW a \in Admins, NEW role \in Role,
              NEW active \in BOOLEAN, UpdateAdmin(r, t, a, role, active)
       PROVE  TypeOK'
  <2> DEFINE row == [Find(a) EXCEPT !.role = role, !.active = active]
  <2>1. row \in Row
    BY <1>5 DEF Row
  <2>2. [pc |-> "count", who |-> a, row |-> row, then |-> "store"] \in Request
    BY <2>1 DEF Request
  <2>3. \/ GoTo(r, [pc |-> "count", who |-> a, row |-> row, then |-> "store"])
        \/ GoTo(r, Store(a, row, "other"))
    BY <1>11 DEF UpdateAdmin
  <2>4. Starts(r)
    BY <1>11 DEF UpdateAdmin
  <2> HIDE DEF row
  <2> QED  BY <2>1, <2>2, <2>3, <2>4, <1>4, GoToTyped, StartsTyped
<1>12. ASSUME NEW r \in Requests, NEW a \in Admins, Create(r, a)
       PROVE  TypeOK'
  <2>1. req[r].row \in Row
    BY <1>12 DEF Create, TypeOK, Request
  <2>2. req' \in [Requests -> Request]
    BY <1>12, GoToTyped DEF Create, Done
  <2>3. CASE Taken(req[r].row.number, {})
    BY <1>12, <2>2, <2>3 DEF Create, TypeOK
  <2>4. CASE ~Taken(req[r].row.number, {})
    <3>1. admin' \in [Admins -> Row] /\ wanted' \in [Admins -> Hash]
      BY <1>12, <2>1, <2>4 DEF Create, TypeOK, Row
    <3>2. Changes(r)
      BY <1>12, <2>4 DEF Create
    <3> QED  BY <1>12, <2>2, <3>1, <3>2, ChangesTyped DEF Create, TypeOK
  <2> QED  BY <2>3, <2>4
<1>13. ASSUME NEW r \in Requests, UpsertBootstrapSuperAdmin(r)
       PROVE  TypeOK'
  <2>1. req' \in [Requests -> Request]
    BY <1>13, GoToTyped DEF UpsertBootstrapSuperAdmin, Done
  <2>2. req[r].number \in Numbers /\ req[r].hash \in Passwords
    BY <1>13 DEF UpsertBootstrapSuperAdmin, TypeOK, Request
  <2>3. ASSUME NEW a \in Admins,
               admin' = [admin EXCEPT ![a] = NewAdmin(req[r].number, req[r].hash, "super_admin")],
               token' = IF req[r].wizard THEN token \cup {[who |-> a, role |-> "super_admin"]} ELSE token,
               wanted' = [wanted EXCEPT ![a] = req[r].hash],
               claims' = claims + 1, Changes(r)
        PROVE  TypeOK'
    <3>1. NewAdmin(req[r].number, req[r].hash, "super_admin") \in Row
      BY <2>2, NewAdminTyped DEF Hash, Role
    <3>2. admin' \in [Admins -> Row]
      BY <2>3, <3>1 DEF TypeOK
    <3>3. token' \in SUBSET Token
      BY <2>3 DEF TypeOK, Token, Role
    <3>4. wanted' \in [Admins -> Hash]
      BY <2>2, <2>3 DEF TypeOK, Hash
    <3>5. outdated' \in SUBSET Requests /\ reopened' \in BOOLEAN
      BY <2>3, ChangesTyped
    <3> QED
      BY <1>13, <2>1, <2>3, <3>2, <3>3, <3>4, <3>5 DEF UpsertBootstrapSuperAdmin, TypeOK
  <2>4. CASE UNCHANGED <<admin, token, wanted, claims, outdated, reopened>>
    BY <1>13, <2>1, <2>4 DEF UpsertBootstrapSuperAdmin, TypeOK
  <2> QED  BY <1>13, <2>3, <2>4 DEF UpsertBootstrapSuperAdmin
<1>14. ASSUME NEW r \in Requests, CountActiveSuperAdmins(r)
       PROVE  TypeOK'
  <2>1. req' \in [Requests -> Request]
    <3>1. req[r].who \in Admins /\ req[r].row \in Row
      BY <1>14 DEF CountActiveSuperAdmins, TypeOK, Request
    <3>2. [pc |-> "delete", who |-> req[r].who] \in Request
      BY <3>1 DEF Request
    <3> QED  BY <1>14, <3>1, <3>2, StoreTyped, GoToTyped DEF CountActiveSuperAdmins, Done
  <2> QED  BY <1>14, <2>1 DEF CountActiveSuperAdmins, TypeOK, history
<1>15. ASSUME NEW r \in Requests, Update(r)
       PROVE  TypeOK'
  <2>1. req[r].who \in Admins /\ req[r].row \in Row
    BY <1>15 DEF Update, TypeOK, Request
  <2>2. req' \in [Requests -> Request]
    BY <1>15, GoToTyped DEF Update, Done
  <2>3. admin' \in [Admins -> Row]
    BY <1>15, <2>1 DEF Update, TypeOK, Row
  <2>4. token' \in SUBSET Token
    BY <1>15, <2>1 DEF Update, TypeOK, Token, Row
  <2>5. wanted' \in [Admins -> Hash]
    BY <1>15, <2>1 DEF Update, TypeOK, Row
  <2>6. outdated' \in SUBSET Requests /\ reopened' \in BOOLEAN
    BY <1>15, ChangesTyped DEF Update
  <2> QED  BY <1>15, <2>2, <2>3, <2>4, <2>5, <2>6 DEF Update, TypeOK
<1>16. ASSUME NEW r \in Requests, SoftDelete(r)
       PROVE  TypeOK'
  <2>1. req[r].who \in Admins
    BY <1>16 DEF SoftDelete, TypeOK, Request
  <2>2. req' \in [Requests -> Request]
    BY <1>16, GoToTyped DEF SoftDelete, Done
  <2>3. admin' \in [Admins -> Row]
    BY <1>16, <2>1 DEF SoftDelete, TypeOK, Row
  <2>4. outdated' \in SUBSET Requests /\ reopened' \in BOOLEAN
    BY <1>16, ChangesTyped DEF SoftDelete
  <2> QED  BY <1>16, <2>2, <2>3, <2>4 DEF SoftDelete, TypeOK
<1>17. ASSUME NEW r \in Requests, Fail(r)
       PROVE  TypeOK'
  BY <1>17, GoToTyped DEF Fail, Done, TypeOK, history
<1> QED
  BY Steps, <1>1, <1>2, <1>3, <1>6, <1>7, <1>8, <1>9, <1>10, <1>11, <1>12, <1>13, <1>14, <1>15, <1>16, <1>17


\* Rows, tokens, requests and histories keep their types.
THEOREM TypeCorrect == Spec => []TypeOK
BY TypeInit, TypeStep, PTL DEF Spec

-----------------------------------------------------------------------------
(***************************************************************************)
(* The invariant                                                           *)
(***************************************************************************)

LEMMA InvInit == Init => IInv
<1> SUFFICES ASSUME Init PROVE IInv
  OBVIOUS
<1>1. TypeOK
  BY TypeInit
<1>2. SeedAdmin \in ActiveSuper
  BY RosterAssumption DEF Init, ActiveSuper, Super, Live, NewAdmin
<1>3. SuperAdminRemains
  BY <1>2 DEF SuperAdminRemains
<1>4. RequestsSound
  BY DEF Init, RequestsSound, Sound
<1>5. PasswordsKept
  BY DEF Init, PasswordsKept, Live, NewAdmin
<1> QED
  BY <1>1, <1>3, <1>4, <1>5 DEF Init, IInv, SetupStands, SetupOnce

\* A step that stores no row keeps the invariant if its request stays sound.
LEMMA Quiet ==
  ASSUME IInv, TypeOK', NEW r \in Requests, NEW state, GoTo(r, state), Sound(state) \/ r \in outdated',
         outdated \ {r} \in SUBSET outdated',
         UNCHANGED <<admin, wanted, claims, reopened, overlapped>>
  PROVE  IInv'
<1>1. RequestsSound'
  <2> SUFFICES ASSUME NEW q \in Requests, q \notin outdated' PROVE Sound(req[q])'
    BY DEF RequestsSound
  <2>1. CASE q = r
    <3>1. req'[q] = state /\ Sound(state)
      BY <2>1 DEF GoTo, IInv, TypeOK
    <3> QED  BY <3>1 DEF Sound, Leaves, ActiveSuper, Super, Live, OthersLeft
  <2>2. CASE q # r
    <3>1. req'[q] = req[q] /\ Sound(req[q])
      BY <2>2 DEF GoTo, IInv, TypeOK, RequestsSound
    <3> QED  BY <3>1 DEF Sound, Leaves, ActiveSuper, Super, Live, OthersLeft
  <2> QED  BY <2>1, <2>2
<1> QED
  BY <1>1 DEF IInv, SuperAdminRemains, SetupStands, SetupOnce, PasswordsKept,
              HasUsableSuperAdmin, ActiveSuper, Super, Live

\* Whoever starts is no longer outdated, and must be sound.
LEMMA StartKeeps ==
  ASSUME IInv, TypeOK', NEW r \in Requests, NEW state, Starts(r), GoTo(r, state), Sound(state)
  PROVE  IInv'
BY Quiet DEF Starts

\* Storing a row as it was just read takes nobody's place away.
LEMMA FreshStore ==
  ASSUME TypeOK, NEW a \in Admins, NEW why \in {"sign-in", "other"}
  PROVE  Sound(Store(a, Find(a), why))
BY DEF Sound, Store, Find, Leaves, ActiveSuper, Super

\* A step that stores a row outdates all others and ends its own request.
LEMMA OthersOutdated ==
  ASSUME IInv, NEW r \in Requests, Changes(r), Done(r)
  PROVE  RequestsSound'
<1> SUFFICES ASSUME NEW q \in Requests, q \notin outdated' PROVE Sound(req[q])'
  BY DEF RequestsSound
<1>1. CASE q = r
  BY <1>1 DEF Done, GoTo, IInv, TypeOK, Sound
<1>2. CASE q # r
  <2>1. admin' = admin /\ q \notin outdated
    BY <1>2 DEF Changes
  <2>2. req'[q] = req[q] /\ Sound(req[q])
    BY <1>2, <2>1 DEF Done, GoTo, IInv, TypeOK, RequestsSound
  <2> QED  BY <2>1, <2>2 DEF Sound, Leaves, ActiveSuper, Super, Live, OthersLeft
<1> QED  BY <1>1, <1>2

LEMMA StartStep ==
  ASSUME IInv, TypeOK', NEW r \in Requests, SetupRoutes(r) \/ OwnRoutes(r) \/ ManagementRoutes(r)
  PROVE  IInv'
<1> USE DEF IInv
<1>1. ASSUME NEW n \in Numbers, NEW h \in Passwords, NEW wizard \in BOOLEAN, Bootstrap(r, n, h, wizard)
      PROVE  IInv'
  <2>1. Sound([pc |-> "claim", number |-> n, hash |-> h, wizard |-> wizard])
    BY DEF Sound
  <2> QED  BY <1>1, <2>1, StartKeeps DEF Bootstrap
<1>2. ASSUME NEW a \in Admins, VerifyOTP(r, a) \/ \E h \in Passwords : Login(r, a, h)
      PROVE  IInv'
  BY <1>2, FreshStore, StartKeeps DEF VerifyOTP, Login
<1>3. ASSUME NEW t \in token, Logout(r, t) \/ UpdateProfile(r, t)
      PROVE  IInv'
  <2>1. t.who \in Admins
    BY DEF TypeOK, Token
  <2> QED  BY <1>3, <2>1, FreshStore, StartKeeps DEF Logout, UpdateProfile
<1>4. ASSUME NEW t \in token, NEW h \in Passwords, SetupPassword(r, t, h)
      PROVE  IInv'
  <2>1. t.who \in Admins
    BY DEF TypeOK, Token
  <2>2. Find(t.who).active = admin[t.who].active /\ Find(t.who) \in Row
    BY <2>1 DEF Find, TypeOK
  <2>3. Sound(Store(t.who, [Find(t.who) EXCEPT !.hash = h], "password"))
    BY <2>1, <2>2 DEF Sound, Store, Leaves, ActiveSuper, Super, Row
  <2> QED  BY <1>4, <2>3, StartKeeps DEF SetupPassword
<1>5. ASSUME NEW t \in token, NEW role \in Role, NEW n \in Numbers, NEW h \in Passwords \cup {NoHash},
             CreateAdmin(r, t, n, h, role)
      PROVE  IInv'
  <2>1. Sound([pc |-> "create", row |-> NewAdmin(n, h, role)])
    BY DEF Sound
  <2> QED  BY <1>5, <2>1, StartKeeps DEF CreateAdmin
<1>6. ASSUME NEW t \in token, NEW a \in Admins, DeleteAdmin(r, t, a)
      PROVE  IInv'
  <2>1. CASE admin[a].role = "super_admin"
    <3>1. Sound([pc |-> "count", who |-> a, row |-> Find(a), then |-> "delete"])
      BY DEF Sound, Find
    <3> QED  BY <1>6, <2>1, <3>1, StartKeeps DEF DeleteAdmin
  <2>2. CASE admin[a].role # "super_admin"
    <3>1. Sound([pc |-> "delete", who |-> a])
      BY <2>2 DEF Sound, Leaves, ActiveSuper, Super
    <3> QED  BY <1>6, <2>2, <3>1, StartKeeps DEF DeleteAdmin
  <2> QED  BY <2>1, <2>2
<1>7. ASSUME NEW t \in token, NEW a \in Admins, NEW role \in Role, NEW active \in BOOLEAN,
             UpdateAdmin(r, t, a, role, active)
      PROVE  IInv'
  <2> DEFINE row == [Find(a) EXCEPT !.role = role, !.active = active]
  <2>1. row.hash = admin[a].hash /\ row.active = active
    BY DEF Find, TypeOK, Row
  <2>2. CASE ~active /\ a \in ActiveSuper
    <3>1. GoTo(r, [pc |-> "count", who |-> a, row |-> row, then |-> "store"])
      BY <1>7, <2>2 DEF UpdateAdmin, ActiveSuper, Super
    <3>2. Sound([pc |-> "count", who |-> a, row |-> row, then |-> "store"])
      BY <2>1 DEF Sound
    <3> HIDE DEF row
    <3> QED  BY <1>7, <3>1, <3>2, StartKeeps DEF UpdateAdmin
  <2>3. CASE active \/ a \notin ActiveSuper
    <3>1. \/ GoTo(r, [pc |-> "count", who |-> a, row |-> row, then |-> "store"])
          \/ GoTo(r, Store(a, row, "other"))
      BY <1>7 DEF UpdateAdmin
    <3> HIDE DEF row
    <3>2. Sound([pc |-> "count", who |-> a, row |-> row, then |-> "store"])
      BY <2>1 DEF Sound
    <3>3. Sound(Store(a, row, "other"))
      BY <2>1, <2>3 DEF Sound, Store, Leaves
    <3>4. Starts(r)
      BY <1>7 DEF UpdateAdmin
    <3> QED  BY <3>1, <3>2, <3>3, <3>4, StartKeeps
  <2> QED  BY <2>2, <2>3
<1> QED
  BY <1>1, <1>2, <1>3, <1>4, <1>5, <1>6, <1>7 DEF SetupRoutes, OwnRoutes, ManagementRoutes

LEMMA CountStep ==
  ASSUME IInv, TypeOK', NEW r \in Requests, CountActiveSuperAdmins(r)
  PROVE  IInv'
<1> DEFINE q == req[r]
<1>1. Sound([pc |-> "idle"])
  BY DEF Sound
<1>2. ASSUME r \notin outdated, OthersLeft
      PROVE  Sound(Store(q.who, q.row, "other")) /\ Sound([pc |-> "delete", who |-> q.who])
  <2>1. q.row.hash = admin[q.who].hash
    BY <1>2 DEF CountActiveSuperAdmins, IInv, RequestsSound, Sound
  <2> QED  BY <1>2, <2>1 DEF Sound, Store, Leaves
<1>3. outdated' = outdated /\ UNCHANGED <<admin, wanted, claims, reopened, overlapped>>
  BY DEF CountActiveSuperAdmins, history
<1>4. CASE ~OthersLeft
  BY <1>1, <1>3, <1>4, Quiet DEF CountActiveSuperAdmins, Done
<1>5. CASE OthersLeft
  <2>1. \/ GoTo(r, Store(q.who, q.row, "other"))
        \/ GoTo(r, [pc |-> "delete", who |-> q.who])
    BY <1>5 DEF CountActiveSuperAdmins
  <2> HIDE DEF q
  <2> QED  BY <1>2, <1>3, <1>5, <2>1, Quiet
<1> QED  BY <1>4, <1>5

LEMMA ClaimStep ==
  ASSUME IInv, TypeOK', NEW r \in Requests, UpsertBootstrapSuperAdmin(r)
  PROVE  IInv'
<1> DEFINE q == req[r]
<1>1. ASSUME NEW a \in Admins, Gate, Claimed(q, a), Changes(r),
             admin' = [admin EXCEPT ![a] = NewAdmin(q.number, q.hash, "super_admin")],
             wanted' = [wanted EXCEPT ![a] = q.hash], claims' = claims + 1
      PROVE  IInv'
  <2>1. RequestsSound'
    BY <1>1, OthersOutdated DEF UpsertBootstrapSuperAdmin
  <2>2. q.hash \notin Placeholder
    BY RosterAssumption DEF UpsertBootstrapSuperAdmin, IInv, TypeOK, Request
  <2>3. admin'[a] = NewAdmin(q.number, q.hash, "super_admin")
    BY <1>1 DEF IInv, TypeOK
  <2>4. a \in ActiveSuper' /\ admin'[a].hash \notin Placeholder
    BY <2>2, <2>3 DEF ActiveSuper, Super, Live, NewAdmin
  <2>5. SuperAdminRemains' /\ SetupStands'
    BY <2>4 DEF SuperAdminRemains, SetupStands, HasUsableSuperAdmin
  <2>6. SetupOnce'
    <3>1. claims' > 1 => claims > 0
      BY <1>1 DEF IInv, TypeOK
    <3>2. (reopened => reopened') /\ overlapped' = overlapped
      BY <1>1 DEF Changes, UpsertBootstrapSuperAdmin
    <3> QED  BY <1>1, <3>1, <3>2 DEF IInv, SetupStands, SetupOnce, Gate
  <2>7. PasswordsKept'
    <3> SUFFICES ASSUME ~overlapped', NEW b \in Live' PROVE admin'[b].hash = wanted'[b]
      BY DEF PasswordsKept
    <3>1. ~overlapped
      BY DEF UpsertBootstrapSuperAdmin
    <3>2. CASE b = a
      BY <1>1, <2>3, <3>2 DEF NewAdmin, IInv, TypeOK
    <3>3. CASE b # a
      <4>1. admin'[b] = admin[b] /\ wanted'[b] = wanted[b] /\ b \in Admins
        BY <1>1, <3>3 DEF IInv, TypeOK, Live
      <4> QED  BY <3>1, <4>1 DEF IInv, PasswordsKept, Live
    <3> QED  BY <3>2, <3>3
  <2> QED  BY <2>1, <2>5, <2>6, <2>7 DEF IInv
<1>2. CASE UNCHANGED <<admin, token, wanted, claims, outdated, reopened>>
  <2>1. Sound([pc |-> "idle"])
    BY DEF Sound
  <2> QED  BY <1>2, <2>1, Quiet DEF UpsertBootstrapSuperAdmin, Done
<1> QED  BY <1>1, <1>2 DEF UpsertBootstrapSuperAdmin

LEMMA CreateStep ==
  ASSUME IInv, TypeOK', NEW r \in Requests, NEW a \in Admins, Create(r, a)
  PROVE  IInv'
<1>1. CASE Taken(req[r].row.number, {})
  <2>1. Sound([pc |-> "idle"])
    BY DEF Sound
  <2> QED  BY <1>1, <2>1, Quiet DEF Create, Done
<1>2. CASE ~Taken(req[r].row.number, {})
  <2>1. RequestsSound'
    BY <1>2, OthersOutdated DEF Create
  <2>2. admin'[a] = req[r].row /\ wanted'[a] = req[r].row.hash
    BY <1>2 DEF Create, IInv, TypeOK
  <2>3. \A b \in Admins \ {a} : admin'[b] = admin[b] /\ wanted'[b] = wanted[b]
    BY <1>2 DEF Create, IInv, TypeOK
  <2>4. a \notin Live
    BY DEF Create, Live
  <2>5. \A b \in Live : admin'[b] = admin[b] /\ b \in Live'
    BY <2>3, <2>4 DEF Live
  <2>6. ActiveSuper \in SUBSET ActiveSuper'
    BY <2>5 DEF ActiveSuper, Super, Live
  <2>7. SuperAdminRemains'
    BY <2>6 DEF IInv, SuperAdminRemains, Create
  <2>8. claims' = claims /\ overlapped' = overlapped /\ (reopened => reopened')
    BY <1>2 DEF Create, Changes
  <2>9. HasUsableSuperAdmin => HasUsableSuperAdmin'
    BY <2>5, <2>6 DEF HasUsableSuperAdmin, ActiveSuper, Super
  <2>10. SetupStands' /\ SetupOnce'
    BY <2>8, <2>9 DEF IInv, SetupStands, SetupOnce
  <2>11. PasswordsKept'
    <3> SUFFICES ASSUME ~overlapped', NEW b \in Live' PROVE admin'[b].hash = wanted'[b]
      BY DEF PasswordsKept
    <3>1. b \in Admins
      BY DEF Live
    <3> QED  BY <2>2, <2>3, <2>8, <3>1 DEF IInv, PasswordsKept, Live
  <2> QED  BY <2>1, <2>7, <2>10, <2>11 DEF IInv
<1> QED  BY <1>1, <1>2

LEMMA UpdateStep ==
  ASSUME IInv, TypeOK', NEW r \in Requests, Update(r)
  PROVE  IInv'
<1> DEFINE q == req[r]
           w == q.who
<1>1. RequestsSound'
  BY OthersOutdated DEF Update
<1>2. claims' = claims /\ (reopened => reopened') /\ (overlapped => overlapped')
  BY DEF Update, Changes
<1>3. SetupOnce'
  BY <1>2 DEF IInv, SetupOnce
<1>4. CASE overlapped'
  BY <1>1, <1>3, <1>4 DEF IInv, SuperAdminRemains, SetupStands, PasswordsKept
<1>5. CASE ~overlapped'
  <2>1. ~overlapped /\ r \notin outdated
    BY <1>5 DEF Update
  <2>2. Sound(q) /\ q.pc = "store"
    BY <2>1 DEF IInv, RequestsSound, Update
  <2>3. w \in Admins
    BY DEF Update, IInv, TypeOK, Request
  <2>4. \A b \in Admins \ {w} : admin'[b] = admin[b]
    BY DEF Update, IInv, TypeOK
  <2>5. /\ admin'[w].hash = q.row.hash /\ admin'[w].active = q.row.active
        /\ admin'[w].state = admin[w].state /\ admin'[w].role = admin[w].role
    BY <2>3 DEF Update, IInv, TypeOK, Row
  <2>6. admin' \in [Admins -> Row] /\ admin \in [Admins -> Row]
    BY DEF IInv, TypeOK
  <2>7. Live' = Live /\ Super' = Super
    BY <2>4, <2>5 DEF Live, Super
  <2>8. SuperAdminRemains'
    <3>1. Leaves(w, q.row.active)
      BY <2>2 DEF Sound
    <3>2. PICK a \in ActiveSuper : a # w \/ q.row.active
      BY <2>1, <3>1 DEF IInv, SuperAdminRemains, Leaves, OthersLeft
    <3>3. admin'[a].active
      BY <2>4, <2>5, <3>2 DEF ActiveSuper, Super, Live
    <3>4. a \in ActiveSuper'
      BY <2>7, <3>3 DEF ActiveSuper
    <3> QED  BY <3>4 DEF SuperAdminRemains
  <2>9. SetupStands'
    <3> SUFFICES ASSUME claims' > 0, ~reopened' PROVE HasUsableSuperAdmin'
      BY DEF SetupStands
    <3>1. PICK a \in ActiveSuper : admin[a].hash \notin Placeholder
      BY <1>2, <2>1 DEF IInv, SetupStands, HasUsableSuperAdmin
    <3>2. a \in Live /\ a \in Super /\ admin[a].active /\ a \in Admins
      BY <3>1 DEF ActiveSuper, Super, Live
    <3>3. admin'[a].active
      BY <3>2 DEF Update, Changes
    <3>4. a \in ActiveSuper'
      BY <2>7, <3>2, <3>3 DEF ActiveSuper
    <3>5. admin'[a].hash \notin Placeholder
      BY <2>2, <2>4, <2>5, <3>1, <3>2, RosterAssumption DEF Sound
    <3> QED  BY <3>4, <3>5 DEF HasUsableSuperAdmin
  <2>10. PasswordsKept'
    <3> SUFFICES ASSUME NEW b \in Live' PROVE admin'[b].hash = wanted'[b]
      BY DEF PasswordsKept
    <3>1. b \in Live /\ b \in Admins /\ admin[b].hash = wanted[b]
      BY <2>1, <2>7 DEF IInv, PasswordsKept, Live
    <3>2. CASE b # w
      <4>1. wanted'[b] = wanted[b]
        BY <3>1, <3>2 DEF Update, IInv, TypeOK
      <4> QED  BY <2>4, <3>1, <3>2, <4>1
    <3>3. CASE b = w /\ q.why = "password"
      <4>1. wanted'[w] = q.row.hash
        BY <2>3, <3>3 DEF Update, IInv, TypeOK
      <4> QED  BY <2>5, <3>3, <4>1
    <3>4. CASE b = w /\ q.why # "password"
      <4>1. wanted' = wanted
        BY <3>4 DEF Update
      <4> QED  BY <2>2, <2>5, <3>1, <3>4, <4>1 DEF Sound
    <3> QED  BY <3>2, <3>3, <3>4
  <2> QED  BY <1>1, <1>3, <2>8, <2>9, <2>10 DEF IInv
<1> QED  BY <1>4, <1>5

LEMMA DeleteStep ==
  ASSUME IInv, TypeOK', NEW r \in Requests, SoftDelete(r)
  PROVE  IInv'
<1> DEFINE w == req[r].who
<1>1. RequestsSound'
  BY OthersOutdated DEF SoftDelete
<1>2. claims' = claims /\ wanted' = wanted /\ (reopened => reopened') /\ (overlapped => overlapped')
  BY DEF SoftDelete, Changes
<1>3. SetupOnce'
  BY <1>2 DEF IInv, SetupOnce
<1>4. CASE overlapped'
  BY <1>1, <1>3, <1>4 DEF IInv, SuperAdminRemains, SetupStands, PasswordsKept
<1>5. CASE ~overlapped'
  <2>1. ~overlapped /\ r \notin outdated
    BY <1>5 DEF SoftDelete
  <2>2. Leaves(w, FALSE)
    BY <2>1 DEF IInv, RequestsSound, Sound, SoftDelete
  <2>3. \A b \in Admins \ {w} : admin'[b] = admin[b]
    BY DEF SoftDelete, IInv, TypeOK
  <2>4. w \in Live => ~admin'[w].active /\ admin'[w].state = "deleted"
    BY DEF SoftDelete, IInv, TypeOK, Row, Live
  <2>5. w \notin Live => admin' = admin
    BY DEF SoftDelete
  <2>6. \A b \in Live' : b \in Live /\ admin'[b] = admin[b]
    BY <2>3, <2>4, <2>5 DEF Live
  <2>7. PasswordsKept'
    BY <1>2, <2>1, <2>6 DEF IInv, PasswordsKept
  <2>8. SuperAdminRemains'
    <3>1. PICK a \in ActiveSuper : a # w
      BY <2>1, <2>2 DEF IInv, SuperAdminRemains, Leaves, OthersLeft
    <3>2. a \in ActiveSuper'
      BY <2>3, <3>1 DEF ActiveSuper, Super, Live
    <3> QED  BY <3>2 DEF SuperAdminRemains
  <2>9. SetupStands'
    <3> SUFFICES ASSUME claims' > 0, ~reopened' PROVE HasUsableSuperAdmin'
      BY DEF SetupStands
    <3>1. PICK a \in ActiveSuper : admin[a].hash \notin Placeholder
      BY <1>2, <2>1 DEF IInv, SetupStands, HasUsableSuperAdmin
    <3>2. a \in Live /\ admin[a].active
      BY <3>1 DEF ActiveSuper, Super
    <3>3. admin'[a].active
      BY <3>2 DEF SoftDelete, Changes
    <3>4. admin'[a] = admin[a]
      BY <2>3, <2>4, <2>5, <3>2, <3>3 DEF Live
    <3>5. a \in ActiveSuper'
      BY <3>1, <3>4 DEF ActiveSuper, Super, Live
    <3> QED  BY <3>1, <3>4, <3>5 DEF HasUsableSuperAdmin
  <2> QED  BY <1>1, <1>3, <2>7, <2>8, <2>9 DEF IInv
<1> QED  BY <1>4, <1>5

LEMMA InvStep == IInv /\ [Next]_vars => IInv'
<1> SUFFICES ASSUME IInv, [Next]_vars PROVE IInv'
  OBVIOUS
<1>1. TypeOK'
  BY TypeStep DEF IInv
<1>2. CASE UNCHANGED vars
  <2>1. RequestsSound'
    BY <1>2 DEF vars, history, IInv, RequestsSound, Sound, Leaves, ActiveSuper, Super, Live, OthersLeft
  <2> QED
    BY <1>1, <1>2, <2>1 DEF vars, history, IInv, SuperAdminRemains, SetupStands, SetupOnce,
       PasswordsKept, HasUsableSuperAdmin, ActiveSuper, Super, Live
<1>3. ASSUME NEW t \in token, TokenExpires(t)
      PROVE  IInv'
  <2>1. RequestsSound'
    BY <1>3 DEF TokenExpires, history, IInv, RequestsSound, Sound, Leaves, ActiveSuper, Super, Live, OthersLeft
  <2> QED
    BY <1>1, <1>3, <2>1 DEF TokenExpires, history, IInv, SuperAdminRemains, SetupStands, SetupOnce,
       PasswordsKept, HasUsableSuperAdmin, ActiveSuper, Super, Live
<1>4. ASSUME NEW r \in Requests, Fail(r)
      PROVE  IInv'
  <2>1. Sound([pc |-> "idle"])
    BY DEF Sound
  <2> QED  BY <1>1, <1>4, <2>1, Quiet DEF Fail, Done, history
<1> QED
  BY <1>1, <1>2, <1>3, <1>4, StartStep, CountStep, ClaimStep, CreateStep, UpdateStep, DeleteStep
     DEF Next, Statements

LEMMA Invariant == Spec => []IInv
BY InvInit, InvStep, PTL DEF Spec

\* As long as no request stores or deletes a row after another one changed the
\* table under it, the rules keep an active super admin.
THEOREM SuperAdminStays == Spec => []SuperAdminRemains
<1>1. IInv => SuperAdminRemains
  BY DEF IInv
<1> QED  BY <1>1, Invariant, PTL

\* Setup goes through once, until an admin is removed or a stale row stored.
THEOREM SetupHappensOnce == Spec => []SetupOnce
<1>1. IInv => SetupOnce
  BY DEF IInv
<1> QED  BY <1>1, Invariant, PTL

\* Stores that nothing overtook leave every admin's password as it was given.
THEOREM PasswordsAreKept == Spec => []PasswordsKept
<1>1. IInv => PasswordsKept
  BY DEF IInv
<1> QED  BY <1>1, Invariant, PTL

=============================================================================
