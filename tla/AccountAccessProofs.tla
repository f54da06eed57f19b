------------------------ MODULE AccountAccessProofs ------------------------
(***************************************************************************)
(* Proofs about AccountAccess, for any numbers, codes and requests.  The   *)
(* cache: an entry under a number always has the entry under its id, so    *)
(* marking a code as used finds it.  The rows: every row about to be       *)
(* stored is verified, so no token outlives its user's verification.       *)
(***************************************************************************)
EXTENDS AccountAccess, TLAPS

-----------------------------------------------------------------------------
(***************************************************************************)
(* Types                                                                   *)
(***************************************************************************)

\* The steps of requests, one by one.
LEMMA Steps ==
  ASSUME Next
  PROVE  \/ \E id \in Code : Expire(id)
         \/ \E p \in token : TokenExpires(p)
         \/ \E r \in Requests :
              \/ \E p \in Phones : Register(r, p) \/ ForgotPassword(r, p) \/ InitiateLogin(r, p)
              \/ \E p \in Phones, code \in 1..minted : VerifyOTP(r, p, code)
              \/ \E id, code \in 1..minted : FindByID(r, id, code)
              \/ \E p \in Phones : Login(r, p)
              \/ \E p \in Phones, name \in Names : UpdateProfile(r, p, name)
              \/ InvalidatePreviousOTPs(r) \/ Create(r) \/ FindValidByPhone(r)
              \/ MarkAsUsed(r) \/ Delete(r) \/ Insert(r) \/ Load(r) \/ Update(r) \/ Fail(r)
<1> USE DEF Next, AskRoutes, GiveRoutes, UserRoutes, Cache, Statements
<1>1. SUFFICES ASSUME NEW r \in Requests, GiveRoutes(r)
               PROVE  \/ \E p \in Phones, code \in 1..minted : VerifyOTP(r, p, code)
                      \/ \E id, code \in 1..minted : FindByID(r, id, code)
  BY Zenon
<1> QED  BY <1>1, Zenon

LEMMA GoToTyped ==
  ASSUME TypeOK, NEW r \in Requests, NEW state \in Request, GoTo(r, state)
  PROVE  req' \in [Requests -> Request]
BY DEF TypeOK, GoTo

LEMMA IdleTyped == [pc |-> "idle"] \in Request
BY DEF Request

LEMMA AskTyped ==
  ASSUME NEW p \in Phones, NEW pc \in {"insert", "invalidate", "create"}
  PROVE  [pc |-> pc, phone |-> p] \in Request
BY DEF Request

LEMMA StoreTyped ==
  ASSUME NEW p \in Phones, NEW row \in User, NEW verifies \in BOOLEAN
  PROVE  Store(p, row, verifies) \in Request
BY DEF Store, Request

LEMMA StartsTyped ==
  ASSUME TypeOK, NEW r \in Requests, Starts(r), req' \in [Requests -> Request], token' \in SUBSET Phones
  PROVE  TypeOK'
<1>1. served' \in 0..MaxServed
  BY AccessAssumption DEF TypeOK, Starts
<1>2. outdated' \in SUBSET Requests
  BY DEF TypeOK, Starts
<1> QED  BY <1>1, <1>2 DEF TypeOK, Starts

LEMMA ChangesTyped ==
  ASSUME TypeOK, NEW r \in Requests, Changes(r)
  PROVE  outdated' \in SUBSET Requests
BY DEF TypeOK, Changes

LEMMA TypeInit == Init => TypeOK
<1> SUFFICES ASSUME Init PROVE TypeOK
  OBVIOUS
<1>1. user \in [Phones -> User] /\ wanted \in [Phones -> Names]
  BY AccessAssumption DEF Init, User
<1>2. otp \in [Phones -> 0..MaxCodes] /\ awaited \in [Phones -> 0..MaxCodes]
  BY AccessAssumption DEF Init
<1>3. index \in [Code -> Phones \cup {NoPhone}]
  BY DEF Init
<1>4. req \in [Requests -> Request]
  BY IdleTyped DEF Init
<1>5. served \in 0..MaxServed /\ minted \in 0..MaxCodes
  BY AccessAssumption DEF Init
<1>6. used \in SUBSET Code /\ proved \in SUBSET Phones /\ token \in SUBSET Phones /\ outdated \in SUBSET Requests
  BY DEF Init
<1>7. overtaken \in BOOLEAN /\ overlapped \in BOOLEAN
  BY DEF Init
<1> QED  BY <1>1, <1>2, <1>3, <1>4, <1>5, <1>6, <1>7 DEF TypeOK

\* Past the code, the request goes on and the number counts as proved.
LEMMA AdmittedTyped ==
  ASSUME TypeOK, NEW r \in Requests, NEW p \in Phones, NEW admin, Admitted(r, p, admin)
  PROVE  proved' \in SUBSET Phones /\ req' \in [Requests -> Request]
<1>1. [pc |-> "load", phone |-> p] \in Request
  BY DEF Request
<1>2. req' \in [Requests -> Request]
  BY <1>1, IdleTyped, GoToTyped DEF Admitted, Done
<1> QED  BY <1>2 DEF Admitted, TypeOK

LEMMA TypeStep == TypeOK /\ [Next]_vars => TypeOK'
<1> SUFFICES ASSUME TypeOK, [Next]_vars PROVE TypeOK'
  OBVIOUS
<1> USE IdleTyped
<1>1. CASE UNCHANGED vars
  BY <1>1 DEF vars, history, TypeOK
<1>2. ASSUME NEW id \in Code, Expire(id) PROVE TypeOK'
  <2>1. otp' \in [Phones -> 0..MaxCodes] /\ awaited' \in [Phones -> 0..MaxCodes]
    BY <1>2, AccessAssumption DEF Expire, TypeOK
  <2>2. index' \in [Code -> Phones \cup {NoPhone}]
    BY <1>2 DEF Expire, TypeOK
  <2> QED  BY <1>2, <2>1, <2>2 DEF Expire, TypeOK, rows
<1>3. ASSUME NEW p \in token, TokenExpires(p) PROVE TypeOK'
  BY <1>3 DEF TokenExpires, TypeOK, rows, cache
<1>4. ASSUME NEW r \in Requests, NEW p \in Phones,
             Register(r, p) \/ ForgotPassword(r, p) \/ InitiateLogin(r, p)
      PROVE  TypeOK'
  <2>1. Starts(r) /\ token' = token /\ token' \in SUBSET Phones
    BY <1>4 DEF Register, ForgotPassword, InitiateLogin, TypeOK
  <2>2. req' \in [Requests -> Request]
    BY <1>4, AskTyped, GoToTyped DEF Register, ForgotPassword, InitiateLogin
  <2> QED  BY <2>1, <2>2, StartsTyped
<1>5. ASSUME NEW r \in Requests, NEW p \in Phones, NEW code \in 1..minted, NEW admin \in BOOLEAN,
             Starts(r), GoTo(r, [pc |-> "find", phone |-> p, code |-> code, admin |-> admin]),
             token' = token
      PROVE  TypeOK'
  <2>1. code \in Code
    BY AccessAssumption DEF TypeOK, Code
  <2>2. [pc |-> "find", phone |-> p, code |-> code, admin |-> admin] \in Request
    BY <2>1 DEF Request
  <2>3. token' \in SUBSET Phones
    BY <1>5 DEF TypeOK
  <2> QED  BY <1>5, <2>2, <2>3, GoToTyped, StartsTyped
<1>6. ASSUME NEW r \in Requests, NEW p \in Phones, NEW code \in 1..minted, VerifyOTP(r, p, code)
      PROVE  TypeOK'
  BY <1>5, <1>6 DEF VerifyOTP
<1>7. ASSUME NEW r \in Requests, NEW id \in 1..minted, NEW code \in 1..minted, FindByID(r, id, code)
      PROVE  TypeOK'
  <2>1. id \in Code
    BY AccessAssumption DEF TypeOK, Code
  <2>2. index[id] \in Phones
    BY <1>7, <2>1 DEF FindByID, TypeOK
  <2> QED  BY <1>5, <1>7, <2>2 DEF FindByID
<1>8. ASSUME NEW r \in Requests, NEW p \in Phones, Login(r, p)
      PROVE  TypeOK'
  <2>1. req' \in [Requests -> Request] /\ token' \in SUBSET Phones
    BY <1>8 DEF Login, TypeOK
  <2> QED  BY <1>8, <2>1, StartsTyped DEF Login
<1>9. ASSUME NEW r \in Requests, NEW p \in Phones, NEW name \in Names, UpdateProfile(r, p, name)
      PROVE  TypeOK'
  <2>1. [Find(p) EXCEPT !.name = name] \in User
    BY DEF Find, TypeOK, User
  <2>2. req' \in [Requests -> Request] /\ token' \in SUBSET Phones
    BY <1>9, <2>1, StoreTyped, GoToTyped DEF UpdateProfile, TypeOK
  <2> QED  BY <1>9, <2>2, StartsTyped DEF UpdateProfile
<1>10. ASSUME NEW r \in Requests, InvalidatePreviousOTPs(r)
       PROVE  TypeOK'
  <2>1. req[r].phone \in Phones
    BY <1>10 DEF InvalidatePreviousOTPs, TypeOK, Request
  <2>2. req' \in [Requests -> Request]
    BY <1>10, <2>1, AskTyped, GoToTyped DEF InvalidatePreviousOTPs
  <2>3. otp' \in [Phones -> 0..MaxCodes] /\ awaited' \in [Phones -> 0..MaxCodes]
    BY <1>10, <2>1, AccessAssumption DEF InvalidatePreviousOTPs, TypeOK
  <2> QED  BY <1>10, <2>2, <2>3 DEF InvalidatePreviousOTPs, TypeOK, rows
<1>11. ASSUME NEW r \in Requests, Create(r)
       PROVE  TypeOK'
  <2>1. req[r].phone \in Phones
    BY <1>11 DEF Create, TypeOK, Request
  <2>2. minted' \in 0..MaxCodes /\ minted' \in Code /\ minted' = minted + 1
    BY <1>11, AccessAssumption DEF Create, TypeOK, Code
  <2>3. otp' \in [Phones -> 0..MaxCodes] /\ awaited' \in [Phones -> 0..MaxCodes]
    BY <1>11, <2>1, <2>2 DEF Create, TypeOK, Set
  <2>4. index' \in [Code -> Phones \cup {NoPhone}]
    BY <1>11, <2>1, <2>2 DEF Create, TypeOK
  <2>5. req' \in [Requests -> Request]
    BY <1>11, GoToTyped DEF Create, Done
  <2> QED  BY <1>11, <2>2, <2>3, <2>4, <2>5 DEF Create, TypeOK, rows
<1>12. ASSUME NEW r \in Requests, FindValidByPhone(r)
       PROVE  TypeOK'
  <2>1. req[r].phone \in Phones /\ req[r].code \in Code /\ req[r].admin \in BOOLEAN
    BY <1>12 DEF FindValidByPhone, TypeOK, Request
  <2>2. [pc |-> "mark", phone |-> req[r].phone, id |-> req[r].code, admin |-> req[r].admin] \in Request
    BY <2>1 DEF Request
  <2>3. req' \in [Requests -> Request]
    BY <1>12, <2>2, GoToTyped DEF FindValidByPhone, Done
  <2> QED  BY <1>12, <2>3 DEF FindValidByPhone, TypeOK, rows, cache
<1>13. ASSUME NEW r \in Requests, MarkAsUsed(r)
       PROVE  TypeOK'
  <2>1. req[r] \in [pc: {"mark", "delete"}, phone: Phones, id: Code, admin: BOOLEAN]
    BY <1>13 DEF MarkAsUsed, TypeOK, Request
  <2>2. CASE index[req[r].id] # NoPhone
    <3>1. index[req[r].id] \in Phones
      BY <2>1, <2>2 DEF TypeOK
    <3>2. [req[r] EXCEPT !.pc = "delete", !.phone = index[req[r].id]] \in Request
      BY <2>1, <3>1 DEF Request
    <3>3. req' \in [Requests -> Request]
      BY <1>13, <2>2, <3>2, GoToTyped DEF MarkAsUsed
    <3> QED  BY <1>13, <2>2, <3>3 DEF MarkAsUsed, TypeOK, rows
  <2>3. CASE index[req[r].id] = NoPhone
    <3>1. proved' \in SUBSET Phones /\ req' \in [Requests -> Request]
      BY <1>13, <2>1, <2>3, AdmittedTyped DEF MarkAsUsed
    <3>2. used' \in SUBSET Code /\ awaited' \in [Phones -> 0..MaxCodes]
      BY <1>13, <2>1, <2>3, AccessAssumption DEF MarkAsUsed, TypeOK
    <3> QED  BY <1>13, <3>1, <3>2 DEF MarkAsUsed, TypeOK, rows
  <2> QED  BY <2>2, <2>3
<1>14. ASSUME NEW r \in Requests, Delete(r)
       PROVE  TypeOK'
  <2>1. req[r].phone \in Phones /\ req[r].id \in Code
    BY <1>14 DEF Delete, TypeOK, Request
  <2>2. proved' \in SUBSET Phones /\ req' \in [Requests -> Request]
    BY <1>14, <2>1, AdmittedTyped DEF Delete
  <2>3. used' \in SUBSET Code /\ awaited' \in [Phones -> 0..MaxCodes]
    BY <1>14, <2>1, AccessAssumption DEF Delete, TypeOK
  <2>4. otp' \in [Phones -> 0..MaxCodes]
    BY <1>14, <2>1, AccessAssumption DEF Delete, Cleared, TypeOK
  <2>5. index' \in [Code -> Phones \cup {NoPhone}]
    BY <1>14, <2>1 DEF Delete, TypeOK
  <2> QED  BY <1>14, <2>2, <2>3, <2>4, <2>5 DEF Delete, TypeOK, rows
<1>15. ASSUME NEW r \in Requests, Insert(r)
       PROVE  TypeOK'
  <2>1. req[r].phone \in Phones
    BY <1>15 DEF Insert, TypeOK, Request
  <2>2. req' \in [Requests -> Request]
    BY <1>15, <2>1, AskTyped, GoToTyped DEF Insert, Done
  <2>3. user' \in [Phones -> User]
    <3>1. [user[req[r].phone] EXCEPT !.exists = TRUE] \in User
      BY <2>1 DEF TypeOK, User
    <3> QED  BY <1>15, <2>1, <3>1 DEF Insert, TypeOK
  <2>4. outdated' \in SUBSET Requests
    BY <1>15, ChangesTyped DEF Insert, TypeOK
  <2> QED  BY <1>15, <2>2, <2>3, <2>4 DEF Insert, TypeOK, cache
<1>16. ASSUME NEW r \in Requests, Load(r)
       PROVE  TypeOK'
  <2>1. req[r].phone \in Phones
    BY <1>16 DEF Load, TypeOK, Request
  <2>2. MarkVerified(Find(req[r].phone)) \in User
    BY <2>1 DEF MarkVerified, Find, TypeOK, User
  <2>3. req' \in [Requests -> Request]
    BY <1>16, <2>1, <2>2, StoreTyped, GoToTyped DEF Load, Done
  <2> QED  BY <1>16, <2>3 DEF Load, TypeOK, cache
<1>17. ASSUME NEW r \in Requests, Update(r)
       PROVE  TypeOK'
  <2>1. req[r].phone \in Phones /\ req[r].row \in User
    BY <1>17 DEF Update, TypeOK, Request
  <2>2. req' \in [Requests -> Request]
    BY <1>17, GoToTyped DEF Update, Done
  <2>3. user' \in [Phones -> User]
    BY <1>17, <2>1 DEF Update, TypeOK, User
  <2>4. token' \in SUBSET Phones
    BY <1>17, <2>1 DEF Update, TypeOK
  <2>5. wanted' \in [Phones -> Names]
    BY <1>17, <2>1 DEF Update, TypeOK, User
  <2>6. outdated' \in SUBSET Requests
    BY <1>17, ChangesTyped DEF Update
  <2> QED  BY <1>17, <2>2, <2>3, <2>4, <2>5, <2>6 DEF Update, TypeOK, cache
<1>18. ASSUME NEW r \in Requests, Fail(r)
       PROVE  TypeOK'
  BY <1>18, GoToTyped DEF Fail, Done, TypeOK, rows, cache
<1> QED
  BY Steps, <1>1, <1>2, <1>3, <1>4, <1>6, <1>7, <1>8, <1>9, <1>10, <1>11, <1>12, <1>13, <1>14,
     <1>15, <1>16, <1>17, <1>18

\* Rows, cache, tokens, requests and histories keep their types.
THEOREM TypeCorrect == Spec => []TypeOK
BY TypeInit, TypeStep, PTL DEF Spec


-----------------------------------------------------------------------------
(***************************************************************************)
(* The cache                                                               *)
(***************************************************************************)

\* A code under a number has its entry under its id, and was not used.
Backed(p) == otp[p] # 0 => otp[p] <= minted /\ index[otp[p]] = p /\ otp[p] \notin used

\* What a request marks was created, and where its entry led is unchanged.
MarksSound(q) ==
  /\ q.pc = "mark" => q.id <= minted
  /\ q.pc = "delete" => q.id <= minted /\ index[q.id] \in {q.phone, NoPhone}

CacheInv ==
  /\ TypeOK
  /\ \A p \in Phones : Backed(p)
  /\ \A r \in Requests : MarksSound(req[r])
  /\ \A i \in used : i <= minted
  /\ LastCodeStands

LEMMA CacheInit == Init => CacheInv
BY TypeInit DEF Init, CacheInv, Backed, MarksSound, LastCodeStands

\* Steps away from the cache: the step's request must be sound.
LEMMA CacheUntouched ==
  ASSUME CacheInv, TypeOK', UNCHANGED cache, NEW r \in Requests, NEW state, GoTo(r, state), MarksSound(state)
  PROVE  CacheInv'
<1>1. \A q \in Requests : MarksSound(req[q])'
  <2> SUFFICES ASSUME NEW q \in Requests PROVE MarksSound(req[q])'
    OBVIOUS
  <2>1. req'[q] = IF q = r THEN state ELSE req[q]
    BY DEF GoTo, CacheInv, TypeOK
  <2>2. MarksSound(req'[q])
    BY <2>1 DEF CacheInv
  <2> QED  BY <2>2 DEF MarksSound, cache
<1> QED  BY <1>1 DEF CacheInv, cache, Backed, LastCodeStands

LEMMA IdleSound == MarksSound([pc |-> "idle"])
BY DEF MarksSound

LEMMA ExpireKeeps ==
  ASSUME CacheInv, TypeOK', NEW id \in Code, Expire(id)
  PROVE  CacheInv'
<1>1. index' = [index EXCEPT ![id] = NoPhone] /\ used' = used /\ minted' = minted /\ req' = req
  BY DEF Expire
<1>2. \A p \in Phones : Backed(p)'
  BY <1>1 DEF Expire, CacheInv, TypeOK, Backed, Code
<1>3. \A r \in Requests : MarksSound(req[r])'
  BY <1>1 DEF CacheInv, TypeOK, MarksSound, Request, Code
<1>4. LastCodeStands'
  BY DEF Expire, CacheInv, TypeOK, LastCodeStands
<1> QED  BY <1>1, <1>2, <1>3, <1>4 DEF CacheInv

LEMMA InvalidateKeeps ==
  ASSUME CacheInv, TypeOK', NEW r \in Requests, InvalidatePreviousOTPs(r)
  PROVE  CacheInv'
<1>1. index' = index /\ used' = used /\ minted' = minted /\ overtaken' = overtaken
  BY DEF InvalidatePreviousOTPs
<1>2. req[r].phone \in Phones
  BY DEF InvalidatePreviousOTPs, CacheInv, TypeOK, Request
<1>3. \A p \in Phones : Backed(p)'
  BY <1>1, <1>2 DEF InvalidatePreviousOTPs, CacheInv, TypeOK, Backed
<1>4. \A q \in Requests : MarksSound(req[q])'
  BY <1>1 DEF InvalidatePreviousOTPs, GoTo, CacheInv, TypeOK, MarksSound
<1>5. LastCodeStands'
  BY <1>1, <1>2 DEF InvalidatePreviousOTPs, CacheInv, TypeOK, LastCodeStands
<1> QED  BY <1>1, <1>3, <1>4, <1>5 DEF CacheInv

LEMMA CreateKeeps ==
  ASSUME CacheInv, TypeOK', NEW r \in Requests, Create(r)
  PROVE  CacheInv'
<1> DEFINE ph == req[r].phone
           id == minted + 1
<1>1. /\ minted' = id /\ used' = used /\ overtaken' = overtaken
      /\ otp' = [otp EXCEPT ![ph] = id] /\ index' = [index EXCEPT ![id] = ph]
      /\ awaited' = [awaited EXCEPT ![ph] = id]
  BY DEF Create, Set
<1>2. ph \in Phones /\ minted \in Nat /\ id \in Code /\ id # 0
  BY AccessAssumption DEF Create, CacheInv, TypeOK, Request, Code
<1>3. id \notin used
  BY <1>2 DEF CacheInv
<1> HIDE DEF id, ph
<1>4. \A p \in Phones : Backed(p)'
  <2> SUFFICES ASSUME NEW p \in Phones PROVE Backed(p)'
    OBVIOUS
  <2>1. CASE p = ph
    BY <1>1, <1>2, <1>3, <2>1 DEF CacheInv, TypeOK, Backed
  <2>2. CASE p # ph
    <3>1. otp'[p] = otp[p] /\ otp[p] \in 0..MaxCodes /\ Backed(p)
      BY <1>1, <1>2, <2>2 DEF CacheInv, TypeOK
    <3>2. otp[p] # 0 => otp[p] <= id /\ index'[otp[p]] = p
      <4>1. otp[p] # 0 => otp[p] # id /\ otp[p] <= id /\ otp[p] \in Code
        BY <1>2, <3>1, AccessAssumption DEF Backed, Code, id
      <4> QED  BY <1>1, <1>2, <3>1, <4>1 DEF Backed, CacheInv, TypeOK
    <3> QED  BY <1>1, <3>1, <3>2 DEF Backed
  <2> QED  BY <2>1, <2>2
<1>5. \A q \in Requests : MarksSound(req[q])'
  <2> SUFFICES ASSUME NEW q \in Requests PROVE MarksSound(req[q])'
    OBVIOUS
  <2>1. CASE q = r
    BY <2>1 DEF Create, Done, GoTo, CacheInv, TypeOK, MarksSound
  <2>2. CASE q # r
    <3>1. req'[q] = req[q] /\ MarksSound(req[q])
      BY <2>2 DEF Create, Done, GoTo, CacheInv, TypeOK
    <3>2. req[q].pc \in {"mark", "delete"} => req[q].id \in Code
      BY DEF CacheInv, TypeOK, Request
    <3>3. req[q].pc \in {"mark", "delete"} => req[q].id <= minted /\ req[q].id # id /\ req[q].id <= id
      BY <1>2, <3>1, <3>2 DEF MarksSound, Code, id
    <3> QED  BY <1>1, <1>2, <3>1, <3>2, <3>3 DEF MarksSound, CacheInv, TypeOK
  <2> QED  BY <2>1, <2>2
<1>6. \A i \in used' : i <= minted'
  <2> SUFFICES ASSUME NEW i \in used PROVE i <= id
    BY <1>1
  <2>1. i \in Code /\ i <= minted
    BY DEF CacheInv, TypeOK
  <2> QED  BY <1>2, <2>1 DEF Code, id
<1>7. LastCodeStands'
  BY <1>1, <1>2 DEF CacheInv, TypeOK, LastCodeStands
<1> QED  BY <1>4, <1>5, <1>6, <1>7 DEF CacheInv

\* Without its entry the code is under no number: it is safe to call it used.
LEMMA MarkKeeps ==
  ASSUME CacheInv, TypeOK', NEW r \in Requests, MarkAsUsed(r)
  PROVE  CacheInv'
<1> DEFINE q == req[r]
<1>1. otp' = otp /\ index' = index /\ minted' = minted /\ overtaken' = overtaken
  BY DEF MarkAsUsed
<1>2. q.id \in Code /\ q.id <= minted /\ q.id # 0
  <2>1. q.id \in Code /\ q.pc = "mark"
    BY DEF MarkAsUsed, CacheInv, TypeOK, Request
  <2> QED  BY <2>1 DEF CacheInv, MarksSound, Code
<1>3. CASE index[q.id] # NoPhone
  <2>1. q \in [pc: {"mark", "delete"}, phone: Phones, id: Code, admin: BOOLEAN]
    BY DEF MarkAsUsed, CacheInv, TypeOK, Request
  <2>2. MarksSound([q EXCEPT !.pc = "delete", !.phone = index[q.id]])
    BY <1>2, <2>1 DEF MarksSound
  <2>3. GoTo(r, [q EXCEPT !.pc = "delete", !.phone = index[q.id]]) /\ used' = used /\ awaited' = awaited
    BY <1>3 DEF MarkAsUsed
  <2>4. UNCHANGED cache
    BY <1>1, <2>3 DEF cache
  <2> HIDE DEF q
  <2> QED  BY <2>2, <2>3, <2>4, CacheUntouched
<1>4. CASE index[q.id] = NoPhone
  <2>1. used' = used \cup {q.id} /\ awaited' = [p \in Phones |-> IF awaited[p] = q.id THEN 0 ELSE awaited[p]]
    BY <1>4 DEF MarkAsUsed
  <2>2. \A p \in Phones : otp[p] # q.id
    BY <1>2, <1>4, AccessAssumption DEF CacheInv, Backed
  <2>3. \A p \in Phones : Backed(p)'
    BY <1>1, <2>1, <2>2 DEF CacheInv, Backed
  <2>4. \A s \in Requests : MarksSound(req[s])'
    <3>1. req' = [req EXCEPT ![r] = [pc |-> "idle"]] \/ req' = [req EXCEPT ![r] = [pc |-> "load", phone |-> q.phone]]
      BY <1>4 DEF MarkAsUsed, Admitted, Done, GoTo
    <3> QED  BY <1>1, <3>1 DEF CacheInv, TypeOK, MarksSound
  <2>5. \A i \in used' : i <= minted'
    BY <1>1, <1>2, <2>1 DEF CacheInv
  <2>6. LastCodeStands'
    BY <1>1, <2>1 DEF CacheInv, LastCodeStands
  <2> QED  BY <2>3, <2>4, <2>5, <2>6 DEF CacheInv
<1> QED  BY <1>3, <1>4

LEMMA DeleteKeeps ==
  ASSUME CacheInv, TypeOK', NEW r \in Requests, Delete(r)
  PROVE  CacheInv'
<1> DEFINE q == req[r]
<1>1. /\ otp' = [otp EXCEPT ![q.phone] = 0] /\ index' = [index EXCEPT ![q.id] = NoPhone]
      /\ used' = used \cup {q.id} /\ minted' = minted
      /\ awaited' = [p \in Phones |-> IF awaited[p] = q.id THEN 0 ELSE awaited[p]]
      /\ overtaken' = (overtaken \/ otp[q.phone] \notin {0, q.id})
  BY DEF Delete, Cleared
<1>2. q.id \in Code /\ q.id <= minted /\ q.phone \in Phones /\ index[q.id] \in {q.phone, NoPhone}
  BY DEF Delete, CacheInv, TypeOK, Request, MarksSound
<1>3. \A p \in Phones : otp'[p] = (IF p = q.phone THEN 0 ELSE otp[p])
  BY <1>1, <1>2 DEF CacheInv, TypeOK
<1>4. \A p \in Phones : Backed(p)'
  <2> SUFFICES ASSUME NEW p \in Phones, otp'[p] # 0 PROVE Backed(p)'
    BY DEF Backed
  <2>1. p # q.phone /\ otp'[p] = otp[p] /\ Backed(p) /\ otp[p] \in Code
    BY <1>3, AccessAssumption DEF CacheInv, TypeOK, Code
  <2>2. otp[p] # q.id
    BY <1>2, <1>3, <2>1, AccessAssumption DEF Backed
  <2> QED  BY <1>1, <1>2, <2>1, <2>2 DEF Backed, CacheInv, TypeOK
<1>5. \A s \in Requests : MarksSound(req[s])'
  <2> SUFFICES ASSUME NEW s \in Requests PROVE MarksSound(req[s])'
    OBVIOUS
  <2>1. CASE s = r
    <3>1. req' = [req EXCEPT ![r] = [pc |-> "idle"]] \/ req' = [req EXCEPT ![r] = [pc |-> "load", phone |-> q.phone]]
      BY DEF Delete, Admitted, Done, GoTo
    <3> QED  BY <2>1, <3>1 DEF CacheInv, TypeOK, MarksSound
  <2>2. CASE s # r
    <3>1. req'[s] = req[s] /\ MarksSound(req[s])
      BY <2>2 DEF Delete, Admitted, Done, GoTo, CacheInv, TypeOK
    <3>2. req[s].pc = "delete" => req[s].id \in Code
      BY DEF CacheInv, TypeOK, Request
    <3> QED  BY <1>1, <1>2, <3>1, <3>2 DEF MarksSound, CacheInv, TypeOK
  <2> QED  BY <2>1, <2>2
<1>6. \A i \in used' : i <= minted'
  BY <1>1, <1>2 DEF CacheInv
<1>7. LastCodeStands'
  <2> SUFFICES ASSUME ~overtaken', NEW p \in Phones, awaited'[p] # 0 PROVE otp'[p] = awaited'[p]
    BY DEF LastCodeStands
  <2>1. awaited'[p] = awaited[p] /\ awaited[p] # q.id /\ awaited[p] # 0
    BY <1>1
  <2>2. otp[p] = awaited[p]
    BY <1>1, <2>1 DEF CacheInv, LastCodeStands
  <2>3. p # q.phone
    BY <1>1, <2>1, <2>2
  <2> QED  BY <1>3, <2>1, <2>2, <2>3
<1> QED  BY <1>4, <1>5, <1>6, <1>7 DEF CacheInv

LEMMA CacheStep == CacheInv /\ [Next]_vars => CacheInv'
<1> SUFFICES ASSUME CacheInv, [Next]_vars PROVE CacheInv'
  OBVIOUS
<1>1. TypeOK'
  BY TypeStep DEF CacheInv
<1>2. CASE UNCHANGED vars
  BY <1>1, <1>2 DEF vars, history, CacheInv, Backed, MarksSound, LastCodeStands
<1>3. ASSUME NEW p \in token, TokenExpires(p) PROVE CacheInv'
  BY <1>1, <1>3 DEF TokenExpires, cache, CacheInv, Backed, MarksSound, LastCodeStands
<1>4. ASSUME NEW r \in Requests, Starts(r), NEW state, GoTo(r, state), MarksSound(state) PROVE CacheInv'
  <2>1. UNCHANGED cache
    BY <1>4 DEF Starts, cache
  <2> QED  BY <1>1, <1>4, <2>1, CacheUntouched
<1>5. ASSUME NEW r \in Requests, NEW p \in Phones,
             Register(r, p) \/ ForgotPassword(r, p) \/ InitiateLogin(r, p)
      PROVE  CacheInv'
  <2>1. \A pc \in {"insert", "invalidate"} : MarksSound([pc |-> pc, phone |-> p])
    BY DEF MarksSound
  <2> QED  BY <1>4, <1>5, <2>1 DEF Register, ForgotPassword, InitiateLogin
<1>6. ASSUME NEW r \in Requests, NEW p, NEW code, NEW admin,
             Starts(r), GoTo(r, [pc |-> "find", phone |-> p, code |-> code, admin |-> admin])
      PROVE  CacheInv'
  <2>1. MarksSound([pc |-> "find", phone |-> p, code |-> code, admin |-> admin])
    BY DEF MarksSound
  <2> QED  BY <1>4, <1>6, <2>1
<1>7. ASSUME NEW r \in Requests, NEW p, NEW code, VerifyOTP(r, p, code) \/ FindByID(r, p, code)
      PROVE  CacheInv'
  BY <1>6, <1>7 DEF VerifyOTP, FindByID
<1>8. ASSUME NEW r \in Requests, NEW p \in Phones, Login(r, p)
      PROVE  CacheInv'
  BY <1>1, <1>8 DEF Login, Starts, CacheInv, Backed, MarksSound, LastCodeStands
<1>9. ASSUME NEW p, NEW row, NEW verifies PROVE MarksSound(Store(p, row, verifies))
  BY DEF MarksSound, Store
<1>10. ASSUME NEW r \in Requests, NEW p \in Phones, NEW name \in Names, UpdateProfile(r, p, name)
       PROVE  CacheInv'
  BY <1>4, <1>9, <1>10 DEF UpdateProfile
<1>11. ASSUME NEW r \in Requests, FindValidByPhone(r)
       PROVE  CacheInv'
  <2> DEFINE state == [pc |-> "mark", phone |-> req[r].phone, id |-> req[r].code, admin |-> req[r].admin]
  <2>1. CASE otp[req[r].phone] = req[r].code
    <3>1. req[r].phone \in Phones /\ req[r].code \in Code
      BY <1>11 DEF FindValidByPhone, CacheInv, TypeOK, Request
    <3>2. MarksSound(state)
      BY <2>1, <3>1 DEF MarksSound, CacheInv, Backed, Code
    <3>3. GoTo(r, state) /\ UNCHANGED cache
      BY <1>11, <2>1 DEF FindValidByPhone
    <3> HIDE DEF state
    <3> QED  BY <1>1, <3>2, <3>3, CacheUntouched
  <2>2. CASE otp[req[r].phone] # req[r].code
    BY <1>1, <1>11, <2>2, IdleSound, CacheUntouched DEF FindValidByPhone, Done
  <2> QED  BY <2>1, <2>2
<1>12. ASSUME NEW r \in Requests, Insert(r)
       PROVE  CacheInv'
  <2>1. MarksSound([pc |-> "invalidate", phone |-> req[r].phone])
    BY DEF MarksSound
  <2> QED  BY <1>1, <1>12, <2>1, IdleSound, CacheUntouched DEF Insert, Done
<1>13. ASSUME NEW r \in Requests, Load(r)
       PROVE  CacheInv'
  <2>1. UNCHANGED cache
    BY <1>13 DEF Load
  <2> QED  BY <1>1, <1>9, <1>13, <2>1, IdleSound, CacheUntouched DEF Load, Done
<1>14. ASSUME NEW r \in Requests, Update(r) \/ Fail(r)
       PROVE  CacheInv'
  BY <1>1, <1>14, IdleSound, CacheUntouched DEF Update, Fail, Done
<1> QED
  BY Steps, <1>1, <1>2, <1>3, <1>5, <1>7, <1>8, <1>10, <1>11, <1>12, <1>13, <1>14, ExpireKeeps,
     InvalidateKeeps, CreateKeeps, MarkKeeps, DeleteKeeps

\* Marking a code as used never misses it: a used code is in the cache no more.
THEOREM UsedCodesAreGone == Spec => []UsedCodesGone
<1>1. CacheInv => UsedCodesGone
  <2> SUFFICES ASSUME CacheInv, NEW p \in Phones PROVE otp[p] \notin used
    BY DEF UsedCodesGone
  <2>1. 0 \notin used
    BY DEF CacheInv, TypeOK, Code
  <2> QED  BY <2>1 DEF CacheInv, Backed
<1> QED  BY <1>1, CacheInit, CacheStep, PTL DEF Spec

\* The last code of a number stands until used, replaced, expired or overtaken.
THEOREM LastCodeIsKept == Spec => []LastCodeStands
<1>1. CacheInv => LastCodeStands
  BY DEF CacheInv
<1> QED  BY <1>1, CacheInit, CacheStep, PTL DEF Spec


-----------------------------------------------------------------------------
(***************************************************************************)
(* The rows                                                                *)
(***************************************************************************)

\* Whoever is about to be verified gave a code back; a row about to be stored
\* is verified, and so is the user it is stored over unless it verifies him.
RowSound(q) ==
  /\ q.pc = "load" => q.phone \in proved
  /\ q.pc = "store" =>
       /\ user[q.phone].exists /\ q.row.verified /\ q.phone \in proved

\* A verification that nothing overtook leaves the profile as it is.
NameSound(q) == q.pc = "store" /\ q.verifies => q.row.name = user[q.phone].name

RowsInv ==
  /\ TypeOK
  /\ TokensProved
  /\ \A r \in Requests : RowSound(req[r])
  /\ \A r \in Requests \ outdated : NameSound(req[r])
  /\ ProfilesKept

LEMMA RowsInit == Init => RowsInv
BY TypeInit DEF Init, RowsInv, TokensProved, RowSound, NameSound, ProfilesKept

\* Steps that change no row, and prove no number for the worse.
LEMMA RowsUntouched ==
  ASSUME RowsInv, TypeOK', user' = user, wanted' = wanted, overlapped' = overlapped,
         proved \in SUBSET proved', token' \in SUBSET token,
         NEW r \in Requests, NEW state, GoTo(r, state), outdated \ {r} \in SUBSET outdated',
         RowSound(state)', NameSound(state) \/ r \in outdated'
  PROVE  RowsInv'
<1>1. \A q \in Requests : req'[q] = IF q = r THEN state ELSE req[q]
  BY DEF GoTo, RowsInv, TypeOK
<1>2. \A q \in Requests : RowSound(req[q])'
  <2> SUFFICES ASSUME NEW q \in Requests PROVE RowSound(req[q])'
    OBVIOUS
  <2>1. CASE q = r
    BY <1>1, <2>1 DEF RowSound
  <2>2. CASE q # r
    BY <1>1, <2>2 DEF RowsInv, RowSound
  <2> QED  BY <2>1, <2>2
<1>3. \A q \in Requests \ outdated' : NameSound(req[q])'
  <2> SUFFICES ASSUME NEW q \in Requests, q \notin outdated' PROVE NameSound(req[q])'
    OBVIOUS
  <2>1. CASE q = r
    BY <1>1, <2>1 DEF NameSound
  <2>2. CASE q # r
    BY <1>1, <2>2 DEF RowsInv, NameSound
  <2> QED  BY <2>1, <2>2
<1>4. TokensProved'
  BY DEF RowsInv, TokensProved
<1> QED  BY <1>2, <1>3, <1>4 DEF RowsInv, ProfilesKept

\* A step that changes rows outdates the other requests and ends its own.
LEMMA RowsChanged ==
  ASSUME RowsInv, NEW r \in Requests, NEW state, Changes(r), GoTo(r, state), state.pc # "store"
  PROVE  \A q \in Requests \ outdated' : NameSound(req[q])'
<1> SUFFICES ASSUME NEW q \in Requests, q \notin outdated' PROVE NameSound(req[q])'
  OBVIOUS
<1>1. CASE q = r
  BY <1>1 DEF GoTo, RowsInv, TypeOK, NameSound
<1>2. CASE q # r
  <2>1. user' = user /\ q \notin outdated
    BY <1>2 DEF Changes
  <2>2. req'[q] = req[q] /\ NameSound(req[q])
    BY <1>2, <2>1 DEF GoTo, RowsInv, TypeOK
  <2> QED  BY <2>1, <2>2 DEF NameSound
<1> QED  BY <1>1, <1>2

LEMMA InsertKeeps ==
  ASSUME RowsInv, TypeOK', NEW r \in Requests, Insert(r)
  PROVE  RowsInv'
<1> DEFINE ph == req[r].phone
<1>1. CASE user[ph].exists
  <2>1. RowSound([pc |-> "idle"])' /\ NameSound([pc |-> "idle"])
    BY DEF RowSound, NameSound
  <2>2. UNCHANGED <<user, outdated, proved, token, overlapped, wanted>> /\ GoTo(r, [pc |-> "idle"])
    BY <1>1 DEF Insert, Done
  <2> QED  BY <2>1, <2>2, RowsUntouched
<1>2. CASE ~user[ph].exists
  <2>1. ph \in Phones
    BY DEF Insert, RowsInv, TypeOK, Request
  <2>2. /\ user' = [user EXCEPT ![ph].exists = TRUE] /\ Changes(r)
        /\ GoTo(r, [pc |-> "invalidate", phone |-> ph])
        /\ proved' = proved /\ token' = token /\ overlapped' = overlapped /\ wanted' = wanted
    BY <1>2 DEF Insert
  <2>3. \A p \in Phones : /\ user'[p].verified = user[p].verified /\ user'[p].name = user[p].name
                          /\ user[p].exists => user'[p].exists
    BY <2>1, <2>2 DEF RowsInv, TypeOK, User
  <2>4. \A q \in Requests \ outdated' : NameSound(req[q])'
    BY <2>2, RowsChanged
  <2>5. \A q \in Requests : RowSound(req[q])'
    <3> SUFFICES ASSUME NEW q \in Requests PROVE RowSound(req[q])'
      OBVIOUS
    <3>1. CASE q = r
      BY <2>2, <3>1 DEF GoTo, RowsInv, TypeOK, RowSound
    <3>2. CASE q # r
      <4>1. req'[q] = req[q] /\ RowSound(req[q])
        BY <2>2, <3>2 DEF GoTo, RowsInv, TypeOK
      <4>2. req[q].pc = "store" => req[q].phone \in Phones
        BY DEF RowsInv, TypeOK, Request
      <4> QED  BY <2>2, <2>3, <4>1, <4>2 DEF RowSound
    <3> QED  BY <3>1, <3>2
  <2>6. TokensProved'
    BY <2>2, <2>3 DEF RowsInv, TokensProved, TypeOK
  <2>7. ProfilesKept'
    BY <2>2, <2>3 DEF RowsInv, ProfilesKept
  <2> QED  BY <2>4, <2>5, <2>6, <2>7 DEF RowsInv
<1> QED  BY <1>1, <1>2

LEMMA UpdateKeeps ==
  ASSUME RowsInv, TypeOK', NEW r \in Requests, Update(r)
  PROVE  RowsInv'
<1> DEFINE q == req[r]
           ph == q.phone
<1>1. ph \in Phones /\ q.row \in User /\ q.pc = "store" /\ q.verifies \in BOOLEAN
  BY DEF Update, RowsInv, TypeOK, Request
<1>2. user[ph].exists /\ q.row.verified /\ ph \in proved
  BY <1>1 DEF RowsInv, RowSound
<1>3. /\ \A p \in Phones \ {ph} : user'[p] = user[p]
      /\ user'[ph].exists /\ user'[ph].verified /\ user'[ph].name = q.row.name
  BY <1>1, <1>2 DEF Update, RowsInv, TypeOK, User
<1>4. proved' = proved /\ Changes(r) /\ GoTo(r, [pc |-> "idle"])
  BY DEF Update, Done
<1>5. \A s \in Requests \ outdated' : NameSound(req[s])'
  BY <1>4, RowsChanged
<1>6. \A s \in Requests : RowSound(req[s])'
  <2> SUFFICES ASSUME NEW s \in Requests PROVE RowSound(req[s])'
    OBVIOUS
  <2>1. CASE s = r
    BY <1>4, <2>1 DEF GoTo, RowsInv, TypeOK, RowSound
  <2>2. CASE s # r
    <3>1. req'[s] = req[s] /\ RowSound(req[s])
      BY <1>4, <2>2 DEF GoTo, RowsInv, TypeOK
    <3>2. req[s].pc = "store" => req[s].phone \in Phones
      BY DEF RowsInv, TypeOK, Request
    <3> QED  BY <1>3, <1>4, <3>1, <3>2 DEF RowSound
  <2> QED  BY <2>1, <2>2
<1>7. TokensProved'
  <2>1. token' \in SUBSET (token \cup {ph})
    BY DEF Update
  <2> QED  BY <1>2, <1>3, <1>4, <2>1 DEF RowsInv, TokensProved, TypeOK
<1>8. ProfilesKept'
  <2> SUFFICES ASSUME ~overlapped', NEW p \in Phones PROVE user'[p].name = wanted'[p]
    BY DEF ProfilesKept
  <2>1. ~overlapped /\ r \notin outdated
    BY DEF Update
  <2>2. user[p].name = wanted[p]
    BY <2>1 DEF RowsInv, ProfilesKept
  <2>3. CASE p # ph
    <3>1. wanted'[p] = wanted[p]
      BY <2>3 DEF Update, RowsInv, TypeOK
    <3> QED  BY <1>3, <2>2, <2>3, <3>1
  <2>4. CASE p = ph /\ q.verifies
    <3>1. wanted' = wanted
      BY <2>4 DEF Update
    <3>2. q.row.name = user[ph].name
      BY <1>1, <2>1, <2>4 DEF RowsInv, NameSound
    <3> QED  BY <1>3, <2>2, <2>4, <3>1, <3>2
  <2>5. CASE p = ph /\ ~q.verifies
    <3>1. wanted'[ph] = q.row.name
      BY <1>1, <2>5 DEF Update, RowsInv, TypeOK
    <3> QED  BY <1>3, <2>5, <3>1
  <2> QED  BY <1>1, <2>3, <2>4, <2>5
<1> QED  BY <1>5, <1>6, <1>7, <1>8 DEF RowsInv

LEMMA RowsStep == RowsInv /\ [Next]_vars => RowsInv'
<1> SUFFICES ASSUME RowsInv, [Next]_vars PROVE RowsInv'
  OBVIOUS
<1>1. TypeOK'
  BY TypeStep DEF RowsInv
<1>2. CASE UNCHANGED vars
  BY <1>1, <1>2 DEF vars, history, RowsInv, TokensProved, RowSound, NameSound, ProfilesKept
<1>3. ASSUME NEW id \in Code, Expire(id) PROVE RowsInv'
  BY <1>1, <1>3 DEF Expire, rows, RowsInv, TokensProved, RowSound, NameSound, ProfilesKept
<1>4. ASSUME NEW p \in token, TokenExpires(p) PROVE RowsInv'
  BY <1>1, <1>4 DEF TokenExpires, rows, RowsInv, TokensProved, RowSound, NameSound, ProfilesKept
<1>5. ASSUME NEW state, state.pc \notin {"load", "store"} PROVE RowSound(state)' /\ NameSound(state)
  BY <1>5 DEF RowSound, NameSound
<1>6. ASSUME NEW r \in Requests, Starts(r), token' = token, NEW state, GoTo(r, state),
             state.pc \notin {"load", "store"}
      PROVE  RowsInv'
  <2>1. user' = user /\ wanted' = wanted /\ overlapped' = overlapped /\ proved' = proved /\ outdated' = outdated \ {r}
    BY <1>6 DEF Starts
  <2> QED  BY <1>1, <1>5, <1>6, <2>1, RowsUntouched
<1>7. ASSUME NEW r \in Requests, NEW p \in Phones,
             Register(r, p) \/ ForgotPassword(r, p) \/ InitiateLogin(r, p)
      PROVE  RowsInv'
  <2>1. /\ [pc |-> "insert", phone |-> p].pc \notin {"load", "store"}
        /\ [pc |-> "invalidate", phone |-> p].pc \notin {"load", "store"}
    OBVIOUS
  <2> QED  BY <1>6, <1>7, <2>1 DEF Register, ForgotPassword, InitiateLogin
<1>8. ASSUME NEW r \in Requests, NEW p, NEW code, NEW admin, Starts(r), token' = token,
             GoTo(r, [pc |-> "find", phone |-> p, code |-> code, admin |-> admin])
      PROVE  RowsInv'
  <2>1. [pc |-> "find", phone |-> p, code |-> code, admin |-> admin].pc \notin {"load", "store"}
    OBVIOUS
  <2> QED  BY <1>6, <1>8, <2>1
<1>9. ASSUME NEW r \in Requests, NEW p, NEW code, VerifyOTP(r, p, code) \/ FindByID(r, p, code)
      PROVE  RowsInv'
  BY <1>8, <1>9 DEF VerifyOTP, FindByID
<1>10. ASSUME NEW r \in Requests, NEW p \in Phones, Login(r, p)
       PROVE  RowsInv'
  <2>1. /\ user' = user /\ wanted' = wanted /\ overlapped' = overlapped /\ proved' = proved
        /\ req' = req /\ req[r].pc = "idle" /\ outdated' = outdated \ {r} /\ token' = token \cup {p}
    BY <1>10 DEF Login, Starts
  <2>2. user[p].exists /\ user[p].verified
    BY <1>10 DEF Login
  <2>3. TokensProved'
    BY <2>1, <2>2 DEF RowsInv, TokensProved
  <2> QED  BY <1>1, <2>1, <2>3 DEF RowsInv, RowSound, NameSound, ProfilesKept
<1>11. ASSUME NEW r \in Requests, NEW p \in Phones, NEW name \in Names, UpdateProfile(r, p, name)
       PROVE  RowsInv'
  <2> DEFINE row == [Find(p) EXCEPT !.name = name]
  <2>1. user[p].exists /\ user[p].verified /\ p \in proved
    BY <1>11 DEF UpdateProfile, RowsInv, TokensProved
  <2>2. row.verified
    BY <2>1 DEF Find, RowsInv, TypeOK, User
  <2>3. user' = user /\ wanted' = wanted /\ overlapped' = overlapped /\ proved' = proved /\ token' = token
    BY <1>11 DEF UpdateProfile, Starts
  <2>4. outdated' = outdated \ {r} /\ GoTo(r, Store(p, row, FALSE))
    BY <1>11 DEF UpdateProfile, Starts
  <2> HIDE DEF row
  <2>5. PICK state : state = Store(p, row, FALSE)
    OBVIOUS
  <2>6. state.phone = p /\ state.row = row /\ state.verifies = FALSE /\ state.pc = "store"
    BY <2>5 DEF Store
  <2>7. RowSound(state)' /\ NameSound(state)
    BY <2>1, <2>2, <2>3, <2>6 DEF RowSound, NameSound
  <2> QED  BY <1>1, <2>3, <2>4, <2>5, <2>7, RowsUntouched
<1>12. ASSUME NEW r \in Requests, NEW state, GoTo(r, state), state.pc \notin {"load", "store"},
              UNCHANGED rows, UNCHANGED token, UNCHANGED proved
       PROVE  RowsInv'
  <2>1. user' = user /\ wanted' = wanted /\ overlapped' = overlapped /\ outdated' = outdated
    BY <1>12 DEF rows
  <2> QED  BY <1>1, <1>5, <1>12, <2>1, RowsUntouched
<1>13. ASSUME NEW r \in Requests, InvalidatePreviousOTPs(r) PROVE RowsInv'
  <2>1. [pc |-> "create", phone |-> req[r].phone].pc \notin {"load", "store"}
    OBVIOUS
  <2> QED  BY <1>12, <1>13, <2>1 DEF InvalidatePreviousOTPs
<1>14. ASSUME NEW r \in Requests, Create(r) \/ Fail(r) PROVE RowsInv'
  <2>1. [pc |-> "idle"].pc \notin {"load", "store"}
    OBVIOUS
  <2> QED  BY <1>12, <1>14, <2>1 DEF Create, Fail, Done
<1>15. ASSUME NEW r \in Requests, FindValidByPhone(r) PROVE RowsInv'
  <2>1. /\ [pc |-> "idle"].pc \notin {"load", "store"}
        /\ [pc |-> "mark", phone |-> req[r].phone, id |-> req[r].code, admin |-> req[r].admin].pc \notin {"load", "store"}
    OBVIOUS
  <2> QED  BY <1>12, <1>15, <2>1 DEF FindValidByPhone, Done
<1>16. ASSUME NEW r \in Requests, NEW p, NEW admin, Admitted(r, p, admin), UNCHANGED rows, UNCHANGED token
       PROVE  RowsInv'
  <2>1. user' = user /\ wanted' = wanted /\ overlapped' = overlapped /\ outdated' = outdated
    BY <1>16 DEF rows
  <2>2. proved \in SUBSET proved'
    BY <1>16 DEF Admitted
  <2>3. RowSound([pc |-> "idle"])' /\ NameSound([pc |-> "idle"]) /\ NameSound([pc |-> "load", phone |-> p])
    BY DEF RowSound, NameSound
  <2>4. ~admin => RowSound([pc |-> "load", phone |-> p])'
    BY <1>16 DEF RowSound, Admitted
  <2> QED  BY <1>1, <1>16, <2>1, <2>2, <2>3, <2>4, RowsUntouched DEF Admitted, Done
<1>17. ASSUME NEW r \in Requests, MarkAsUsed(r) PROVE RowsInv'
  <2>1. CASE index[req[r].id] # NoPhone
    <3> DEFINE state == [req[r] EXCEPT !.pc = "delete", !.phone = index[req[r].id]]
    <3>1. req[r] \in [pc: {"mark", "delete"}, phone: Phones, id: Code, admin: BOOLEAN]
      BY <1>17 DEF MarkAsUsed, RowsInv, TypeOK, Request
    <3>2. state.pc \notin {"load", "store"}
      BY <3>1
    <3>3. GoTo(r, state) /\ UNCHANGED rows /\ UNCHANGED token /\ UNCHANGED proved
      BY <1>17, <2>1 DEF MarkAsUsed
    <3> HIDE DEF state
    <3> QED  BY <1>12, <3>2, <3>3
  <2>2. CASE index[req[r].id] = NoPhone
    BY <1>16, <1>17, <2>2 DEF MarkAsUsed
  <2> QED  BY <2>1, <2>2
<1>18. ASSUME NEW r \in Requests, Delete(r) PROVE RowsInv'
  BY <1>16, <1>18 DEF Delete
<1>19. ASSUME NEW r \in Requests, Load(r) PROVE RowsInv'
  <2> DEFINE ph == req[r].phone
             row == MarkVerified(Find(ph))
  <2>1. /\ user' = user /\ wanted' = wanted /\ overlapped' = overlapped /\ proved' = proved /\ token' = token
        /\ outdated' = outdated \ {r}
    BY <1>19 DEF Load
  <2>2. ph \in Phones /\ ph \in proved
    BY <1>19 DEF Load, RowsInv, TypeOK, Request, RowSound
  <2>3. row.verified /\ row.name = user[ph].name
    BY <2>2 DEF MarkVerified, Find, RowsInv, TypeOK, User
  <2>4. CASE user[ph].exists
    <3>1. GoTo(r, Store(ph, row, TRUE))
      BY <1>19, <2>4 DEF Load
    <3> HIDE DEF row, ph
    <3>2. PICK state : state = Store(ph, row, TRUE)
      OBVIOUS
    <3>3. state.phone = ph /\ state.row = row /\ state.pc = "store"
      BY <3>2 DEF Store
    <3>4. RowSound(state)' /\ NameSound(state)
      BY <2>1, <2>2, <2>3, <2>4, <3>3 DEF RowSound, NameSound
    <3> QED  BY <1>1, <2>1, <3>1, <3>2, <3>4, RowsUntouched
  <2>5. CASE ~user[ph].exists
    <3>1. GoTo(r, [pc |-> "idle"])
      BY <1>19, <2>5 DEF Load, Done
    <3>2. RowSound([pc |-> "idle"])' /\ NameSound([pc |-> "idle"])
      BY DEF RowSound, NameSound
    <3> QED  BY <1>1, <2>1, <3>1, <3>2, RowsUntouched
  <2> QED  BY <2>4, <2>5
<1> QED
  BY Steps, <1>1, <1>2, <1>3, <1>4, <1>7, <1>9, <1>10, <1>11, <1>13, <1>14, <1>15, <1>17, <1>18, <1>19,
     InsertKeeps, UpdateKeeps

\* No token outlives its user's verification, and only a code that was sent to
\* the number and given back verifies one.
THEOREM TokensAreProved == Spec => []TokensProved
<1>1. RowsInv => TokensProved
  BY DEF RowsInv
<1> QED  BY <1>1, RowsInit, RowsStep, PTL DEF Spec

\* Until a request stores a row another one changed, profiles are kept.
THEOREM ProfilesAreKept == Spec => []ProfilesKept
<1>1. RowsInv => ProfilesKept
  BY DEF RowsInv
<1> QED  BY <1>1, RowsInit, RowsStep, PTL DEF Spec

=============================================================================
