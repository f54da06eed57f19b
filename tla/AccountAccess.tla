--------------------------- MODULE AccountAccess ---------------------------
(***************************************************************************)
(* Users: registration, one-time codes, login and profile.  A number has   *)
(* one code at a time in the cache, under the number, and each code an     *)
(* entry under its own id that leads to the number.  The admins' sign-in   *)
(* uses the same cache.  Every command to the cache and every statement to *)
(* the database is a step; a code is known by the id of its message.       *)
(***************************************************************************)
EXTENDS Integers

CONSTANTS
  Phones,       \* WhatsApp numbers
  AdminPhones,  \* those that are an admin's
  Names,        \* profiles a user may choose
  FirstName,    \* the empty profile
  Requests,     \* requests that may be served at the same time
  MaxServed,    \* bound: requests served
  MaxCodes      \* bound: codes created

NoPhone == "none"

ASSUME AccessAssumption ==
  /\ NoPhone \notin Phones
  /\ AdminPhones \in SUBSET Phones
  /\ FirstName \in Names
  /\ MaxServed \in Nat /\ MaxCodes \in Nat

VARIABLES
  user,       \* the rows of the table, by number
  otp,        \* otp:user:<phone>, the id of the number's code; 0: no entry
  index,      \* otpidx:<id>, the number of each code; NoPhone: no entry
  token,      \* the numbers users hold tokens for
  req,        \* where each request is and what it has read
  served,     \* requests so far
  minted,     \* codes so far
  used,       \* history: codes that were marked as used
  proved,     \* history: numbers whose user gave back a code sent there
  awaited,    \* history: the last code of each number, until used, replaced or expired
  overtaken,  \* history: marking one code as used removed another
  outdated,   \* history: requests during which another one changed a row
  overlapped, \* history: a row was stored by an outdated request
  wanted      \* history: the profile each user last chose

history == <<used, proved, awaited, overtaken, outdated, overlapped, wanted>>
vars == <<user, otp, index, token, req, served, minted, history>>

-----------------------------------------------------------------------------
Code == 1..MaxCodes
User == [exists: BOOLEAN, verified: BOOLEAN, name: Names]

Request ==
       [pc: {"idle"}]
  \cup [pc: {"insert", "invalidate", "create"}, phone: Phones]
  \cup [pc: {"find"}, phone: Phones, code: Code, admin: BOOLEAN]
  \cup [pc: {"mark", "delete"}, phone: Phones, id: Code, admin: BOOLEAN]
  \cup [pc: {"load"}, phone: Phones]
  \cup [pc: {"store"}, phone: Phones, row: User, verifies: BOOLEAN]

TypeOK ==
  /\ user \in [Phones -> User]
  /\ otp \in [Phones -> 0..MaxCodes]
  /\ index \in [Code -> Phones \cup {NoPhone}]
  /\ token \in SUBSET Phones
  /\ req \in [Requests -> Request]
  /\ served \in 0..MaxServed /\ minted \in 0..MaxCodes
  /\ used \in SUBSET Code /\ proved \in SUBSET Phones
  /\ awaited \in [Phones -> 0..MaxCodes]
  /\ overtaken \in BOOLEAN
  /\ outdated \in SUBSET Requests /\ overlapped \in BOOLEAN
  /\ wanted \in [Phones -> Names]

Init ==
  /\ user = [p \in Phones |-> [exists |-> FALSE, verified |-> FALSE, name |-> FirstName]]
  /\ otp = [p \in Phones |-> 0]
  /\ index = [i \in Code |-> NoPhone]
  /\ token = {}
  /\ req = [r \in Requests |-> [pc |-> "idle"]]
  /\ served = 0 /\ minted = 0
  /\ used = {} /\ proved = {}
  /\ awaited = [p \in Phones |-> 0]
  /\ overtaken = FALSE
  /\ outdated = {} /\ overlapped = FALSE
  /\ wanted = [p \in Phones |-> FirstName]

GoTo(r, state) == req' = [req EXCEPT ![r] = state]
Done(r) == GoTo(r, [pc |-> "idle"])
Starts(r) ==
  /\ req[r].pc = "idle" /\ served < MaxServed
  /\ served' = served + 1
  /\ outdated' = outdated \ {r}
  /\ UNCHANGED <<user, otp, index, minted, used, proved, awaited, overtaken, overlapped, wanted>>

rows == <<user, outdated, overlapped, wanted>>
cache == <<otp, index, minted, used, awaited, overtaken>>

\* History: the other requests no longer know every row.
Changes(r) == outdated' = IF user' = user THEN outdated ELSE outdated \cup (Requests \ {r})

-----------------------------------------------------------------------------
\* Asking for a code: registration, a forgotten password, an admin's sign-in.

Register(r, p) ==
  /\ Starts(r)
  /\ ~user[p].exists
  /\ GoTo(r, [pc |-> "insert", phone |-> p])
  /\ UNCHANGED token

\* The number is unique: of two registrations one fails here.
Insert(r) ==
  /\ req[r].pc = "insert"
  /\ LET p == req[r].phone IN
       IF user[p].exists THEN UNCHANGED <<user, outdated>> /\ Done(r)
       ELSE /\ user' = [user EXCEPT ![p].exists = TRUE]
            /\ Changes(r)
            /\ GoTo(r, [pc |-> "invalidate", phone |-> p])
  /\ UNCHANGED <<cache, token, served, proved, overlapped, wanted>>

ForgotPassword(r, p) ==
  /\ Starts(r)
  /\ user[p].exists
  /\ GoTo(r, [pc |-> "invalidate", phone |-> p])
  /\ UNCHANGED token

InitiateLogin(r, p) ==
  /\ Starts(r)
  /\ p \in AdminPhones
  /\ GoTo(r, [pc |-> "invalidate", phone |-> p])
  /\ UNCHANGED token

\* The entry under the number goes, the one under the id stays.  A user's
\* request goes on when the command fails, an admin's stops (Fail).
InvalidatePreviousOTPs(r) ==
  /\ req[r].pc = "invalidate"
  /\ LET p == req[r].phone IN
       /\ \/ otp' = [otp EXCEPT ![p] = 0] /\ awaited' = [awaited EXCEPT ![p] = 0]
          \/ UNCHANGED <<otp, awaited>>
       /\ GoTo(r, [pc |-> "create", phone |-> p])
  /\ UNCHANGED <<rows, index, token, served, minted, used, proved, overtaken>>

\* Mutated form: an entry that is there is left.
SetIfAbsent(p, id) == IF otp[p] = 0 THEN [otp EXCEPT ![p] = id] ELSE otp
Set(p, id) == [otp EXCEPT ![p] = id]

\* Both entries in one transaction; a code there was is overwritten.
Create(r) ==
  /\ req[r].pc = "create" /\ minted < MaxCodes
  /\ LET p == req[r].phone  id == minted + 1 IN
       /\ minted' = id
       /\ otp' = Set(p, id)
       /\ index' = [index EXCEPT ![id] = p]
       /\ awaited' = [awaited EXCEPT ![p] = id]
  /\ Done(r)
  /\ UNCHANGED <<rows, token, served, used, proved, overtaken>>

\* The two entries of a code end together.
Expire(id) ==
  /\ index[id] # NoPhone
  /\ index' = [index EXCEPT ![id] = NoPhone]
  /\ otp' = [p \in Phones |-> IF otp[p] = id THEN 0 ELSE otp[p]]
  /\ awaited' = [p \in Phones |-> IF awaited[p] = id THEN 0 ELSE awaited[p]]
  /\ UNCHANGED <<rows, token, req, served, minted, used, proved, overtaken>>

-----------------------------------------------------------------------------
\* Giving a code back.  A user names the number, an admin the id of a code,
\* whose entry leads to the number; what counts is the code the number has.

VerifyOTP(r, p, code) ==
  /\ Starts(r)
  /\ GoTo(r, [pc |-> "find", phone |-> p, code |-> code, admin |-> FALSE])
  /\ UNCHANGED token

FindByID(r, id, code) ==
  /\ Starts(r)
  /\ index[id] # NoPhone
  /\ GoTo(r, [pc |-> "find", phone |-> index[id], code |-> code, admin |-> TRUE])
  /\ UNCHANGED token

FindValidByPhone(r) ==
  /\ req[r].pc = "find"
  /\ LET q == req[r] IN
       IF otp[q.phone] = q.code
       THEN GoTo(r, [pc |-> "mark", phone |-> q.phone, id |-> q.code, admin |-> q.admin])
       ELSE Done(r)
  /\ UNCHANGED <<rows, cache, token, served, proved>>

\* Past the code.  An admin's request goes on to read the admin's row.
Admitted(r, p, admin) ==
  /\ proved' = IF admin THEN proved ELSE proved \cup {p}
  /\ IF admin THEN Done(r) ELSE GoTo(r, [pc |-> "load", phone |-> p])

\* The id's entry leads to the number; without it the code counts as used.
MarkAsUsed(r) ==
  /\ req[r].pc = "mark"
  /\ LET q == req[r] IN
       IF index[q.id] # NoPhone
       THEN /\ GoTo(r, [q EXCEPT !.pc = "delete", !.phone = index[q.id]])
            /\ UNCHANGED <<used, proved, awaited>>
       ELSE /\ used' = used \cup {q.id}
            /\ awaited' = [p \in Phones |-> IF awaited[p] = q.id THEN 0 ELSE awaited[p]]
            /\ Admitted(r, q.phone, q.admin)
  /\ UNCHANGED <<rows, otp, index, token, served, minted, overtaken>>

\* Mutated form: the entry under the number is left to expire.
ClearedNot(p) == otp
Cleared(p) == [otp EXCEPT ![p] = 0]

\* The number's entry goes, whichever code it holds by now.
Delete(r) ==
  /\ req[r].pc = "delete"
  /\ LET q == req[r] IN
       /\ otp' = Cleared(q.phone)
       /\ index' = [index EXCEPT ![q.id] = NoPhone]
       /\ used' = used \cup {q.id}
       /\ awaited' = [p \in Phones |-> IF awaited[p] = q.id THEN 0 ELSE awaited[p]]
       /\ overtaken' = (overtaken \/ otp[q.phone] \notin {0, q.id})
       /\ Admitted(r, q.phone, q.admin)
  /\ UNCHANGED <<rows, token, served, minted>>

-----------------------------------------------------------------------------
\* The user's row.  Mutated forms: the name is not selected, or read as NULL.
FindNull(p) == [user[p] EXCEPT !.name = NoPhone]
FindUnnamed(p) == [user[p] EXCEPT !.name = FirstName]
Find(p) == user[p]

Store(p, row, verifies) == [pc |-> "store", phone |-> p, row |-> row, verifies |-> verifies]

\* A number may have an admin's code and no user.  Mutated form: is_verified
\* is left as it was.
MarkVerifiedNot(row) == row
MarkVerified(row) == [row EXCEPT !.verified = TRUE]
Load(r) ==
  /\ req[r].pc = "load"
  /\ LET p == req[r].phone IN
       IF user[p].exists THEN GoTo(r, Store(p, MarkVerified(Find(p)), TRUE)) ELSE Done(r)
  /\ outdated' = outdated \ {r}
  /\ UNCHANGED <<user, overlapped, wanted, cache, token, served, proved>>

UpdateProfile(r, p, name) ==
  /\ Starts(r)
  /\ p \in token
  /\ GoTo(r, Store(p, [Find(p) EXCEPT !.name = name], FALSE))
  /\ UNCHANGED token

\* Profile and is_verified, as they were read; a verification earns a token.
Update(r) ==
  /\ req[r].pc = "store"
  /\ LET q == req[r] IN
       /\ user' = [user EXCEPT ![q.phone].name = q.row.name, ![q.phone].verified = q.row.verified]
       /\ token' = IF q.verifies THEN token \cup {q.phone} ELSE token
       /\ wanted' = IF q.verifies THEN wanted ELSE [wanted EXCEPT ![q.phone] = q.row.name]
  /\ overlapped' = (overlapped \/ r \in outdated)
  /\ Done(r) /\ Changes(r)
  /\ UNCHANGED <<cache, served, proved>>

\* The password never changes after registration.
Login(r, p) ==
  /\ Starts(r)
  /\ user[p].exists /\ user[p].verified
  /\ token' = token \cup {p}
  /\ UNCHANGED req

TokenExpires(p) ==
  /\ token' = token \ {p}
  /\ UNCHANGED <<rows, cache, req, served, proved>>

\* A command or statement fails, or the process dies.
Fail(r) ==
  /\ req[r].pc # "idle"
  /\ Done(r)
  /\ UNCHANGED <<rows, cache, token, served, proved>>

-----------------------------------------------------------------------------
AskRoutes(r) == \E p \in Phones : Register(r, p) \/ ForgotPassword(r, p) \/ InitiateLogin(r, p)

GiveRoutes(r) == \E code \in 1..minted :
  \/ \E p \in Phones : VerifyOTP(r, p, code)
  \/ \E id \in 1..minted : FindByID(r, id, code)

UserRoutes(r) == \E p \in Phones : Login(r, p) \/ \E name \in Names : UpdateProfile(r, p, name)

Cache(r) ==
  \/ InvalidatePreviousOTPs(r) \/ Create(r)
  \/ FindValidByPhone(r) \/ MarkAsUsed(r) \/ Delete(r)

Statements(r) == Insert(r) \/ Load(r) \/ Update(r)

Next ==
  \/ \E r \in Requests :
       AskRoutes(r) \/ GiveRoutes(r) \/ UserRoutes(r) \/ Cache(r) \/ Statements(r) \/ Fail(r)
  \/ \E id \in Code : Expire(id)
  \/ \E p \in token : TokenExpires(p)

Spec == Init /\ [][Next]_vars

-----------------------------------------------------------------------------
(***************************************************************************)
(* Properties                                                              *)
(***************************************************************************)

\* Whoever holds a token is a verified user, for as long as the token lasts,
\* whatever older row a request still stores; and a user is verified only
\* once a code sent to the number was given back.
TokensProved ==
  /\ \A p \in token : user[p].exists /\ user[p].verified
  /\ \A p \in Phones : user[p].verified => p \in proved

\* A used code is gone from the cache: only a request that had read it before
\* can still be let in by it.  The two entries never disagree in a way that
\* lets marking a code as used miss the code.
UsedCodesGone == \A p \in Phones : otp[p] \notin used

\* The last code created for a number stands until it is used, replaced or
\* expires; only marking an older one as used, late, takes it away.
LastCodeStands == overtaken \/ \A p \in Phones : awaited[p] # 0 => otp[p] = awaited[p]

\* Verifying a number again and editing the profile store each other's
\* column as well; unless they overlap, the profile stays as it was chosen.
ProfilesKept == overlapped \/ \A p \in Phones : user[p].name = wanted[p]

=============================================================================
