------------------------- MODULE SessionAssetsProofs -------------------------
(***************************************************************************)
(* For any number of accounts, images and requests: types, what pages      *)
(* show, and the files and the order of images.                            *)
(***************************************************************************)
EXTENDS SessionAssets, FiniteSetTheorems, TLAPS

-----------------------------------------------------------------------------
(* Types *)

LEMMA MirrorType == \A list \in Lists : Mirror(list) \in Single
<1> SUFFICES ASSUME NEW list \in Lists PROVE Mirror(list) \in Single
  OBVIOUS
<1>1. {} \in Single
  BY FS_EmptySet DEF Single, Lists
<1>2. Cardinality(list) = 1 => list \in Single
  BY DEF Single, Lists
<1> QED
  BY <1>1, <1>2 DEF Mirror

\* Where a request goes is one of the places there are.
LEMMA GoToType ==
  ASSUME TypeOK, NEW r \in Requests, NEW state \in Request, GoTo(r, state)
  PROVE  req' \in [Requests -> Request]
BY DEF TypeOK, GoTo

LEMMA IdleType == Idle \in Request
BY DEF Idle, Request

LEMMA HistoryTypes ==
  ASSUME TypeOK, NEW list \in Lists
  PROVE  /\ Heard(list) \in [Requests -> SUBSET Lists]
         /\ \A r \in Requests : {list} \cup {req[w].list : w \in Writing} \in SUBSET Lists
<1>1. \A w \in Writing : w \in Requests /\ req[w].list \in Lists
  BY DEF TypeOK, Request, Writing, Served, Single
<1>2. Heard(list) \in [Requests -> SUBSET Lists]
  BY DEF TypeOK, Heard
<1> QED
  BY <1>1, <1>2

LEMMA WritesTypes ==
  ASSUME TypeOK, NEW r \in Requests, NEW list \in Lists, Writes(r, list)
  PROVE  current' \in SUBSET Lists /\ may' \in [Requests -> SUBSET Lists]
<1>1. {list} \cup {req[w].list : w \in Writing} \in SUBSET Lists
  BY HistoryTypes
<1>2. [Heard(list) EXCEPT ![r] = {list} \cup {req[w].list : w \in Writing}] \in [Requests -> SUBSET Lists]
  BY <1>1, HistoryTypes
<1>3. current' \in SUBSET Lists
  BY DEF Writes, TypeOK
<1> QED
  BY <1>2, <1>3 DEF Writes

LEMMA BankTypes ==
  ASSUME TypeOK, NEW r \in Requests, BankRoutes(r)
  PROVE  TypeOK'
<1>1. \A list \in Single : list \in Lists
  BY DEF Single
<1>2. req[r] \in Request /\ served \in 0..MaxServed
  BY DEF TypeOK
<1>3. Begins(r) => served' \in 0..MaxServed
  BY <1>2, AssetsAssumption DEF Begins
<1>4. ASSUME NEW list \in Lists, ReplaceBankAccounts(r, list) PROVE TypeOK'
  <2>1. [pc |-> "replace", list |-> list] \in Request
    BY DEF Request
  <2>2. req' \in [Requests -> Request]
    BY <1>4, <2>1, GoToType DEF ReplaceBankAccounts
  <2> QED
    BY <1>4, <1>3, <2>2, WritesTypes DEF ReplaceBankAccounts, TypeOK, images
<1>5. ASSUME NEW list \in Single, UpdateSession(r, list) PROVE TypeOK'
  <2>1. list \in Lists
    BY <1>1
  <2>2. [pc |-> "patch", list |-> list] \in Request
    BY DEF Request
  <2>3. req' \in [Requests -> Request]
    BY <1>5, <2>2, GoToType DEF UpdateSession
  <2> QED
    BY <1>5, <1>3, <2>1, <2>3, WritesTypes DEF UpdateSession, TypeOK, images
<1>6. CASE SoftDelete(r)
  <2>1. req[r].list \in Lists
    BY <1>2, <1>6 DEF SoftDelete, Request
  <2>2. [pc |-> "insert", list |-> req[r].list, missed |-> FALSE] \in Request
    BY <2>1 DEF Request
  <2>3. req' \in [Requests -> Request]
    BY <1>6, <2>2, GoToType DEF SoftDelete
  <2> QED
    BY <1>6, <2>3 DEF SoftDelete, TypeOK, bank, images
<1>7. CASE BulkReplace(r)
  <2>1. req[r].list \in Lists
    BY <1>2, <1>7 DEF BulkReplace, Request
  <2>2. [pc |-> "mirror", list |-> req[r].list] \in Request
    BY <2>1 DEF Request
  <2>3. \A q \in Requests, b \in BOOLEAN : req[q].pc = "insert" => [req[q] EXCEPT !.missed = b] \in Request
    <3> SUFFICES ASSUME NEW q \in Requests, NEW b \in BOOLEAN, req[q].pc = "insert"
                 PROVE  [req[q] EXCEPT !.missed = b] \in Request
      OBVIOUS
    <3>1. req[q] \in [pc: {"insert"}, list: Lists, missed: BOOLEAN]
      BY DEF TypeOK, Request
    <3>2. [req[q] EXCEPT !.missed = b] \in [pc: {"insert"}, list: Lists, missed: BOOLEAN]
      BY <3>1
    <3> QED
      BY <3>2 DEF Request
  <2>4. req' \in [Requests -> Request]
    <3>1. (req[r].list # {}) \in BOOLEAN
      OBVIOUS
    <3>2. \A q \in Requests : req[q].pc = "insert" =>
            [req[q] EXCEPT !.missed = (req[r].list # {})] \in Request
      BY <2>3, <3>1
    <3> QED
      BY <1>7, <2>2, <3>2 DEF BulkReplace, TypeOK
  <2>5. accounts' \in Lists
    BY <1>7, <2>1 DEF BulkReplace, Left, TypeOK
  <2> QED
    BY <1>7, <2>4, <2>5 DEF BulkReplace, TypeOK, images
<1>8. CASE MirrorUpdate(r)
  <2>1. req[r].list \in Lists
    BY <1>2, <1>8 DEF MirrorUpdate, Request
  <2>2. legacy' \in Single
    BY <1>8, <2>1, MirrorType DEF MirrorUpdate
  <2>3. req' \in [Requests -> Request]
    BY <1>8, IdleType, GoToType DEF MirrorUpdate
  <2>4. current' \in SUBSET Lists /\ may' \in [Requests -> SUBSET Lists]
    BY <1>8 DEF MirrorUpdate, Wrote, TypeOK
  <2> QED
    BY <1>8, <2>2, <2>3, <2>4 DEF MirrorUpdate, TypeOK, images
<1>9. CASE Update(r)
  <2>1. req[r].list \in Single
    BY <1>2, <1>9 DEF Update, Request
  <2>2. req' \in [Requests -> Request]
    BY <1>9, IdleType, GoToType DEF Update
  <2>3. current' \in SUBSET Lists /\ may' \in [Requests -> SUBSET Lists]
    BY <1>9 DEF Update, Wrote, Forget, TypeOK
  <2> QED
    BY <1>9, <2>1, <2>2, <2>3 DEF Update, TypeOK, images
<1>10. CASE EditSession(r)
  <2>1. [pc |-> "edit", legacy |-> legacy] \in Request
    BY DEF Request, TypeOK
  <2>2. req' \in [Requests -> Request]
    BY <1>10, <2>1, GoToType DEF EditSession
  <2> QED
    BY <1>10, <1>3, <2>2 DEF EditSession, TypeOK, bank, images
<1>11. CASE EditUpdate(r)
  <2>1. req[r].legacy \in Single
    BY <1>2, <1>11 DEF EditUpdate, Request
  <2>2. req' \in [Requests -> Request]
    BY <1>11, IdleType, GoToType DEF EditUpdate
  <2>3. current' \in SUBSET Lists /\ may' \in [Requests -> SUBSET Lists]
    BY <1>1, <1>11, <2>1, HistoryTypes DEF EditUpdate, TypeOK
  <2> QED
    BY <1>11, <2>1, <2>2, <2>3 DEF EditUpdate, TypeOK, images
<1>12. CASE FindByID(r)
  <2>1. [pc |-> "page", legacy |-> legacy] \in Request
    BY DEF Request, TypeOK
  <2>2. req' \in [Requests -> Request]
    BY <1>12, <2>1, GoToType DEF FindByID
  <2> QED
    BY <1>12, <1>3, <2>2 DEF FindByID, TypeOK, images
<1>13. CASE FindBySessionID(r)
  <2>1. req' \in [Requests -> Request]
    BY <1>13, IdleType, GoToType DEF FindBySessionID
  <2> QED
    BY <1>13, <2>1 DEF FindBySessionID, Forget, TypeOK, images
<1> QED
  BY <1>4, <1>5, <1>6, <1>7, <1>8, <1>9, <1>10, <1>11, <1>12, <1>13 DEF BankRoutes

LEMMA ImageTypes ==
  ASSUME TypeOK, NEW r \in Requests, ImageRoutes(r)
  PROVE  TypeOK'
<1>1. req[r] \in Request /\ served \in 0..MaxServed
  BY DEF TypeOK
<1>2. Begins(r) => served' \in 0..MaxServed
  BY <1>1, AssetsAssumption DEF Begins
<1>3. ASSUME NEW i \in Images, NEW pc \in {"number", "delete", "remove"}
      PROVE  [pc |-> pc, of |-> i] \in Request
  BY DEF Request
<1>4. ASSUME NEW i \in Images, UploadBillImage(r, i) PROVE TypeOK'
  <2>1. req' \in [Requests -> Request]
    BY <1>3, <1>4, GoToType DEF UploadBillImage
  <2> QED
    BY <1>2, <1>4, <2>1 DEF UploadBillImage, TypeOK, bank
<1>5. ASSUME NEW i \in Images, DeleteBillImage(r, i) PROVE TypeOK'
  <2>1. req' \in [Requests -> Request]
    BY <1>3, <1>5, GoToType DEF DeleteBillImage
  <2> QED
    BY <1>2, <1>5, <2>1 DEF DeleteBillImage, TypeOK, bank, images
<1>6. CASE NextOrdinal(r)
  <2>1. PICK n \in 0..MaxServed :
          GoTo(r, [pc |-> "create", of |-> req[r].of, place |-> n, after |-> Live])
    BY <1>6 DEF NextOrdinal
  <2>2. req[r].of \in Images /\ Live \in SUBSET Images /\ n \in Nat
    BY <1>1, <1>6, AssetsAssumption DEF NextOrdinal, Request, Live
  <2>3. [pc |-> "create", of |-> req[r].of, place |-> n, after |-> Live] \in Request
    BY <2>2 DEF Request
  <2>4. req' \in [Requests -> Request]
    BY <2>1, <2>3, GoToType
  <2> QED
    BY <1>6, <2>4 DEF NextOrdinal, TypeOK, bank, images
<1>7. CASE Create(r)
  <2>1. req[r].of \in Images /\ req[r].place \in Nat /\ req[r].after \in SUBSET Images
    BY <1>1, <1>7 DEF Create, Request
  <2>2. req' \in [Requests -> Request]
    BY <1>7, IdleType, GoToType DEF Create
  <2> QED
    BY <1>7, <2>1, <2>2 DEF Create, TypeOK, bank
<1>8. CASE Delete(r)
  <2>1. req[r].of \in Images
    BY <1>1, <1>8 DEF Delete, Request
  <2>2. req' \in [Requests -> Request]
    BY <1>3, <1>8, <2>1, IdleType, GoToType DEF Delete
  <2>3. image' \in [Images -> {"none", "live", "deleted"}]
    BY <1>8 DEF Delete, TypeOK
  <2> QED
    BY <1>8, <2>2, <2>3 DEF Delete, TypeOK, bank
<1>9. CASE DeleteWithPrefix(r)
  <2>1. req' \in [Requests -> Request]
    BY <1>9, IdleType, GoToType DEF DeleteWithPrefix
  <2> QED
    BY <1>9, <2>1 DEF DeleteWithPrefix, TypeOK, bank
<1> QED
  BY <1>4, <1>5, <1>6, <1>7, <1>8, <1>9 DEF ImageRoutes

\* Every variable keeps its type.
THEOREM TypeCorrect == Spec => []TypeOK
<1>1. Init => TypeOK
  BY IdleType, AssetsAssumption DEF Init, TypeOK, Single, Lists
<1>2. TypeOK /\ [Next]_vars => TypeOK'
  <2> SUFFICES ASSUME TypeOK, [Next]_vars PROVE TypeOK'
    OBVIOUS
  <2>1. ASSUME NEW r \in Requests, Fail(r) PROVE TypeOK'
    <3>1. req' \in [Requests -> Request]
      BY <2>1, IdleType, GoToType DEF Fail
    <3> QED
      BY <2>1, <3>1 DEF Fail, Forget, TypeOK, images
  <2>2. CASE UNCHANGED vars
    BY <2>2 DEF vars, bank, images, TypeOK
  <2> QED
    BY <2>1, <2>2, BankTypes, ImageTypes DEF Next
<1> QED
  BY <1>1, <1>2, PTL DEF Spec

-----------------------------------------------------------------------------
(***************************************************************************)
(* Images.  What a request is about to enter or to remove keeps what is    *)
(* listed in order: the file of an entry to come is stored and nobody      *)
(* else's, its place is above those it has seen, and a file about to be    *)
(* removed is listed no more.                                              *)
(***************************************************************************)

Uploads(r) == req[r].pc \in {"number", "create"}
FilesWait == \A r \in Requests : Uploads(r) => req[r].of \in stored /\ image[req[r].of] = "none"
OneUpload == \A r, q \in Requests : Uploads(r) /\ Uploads(q) /\ req[r].of = req[q].of => r = q
PlacesAbove == \A r \in Requests : req[r].pc = "create" =>
  \A j \in req[r].after : image[j] # "none" /\ (image[j] = "live" => place[j] < req[r].place)
RemovedGone == \A r \in Requests : req[r].pc = "remove" => image[req[r].of] = "deleted"
PriorEntered == \A i \in Images : image[i] # "none" => \A j \in prior[i] : image[j] # "none"
ImageInvariant ==
  /\ FilesWait /\ OneUpload /\ PlacesAbove /\ RemovedGone /\ PriorEntered
  /\ ImagesInPlace

\* Other requests' steps.
LEMMA ImagesUntouched ==
  ASSUME ImageInvariant, UNCHANGED images,
         \A q \in Requests : req'[q] = req[q] \/ req'[q].pc \notin {"number", "create", "remove"}
  PROVE  ImageInvariant'
BY DEF ImageInvariant, FilesWait, OneUpload, PlacesAbove, RemovedGone, PriorEntered,
       ImagesInPlace, Uploads, Live, images

LEMMA ImagesKept ==
  ASSUME TypeOK, ImageInvariant, NEW r \in Requests, ImageRoutes(r)
  PROVE  ImageInvariant'
<1> USE DEF GoTo
<1>1. req \in [Requests -> Request] /\ req[r] \in Request
  BY DEF TypeOK
<1>2. ASSUME NEW i \in Images, UploadBillImage(r, i) PROVE ImageInvariant'
  <2>1. req' = [req EXCEPT ![r] = [pc |-> "number", of |-> i]] /\ UNCHANGED <<image, place, prior>>
    BY <1>2 DEF UploadBillImage
  <2>2. \A q \in Requests : Uploads(q) => req[q].of # i
    BY <1>2 DEF UploadBillImage, Uploads
  <2>3. FilesWait' /\ OneUpload'
    BY <1>1, <1>2, <2>1, <2>2 DEF UploadBillImage, ImageInvariant, FilesWait, OneUpload, Uploads
  <2>4. PlacesAbove' /\ RemovedGone' /\ PriorEntered'
    BY <1>1, <2>1 DEF ImageInvariant, PlacesAbove, RemovedGone, PriorEntered
  <2>5. ImagesInPlace'
    BY <1>2, <2>1 DEF UploadBillImage, ImageInvariant, ImagesInPlace, Live
  <2> QED
    BY <2>3, <2>4, <2>5 DEF ImageInvariant
<1>3. ASSUME NEW i \in Images, DeleteBillImage(r, i) PROVE ImageInvariant'
  BY <1>1, <1>3, ImagesUntouched DEF DeleteBillImage
<1>4. CASE NextOrdinal(r)
  <2>1. PICK n \in 0..MaxServed :
          /\ NextPlace(n)
          /\ req' = [req EXCEPT ![r] = [pc |-> "create", of |-> req[r].of, place |-> n, after |-> Live]]
    BY <1>4 DEF NextOrdinal
  <2>2. UNCHANGED <<image, place, stored, prior>> /\ req[r].pc = "number"
    BY <1>4 DEF NextOrdinal, images
  <2>3. FilesWait' /\ OneUpload'
    BY <1>1, <2>1, <2>2 DEF ImageInvariant, FilesWait, OneUpload, Uploads
  <2>4. \A j \in Live : image[j] = "live" /\ place[j] < n
    BY <2>1 DEF NextPlace, Live
  <2>5. PlacesAbove'
    BY <1>1, <2>1, <2>2, <2>4 DEF ImageInvariant, PlacesAbove
  <2>6. RemovedGone' /\ PriorEntered' /\ ImagesInPlace'
    BY <1>1, <2>1, <2>2 DEF ImageInvariant, RemovedGone, PriorEntered, ImagesInPlace, Live
  <2> QED
    BY <2>3, <2>5, <2>6 DEF ImageInvariant
<1>5. CASE Create(r)
  <2> DEFINE i == req[r].of
  <2>1. /\ image' = [image EXCEPT ![i] = "live"]
        /\ place' = [place EXCEPT ![i] = req[r].place]
        /\ prior' = [prior EXCEPT ![i] = req[r].after]
        /\ req' = [req EXCEPT ![r] = Idle] /\ UNCHANGED stored /\ req[r].pc = "create"
    BY <1>5 DEF Create
  <2>2. i \in Images /\ i \in stored /\ image[i] = "none"
    BY <1>1, <2>1 DEF ImageInvariant, FilesWait, Uploads, Request
  <2>3. \A q \in Requests : q # r /\ Uploads(q) => req[q].of # i
    BY <2>1 DEF ImageInvariant, OneUpload, Uploads
  <2>4. FilesWait' /\ OneUpload'
    BY <1>1, <2>1, <2>2, <2>3 DEF ImageInvariant, FilesWait, OneUpload, Uploads, Idle, TypeOK
  <2>5. \A q \in Requests : req[q].pc = "create" => i \notin req[q].after
    BY <2>2 DEF ImageInvariant, PlacesAbove
  <2>6. \A q \in Requests : req[q].pc = "create" => req[q].after \in SUBSET Images
    BY DEF TypeOK, Request
  <2>7. PlacesAbove'
    BY <1>1, <2>1, <2>2, <2>5, <2>6 DEF ImageInvariant, PlacesAbove, Idle, TypeOK
  <2>8. RemovedGone'
    BY <1>1, <2>1, <2>2 DEF ImageInvariant, RemovedGone, Idle, TypeOK
  <2>9. /\ \A j \in req[r].after : j \in Images /\ j # i /\ image[j] # "none"
        /\ \A j \in req[r].after : image[j] = "live" => place[j] < req[r].place
    BY <2>1, <2>2, <2>5, <2>6 DEF ImageInvariant, PlacesAbove
  <2>10. PriorEntered'
    BY <2>1, <2>2, <2>9 DEF ImageInvariant, PriorEntered, TypeOK
  <2>11. \A k \in Images : image[k] # "none" => k # i /\ i \notin prior[k] /\ prior[k] \in SUBSET Images
    BY <2>2 DEF ImageInvariant, PriorEntered, TypeOK
  <2>12. ImagesInPlace'
    <3> SUFFICES ASSUME NEW k \in Images, image'[k] = "live"
                 PROVE  k \in stored' /\ \A j \in prior'[k] \cap Live' : place'[j] < place'[k]
      BY DEF ImagesInPlace, Live
    <3>1. CASE k = i
      BY <2>1, <2>2, <2>9, <3>1 DEF Live, TypeOK
    <3>2. CASE k # i
      <4>1. image[k] = "live" /\ prior'[k] = prior[k] /\ place'[k] = place[k]
        BY <2>1, <3>2 DEF TypeOK
      <4>2. \A j \in prior[k] : j \in Images /\ j # i
        BY <2>11, <4>1
      <4>3. \A j \in prior[k] \cap Live' : j \in Live /\ place'[j] = place[j]
        BY <2>1, <4>2 DEF Live, TypeOK
      <4> QED
        BY <2>1, <4>1, <4>3 DEF ImageInvariant, ImagesInPlace, Live
    <3> QED
      BY <3>1, <3>2
  <2> QED
    BY <2>4, <2>7, <2>8, <2>10, <2>12 DEF ImageInvariant
<1>6. CASE Delete(r)
  <2> DEFINE i == req[r].of
  <2>1. i \in Images /\ req[r].pc = "delete" /\ UNCHANGED <<place, stored, prior>>
    BY <1>1, <1>6 DEF Delete, Request
  <2>2. CASE image[i] = "live"
    <3>1. image' = [image EXCEPT ![i] = "deleted"] /\ req' = [req EXCEPT ![r] = [pc |-> "remove", of |-> i]]
      BY <1>6, <2>2 DEF Delete
    <3>2. FilesWait' /\ OneUpload'
      BY <1>1, <2>1, <2>2, <3>1 DEF ImageInvariant, FilesWait, OneUpload, Uploads, TypeOK
    <3>3. \A j : image[j] # "none" => image'[j] # "none"
      BY <3>1, <2>1, <2>2 DEF TypeOK
    <3>4. \A j : image'[j] = "live" => image[j] = "live"
      BY <3>1, <2>1, <2>2 DEF TypeOK
    <3>5. PlacesAbove' /\ PriorEntered'
      BY <1>1, <2>1, <2>2, <3>1, <3>3, <3>4 DEF ImageInvariant, PlacesAbove, PriorEntered, TypeOK
    <3>6. RemovedGone'
      BY <1>1, <2>1, <2>2, <3>1 DEF ImageInvariant, RemovedGone, TypeOK, Request
    <3>7. ImagesInPlace'
      BY <2>1, <3>4 DEF ImageInvariant, ImagesInPlace, Live
    <3> QED
      BY <3>2, <3>5, <3>6, <3>7 DEF ImageInvariant
  <2>3. CASE image[i] # "live"
    <3>1. UNCHANGED images /\ req' = [req EXCEPT ![r] = Idle]
      BY <1>6, <2>1, <2>3 DEF Delete, images
    <3> QED
      BY <1>1, <3>1, ImagesUntouched DEF Idle
  <2> QED
    BY <2>2, <2>3
<1>7. CASE DeleteWithPrefix(r)
  <2> DEFINE i == req[r].of
  <2>1. /\ stored' = stored \ {i} /\ UNCHANGED <<image, place, prior>>
        /\ req' = [req EXCEPT ![r] = Idle] /\ req[r].pc = "remove"
    BY <1>7 DEF DeleteWithPrefix
  <2>2. image[i] = "deleted"
    BY <2>1 DEF ImageInvariant, RemovedGone
  <2>3. FilesWait' /\ OneUpload'
    BY <1>1, <2>1, <2>2 DEF ImageInvariant, FilesWait, OneUpload, Uploads, Idle
  <2>4. PlacesAbove' /\ RemovedGone' /\ PriorEntered' /\ ImagesInPlace'
    BY <1>1, <2>1, <2>2 DEF ImageInvariant, PlacesAbove, RemovedGone, PriorEntered, ImagesInPlace, Live, Idle
  <2> QED
    BY <2>3, <2>4 DEF ImageInvariant
<1> QED
  BY <1>2, <1>3, <1>4, <1>5, <1>6, <1>7 DEF ImageRoutes

\* Every listed image has its file and comes after those it was added to.
THEOREM ImagesStayInPlace == Spec => []ImagesInPlace
<1>1. Init => ImageInvariant
  BY DEF Init, ImageInvariant, FilesWait, OneUpload, PlacesAbove, RemovedGone, PriorEntered,
         ImagesInPlace, Uploads, Live, Idle
<1>2. TypeOK /\ ImageInvariant /\ [Next]_vars => ImageInvariant'
  <2> SUFFICES ASSUME TypeOK, ImageInvariant, [Next]_vars PROVE ImageInvariant'
    OBVIOUS
  <2>1. ASSUME NEW r \in Requests, BankRoutes(r)
        PROVE  /\ UNCHANGED images
               /\ \A q \in Requests : req'[q] = req[q] \/ req'[q].pc \notin {"number", "create", "remove"}
    <3> USE DEF TypeOK, GoTo, Idle
    <3>1. CASE BulkReplace(r)
      <4>1. \A q \in Requests : req[q].pc = "insert" => [req[q] EXCEPT !.missed = (req[r].list # {})].pc = "insert"
        <5> SUFFICES ASSUME NEW q \in Requests, req[q].pc = "insert"
                     PROVE  [req[q] EXCEPT !.missed = (req[r].list # {})].pc = "insert"
          OBVIOUS
        <5>1. req[q] \in [pc: {"insert"}, list: Lists, missed: BOOLEAN]
          BY DEF Request
        <5> QED
          BY <5>1
      <4> QED
        BY <3>1, <4>1 DEF BulkReplace
    <3>2. CASE \E list \in Lists : ReplaceBankAccounts(r, list)
      BY <3>2 DEF ReplaceBankAccounts
    <3>3. CASE \E list \in Single : UpdateSession(r, list)
      BY <3>3 DEF UpdateSession
    <3>4. CASE SoftDelete(r) \/ MirrorUpdate(r) \/ Update(r)
      BY <3>4 DEF SoftDelete, MirrorUpdate, Update
    <3>5. CASE EditSession(r) \/ EditUpdate(r) \/ FindByID(r) \/ FindBySessionID(r)
      BY <3>5 DEF EditSession, EditUpdate, FindByID, FindBySessionID
    <3> QED
      BY <2>1, <3>1, <3>2, <3>3, <3>4, <3>5 DEF BankRoutes
  <2>2. ASSUME NEW r \in Requests, Fail(r) PROVE ImageInvariant'
    BY <2>2, ImagesUntouched DEF Fail, GoTo, Idle, TypeOK
  <2>3. CASE UNCHANGED vars
    BY <2>3, ImagesUntouched DEF vars
  <2> QED
    BY <2>1, <2>2, <2>3, ImagesUntouched, ImagesKept DEF Next
<1>3. ImageInvariant => ImagesInPlace
  BY DEF ImageInvariant
<1> QED
  BY <1>1, <1>2, <1>3, TypeCorrect, PTL DEF Spec

-----------------------------------------------------------------------------
(***************************************************************************)
(* Accounts.  What is stored, in either place, is a list pages may show;   *)
(* so is what a replacement finds when it comes to its second store, and   *)
(* whoever is served may show every list that is on its way.               *)
(***************************************************************************)

\* Of two places, what a page makes of them is among the lists.
Covers(lists, table, columns) ==
  /\ columns # {} => columns \in lists
  /\ table # {} => table \in lists
  /\ table = {} /\ columns = {} => {} \in lists

NewsHeard == \A w \in Writing : /\ req[w].list \in current
                                /\ \A r \in Served : req[w].list \in may[r]
StoredCurrent == Covers(current, accounts, legacy)
PagesCovered == \A r \in Requests : req[r].pc = "page" => Covers(may[r], accounts, req[r].legacy)
MissedListed == \A r \in Requests :
  req[r].pc = "insert" /\ req[r].missed => accounts # {} /\ accounts \in may[r]
StoredHeard == \A r \in Requests : req[r].pc = "mirror" => accounts \in may[r]
BankInvariant ==
  NewsHeard /\ StoredCurrent /\ PagesCovered /\ MissedListed /\ StoredHeard

\* Steps on images, and an edit that begins.
LEMMA BankUntouched ==
  ASSUME BankInvariant, UNCHANGED bank,
         \A q \in Requests : \/ req'[q] = req[q]
                             \/ req'[q].pc \notin {"replace", "insert", "mirror", "patch", "page"}
  PROVE  BankInvariant'
BY DEF BankInvariant, NewsHeard, StoredCurrent, PagesCovered, MissedListed, StoredHeard,
       Covers, Writing, Served, bank

\* A list sets out, in a replacement or in the host's form.
LEMMA BankOnWrites ==
  ASSUME TypeOK, BankInvariant, NEW r \in Requests, NEW list \in Lists, NEW pc \in {"replace", "patch"},
         req[r].pc = "idle", req' = [req EXCEPT ![r] = [pc |-> pc, list |-> list]],
         Writes(r, list), UNCHANGED <<accounts, legacy>>
  PROVE  BankInvariant'
<1>1. /\ req \in [Requests -> Request] /\ may \in [Requests -> SUBSET Lists]
      /\ current' = current \cup {list}
  BY DEF TypeOK, Writes
<1>2. may'[r] = {list} \cup {req[w].list : w \in Writing}
  BY <1>1, HistoryTypes DEF Writes
<1>3. \A q \in Requests : q # r => may'[q] = IF q \in Served THEN may[q] \cup {list} ELSE may[q]
  BY <1>1 DEF Writes, Heard
<1>4. Served' = Served \cup {r} /\ Writing' = Writing \cup {r} /\ r \notin Served
  BY <1>1 DEF Served, Writing
<1>5. \A q \in Requests : q # r => req'[q] = req[q]
  BY <1>1
<1>6. req'[r] = [pc |-> pc, list |-> list]
  BY <1>1
<1>7. NewsHeard'
  <2> SUFFICES ASSUME NEW w \in Writing'
               PROVE  /\ req'[w].list \in current'
                      /\ \A q \in Served' : req'[w].list \in may'[q]
    BY DEF NewsHeard
  <2>1. CASE w = r
    BY <2>1, <1>1, <1>2, <1>3, <1>4, <1>6 DEF Served
  <2>2. CASE w # r
    <3>1. w \in Writing /\ req'[w] = req[w]
      BY <2>2, <1>4, <1>5 DEF Writing, Served
    <3>2. req[w].list \in current /\ \A q \in Served : req[w].list \in may[q]
      BY <3>1 DEF BankInvariant, NewsHeard
    <3>3. \A q \in Served : req[w].list \in may'[q]
      BY <3>2, <1>3, <1>4 DEF Served
    <3>4. req[w].list \in may'[r]
      BY <3>1, <1>2
    <3> QED
      BY <3>1, <3>2, <3>3, <3>4, <1>1, <1>4
  <2> QED
    BY <2>1, <2>2
<1>8. StoredCurrent'
  BY <1>1 DEF BankInvariant, StoredCurrent, Covers
<1>9. \A q \in Requests : q # r => may[q] \subseteq may'[q]
  <2> SUFFICES ASSUME NEW q \in Requests, q # r PROVE may[q] \subseteq may'[q]
    OBVIOUS
  <2>1. may'[q] = IF q \in Served THEN may[q] \cup {list} ELSE may[q]
    BY <1>3
  <2> QED
    BY <2>1
<1>10. PagesCovered'
  <2> SUFFICES ASSUME NEW q \in Requests, req'[q].pc = "page"
               PROVE  Covers(may'[q], accounts', req'[q].legacy)
    BY DEF PagesCovered, Covers
  <2>1. q # r
    BY <1>6
  <2>2. Covers(may[q], accounts, req[q].legacy)
    BY <2>1, <1>5 DEF BankInvariant, PagesCovered
  <2> QED
    BY <2>1, <2>2, <1>5, <1>9 DEF Covers
<1>11. MissedListed'
  <2> SUFFICES ASSUME NEW q \in Requests, req'[q].pc = "insert", req'[q].missed
               PROVE  accounts' # {} /\ accounts' \in may'[q]
    BY DEF MissedListed
  <2>1. q # r
    BY <1>6
  <2>2. accounts # {} /\ accounts \in may[q]
    BY <2>1, <1>5 DEF BankInvariant, MissedListed
  <2> QED
    BY <2>1, <2>2, <1>9
<1>12. StoredHeard'
  <2> SUFFICES ASSUME NEW q \in Requests, req'[q].pc = "mirror" PROVE accounts' \in may'[q]
    BY DEF StoredHeard
  <2>1. q # r
    BY <1>6
  <2>2. accounts \in may[q]
    BY <2>1, <1>5 DEF BankInvariant, StoredHeard
  <2> QED
    BY <2>1, <2>2, <1>9
<1> QED
  BY <1>7, <1>8, <1>10, <1>11, <1>12 DEF BankInvariant

\* A request is over that has stored nothing, or what pages may show.
LEMMA BankOnEnds ==
  ASSUME TypeOK, BankInvariant, NEW r \in Requests, GoTo(r, Idle), Forget(r),
         UNCHANGED accounts, StoredCurrent',
         \A w \in Writing : w # r => req[w].list \in current'
  PROVE  BankInvariant'
<1>1. req \in [Requests -> Request] /\ may \in [Requests -> SUBSET Lists]
  BY DEF TypeOK
<1>2. \A q \in Requests : q # r => req'[q] = req[q] /\ may'[q] = may[q]
  BY <1>1 DEF GoTo, Forget
<1>3. req'[r].pc = "idle"
  BY <1>1 DEF GoTo, Idle
<1>4. Served' = Served \ {r} /\ Writing' = Writing \ {r}
  BY <1>2, <1>3 DEF Served, Writing
<1>5. NewsHeard'
  BY <1>2, <1>4 DEF BankInvariant, NewsHeard, Served, Writing
<1>6. PagesCovered' /\ MissedListed' /\ StoredHeard'
  BY <1>2, <1>3 DEF BankInvariant, PagesCovered, MissedListed, StoredHeard
<1> QED
  BY <1>5, <1>6 DEF BankInvariant

LEMMA BankOnBulkReplace ==
  ASSUME TypeOK, BankInvariant, NEW r \in Requests, BulkReplace(r)
  PROVE  BankInvariant'
<1> DEFINE list == req[r].list
           missed == req[r].missed
<1>1. /\ req \in [Requests -> Request] /\ req[r].pc = "insert"
      /\ UNCHANGED <<legacy, current, may>>
      /\ missed => list = {}
      /\ accounts' = IF missed THEN accounts ELSE list
  BY DEF TypeOK, BulkReplace, Blocked, Left
<1>2. req'[r] = [pc |-> "mirror", list |-> list]
  BY DEF BulkReplace
<1>3. \A q \in Requests : q # r => /\ req'[q].pc = req[q].pc
                                   /\ req[q].pc # "insert" => req'[q] = req[q]
                                   /\ req[q].pc = "insert" => req'[q].list = req[q].list
  <2> SUFFICES ASSUME NEW q \in Requests, q # r
               PROVE  /\ req'[q].pc = req[q].pc
                      /\ req[q].pc # "insert" => req'[q] = req[q]
                      /\ req[q].pc = "insert" => req'[q].list = req[q].list
    OBVIOUS
  <2>1. CASE req[q].pc = "insert"
    <3>1. req[q] \in [pc: {"insert"}, list: Lists, missed: BOOLEAN]
      BY <2>1 DEF TypeOK, Request
    <3>2. req'[q] = req[q] \/ req'[q] = [req[q] EXCEPT !.missed = (req[r].list # {})]
      BY DEF BulkReplace
    <3> QED
      BY <2>1, <3>1, <3>2
  <2>2. CASE req[q].pc # "insert"
    BY <2>2 DEF BulkReplace
  <2> QED
    BY <2>1, <2>2
<1>4. \A q \in Requests : q # r /\ req[q].pc = "insert" /\ ~missed => req'[q].missed = (list # {})
  <2> SUFFICES ASSUME NEW q \in Requests, q # r, req[q].pc = "insert", ~missed
               PROVE  req'[q].missed = (list # {})
    OBVIOUS
  <2>1. req[q] \in [pc: {"insert"}, list: Lists, missed: BOOLEAN]
    BY DEF TypeOK, Request
  <2>2. req'[q] = [req[q] EXCEPT !.missed = (list # {})]
    BY DEF BulkReplace
  <2> QED
    BY <2>1, <2>2
<1>5. \A q \in Requests : q # r /\ req[q].pc = "insert" /\ missed => req'[q] = req[q]
  BY DEF BulkReplace
<1>6. Served' = Served /\ Writing' = Writing /\ r \in Writing /\ r \in Served
  BY <1>1, <1>2, <1>3 DEF Served, Writing
<1>7. \A w \in Writing : req'[w].list = req[w].list
  BY <1>2, <1>3 DEF Served, Writing
<1>8. list \in current /\ \A q \in Served : list \in may[q]
  BY <1>6 DEF BankInvariant, NewsHeard
<1>9. NewsHeard'
  BY <1>1, <1>6, <1>7 DEF BankInvariant, NewsHeard
<1>10. StoredCurrent'
  BY <1>1, <1>8 DEF BankInvariant, StoredCurrent, Covers
<1>11. PagesCovered'
  <2> SUFFICES ASSUME NEW q \in Requests, req'[q].pc = "page"
               PROVE  Covers(may'[q], accounts', req'[q].legacy)
    BY DEF PagesCovered, Covers
  <2>1. q # r /\ req[q].pc = "page" /\ req'[q] = req[q]
    BY <1>2, <1>3
  <2>2. Covers(may[q], accounts, req[q].legacy) /\ list \in may[q]
    BY <2>1, <1>8 DEF BankInvariant, PagesCovered, Served
  <2>3. accounts' = accounts \/ accounts' = list
    BY <1>1
  <2>4. accounts' = list => Covers(may[q], accounts', req[q].legacy)
    BY <2>2 DEF Covers
  <2> QED
    BY <2>1, <2>2, <2>3, <2>4, <1>1
<1>12. MissedListed'
  <2> SUFFICES ASSUME NEW q \in Requests, req'[q].pc = "insert", req'[q].missed
               PROVE  accounts' # {} /\ accounts' \in may'[q]
    BY DEF MissedListed
  <2>1. q # r /\ req[q].pc = "insert"
    BY <1>2, <1>3
  <2>2. list \in may[q] /\ may' = may
    BY <2>1, <1>1, <1>8 DEF Served
  <2>3. CASE missed
    BY <2>1, <2>3, <1>1, <1>5 DEF BankInvariant, MissedListed
  <2>4. CASE ~missed
    BY <2>1, <2>2, <2>4, <1>1, <1>4
  <2> QED
    BY <2>3, <2>4
<1>13. StoredHeard'
  <2>1. accounts' \in may[r]
    BY <1>1, <1>6, <1>8 DEF BankInvariant, MissedListed
  <2> QED
    BY <1>1, <1>2, <1>3, <1>8, <2>1 DEF BankInvariant, StoredHeard, Served
<1> QED
  BY <1>9, <1>10, <1>11, <1>12, <1>13 DEF BankInvariant

LEMMA BankOnEditUpdate ==
  ASSUME TypeOK, BankInvariant, NEW r \in Requests, EditUpdate(r)
  PROVE  BankInvariant'
<1> DEFINE old == req[r].legacy
<1>1. /\ req \in [Requests -> Request] /\ may \in [Requests -> SUBSET Lists]
      /\ req[r].pc = "edit" /\ legacy' = old /\ UNCHANGED accounts
      /\ req' = [req EXCEPT ![r] = Idle]
  BY DEF TypeOK, EditUpdate, GoTo
<1>2. \A q \in Requests : q # r => req'[q] = req[q]
  BY <1>1
<1>3. req'[r].pc = "idle"
  BY <1>1 DEF Idle
<1>4. Served' = Served /\ Writing' = Writing /\ r \notin Served
  BY <1>1, <1>2, <1>3 DEF Served, Writing
<1>5. current \subseteq current' /\ (old # legacy => old \in current')
  BY DEF EditUpdate
<1>6. \A q \in Requests : may[q] \subseteq may'[q]
  BY <1>1 DEF EditUpdate, Heard
<1>7. NewsHeard'
  BY <1>2, <1>4, <1>5, <1>6 DEF BankInvariant, NewsHeard, Served, Writing
<1>8. StoredCurrent'
  BY <1>1, <1>5 DEF BankInvariant, StoredCurrent, Covers
<1>9. PagesCovered'
  BY <1>1, <1>2, <1>3, <1>6 DEF BankInvariant, PagesCovered, Covers
<1>10. MissedListed' /\ StoredHeard'
  BY <1>1, <1>2, <1>3, <1>6 DEF BankInvariant, MissedListed, StoredHeard
<1> QED
  BY <1>7, <1>8, <1>9, <1>10 DEF BankInvariant

LEMMA BankKept ==
  ASSUME TypeOK, BankInvariant, NEW r \in Requests, BankRoutes(r)
  PROVE  BankInvariant'
<1>1. req \in [Requests -> Request] /\ may \in [Requests -> SUBSET Lists]
  BY DEF TypeOK
<1>2. ASSUME NEW list \in Lists, ReplaceBankAccounts(r, list) PROVE BankInvariant'
  BY <1>2, BankOnWrites DEF ReplaceBankAccounts, Begins, GoTo
<1>3. ASSUME NEW list \in Single, UpdateSession(r, list) PROVE BankInvariant'
  <2>1. list \in Lists
    BY DEF Single
  <2> QED
    BY <1>3, <2>1, BankOnWrites DEF UpdateSession, Begins, GoTo
<1>4. CASE SoftDelete(r)
  <2>1. /\ req[r].pc = "replace" /\ UNCHANGED <<accounts, legacy, current, may>>
        /\ req' = [req EXCEPT ![r] = [pc |-> "insert", list |-> req[r].list, missed |-> FALSE]]
    BY <1>4 DEF SoftDelete, GoTo, bank
  <2>2. \A q \in Requests : q # r => req'[q] = req[q]
    BY <1>1, <2>1
  <2>3. req'[r] = [pc |-> "insert", list |-> req[r].list, missed |-> FALSE]
    BY <1>1, <2>1
  <2>4. Served' = Served /\ Writing' = Writing
    BY <2>1, <2>2, <2>3 DEF Served, Writing
  <2>5. \A w \in Writing : req'[w].list = req[w].list
    BY <2>2, <2>3 DEF Served, Writing
  <2>6. NewsHeard'
    BY <2>1, <2>4, <2>5 DEF BankInvariant, NewsHeard
  <2>7. StoredCurrent' /\ PagesCovered' /\ MissedListed' /\ StoredHeard'
    BY <2>1, <2>2, <2>3 DEF BankInvariant, StoredCurrent, PagesCovered, MissedListed, StoredHeard
  <2> QED
    BY <2>6, <2>7 DEF BankInvariant
<1>5. CASE BulkReplace(r)
  BY <1>5, BankOnBulkReplace
<1>6. CASE MirrorUpdate(r)
  <2>1. /\ req[r].pc = "mirror" /\ legacy' = Mirror(req[r].list) /\ UNCHANGED accounts
        /\ GoTo(r, Idle) /\ current' = may[r] /\ Forget(r)
    BY <1>6 DEF MirrorUpdate, Wrote, Forget
  <2>2. r \in Writing /\ r \in Served
    BY <2>1 DEF Writing, Served
  <2>3. req[r].list \in may[r] /\ accounts \in may[r]
    BY <2>1, <2>2 DEF BankInvariant, NewsHeard, StoredHeard
  <2>4. StoredCurrent'
    BY <2>1, <2>3 DEF StoredCurrent, Covers, Mirror
  <2>5. \A w \in Writing : req[w].list \in current'
    BY <2>1, <2>2 DEF BankInvariant, NewsHeard
  <2> QED
    BY <2>1, <2>4, <2>5, BankOnEnds
<1>7. CASE Update(r)
  <2>1. /\ req[r].pc = "patch" /\ legacy' = req[r].list /\ UNCHANGED accounts
        /\ GoTo(r, Idle) /\ Forget(r)
        /\ current' = IF accounts = {} THEN may[r] ELSE current
    BY <1>7 DEF Update, Wrote, Forget
  <2>2. r \in Writing /\ r \in Served
    BY <2>1 DEF Writing, Served
  <2>3. req[r].list \in may[r] /\ req[r].list \in current
    BY <2>2 DEF BankInvariant, NewsHeard
  <2>4. StoredCurrent'
    BY <2>1, <2>3 DEF BankInvariant, StoredCurrent, Covers
  <2>5. \A w \in Writing : req[w].list \in current'
    BY <2>1, <2>2 DEF BankInvariant, NewsHeard
  <2> QED
    BY <2>1, <2>4, <2>5, BankOnEnds
<1>8. CASE EditSession(r)
  BY <1>1, <1>8, BankUntouched DEF EditSession, GoTo
<1>9. CASE EditUpdate(r)
  BY <1>9, BankOnEditUpdate
<1>10. CASE FindByID(r)
  <2>1. /\ req[r].pc = "idle" /\ UNCHANGED <<accounts, legacy, current>>
        /\ req' = [req EXCEPT ![r] = [pc |-> "page", legacy |-> legacy]]
        /\ may' = [may EXCEPT ![r] = current]
    BY <1>10 DEF FindByID, Begins, GoTo
  <2>2. \A q \in Requests : q # r => req'[q] = req[q] /\ may'[q] = may[q]
    BY <1>1, <2>1
  <2>3. req'[r] = [pc |-> "page", legacy |-> legacy] /\ may'[r] = current
    BY <1>1, <2>1
  <2>4. Served' = Served \cup {r} /\ Writing' = Writing /\ r \notin Writing
    BY <2>1, <2>2, <2>3 DEF Served, Writing
  <2>5. NewsHeard'
    <3> SUFFICES ASSUME NEW w \in Writing
                 PROVE  req'[w].list \in current' /\ \A q \in Served' : req'[w].list \in may'[q]
      BY <2>4 DEF NewsHeard
    <3>1. w \in Requests /\ w # r /\ req'[w].list = req[w].list
      BY <2>2, <2>4 DEF Writing, Served
    <3> QED
      BY <2>1, <2>2, <2>3, <2>4, <3>1 DEF BankInvariant, NewsHeard, Served
  <2>6. PagesCovered'
    BY <2>1, <2>2, <2>3 DEF BankInvariant, PagesCovered, StoredCurrent
  <2>7. StoredCurrent' /\ MissedListed' /\ StoredHeard'
    BY <2>1, <2>2, <2>3 DEF BankInvariant, StoredCurrent, MissedListed, StoredHeard
  <2> QED
    BY <2>5, <2>6, <2>7 DEF BankInvariant
<1>11. CASE FindBySessionID(r)
  <2>1. StoredCurrent' /\ \A w \in Writing : req[w].list \in current'
    BY <1>11 DEF FindBySessionID, BankInvariant, StoredCurrent, NewsHeard
  <2> QED
    BY <1>11, <2>1, BankOnEnds DEF FindBySessionID
<1> QED
  BY <1>2, <1>3, <1>4, <1>5, <1>6, <1>7, <1>8, <1>9, <1>10, <1>11 DEF BankRoutes

\* A page whose reads succeed shows a list that was in force while it was read.
THEOREM PagesShowAccounts == Spec => []PageShowsAccounts
<1>1. Init => BankInvariant
  BY DEF Init, BankInvariant, NewsHeard, StoredCurrent, PagesCovered, MissedListed, StoredHeard,
         Covers, Writing, Served, Idle
<1>2. TypeOK /\ BankInvariant /\ [Next]_vars => BankInvariant'
  <2> SUFFICES ASSUME TypeOK, BankInvariant, [Next]_vars PROVE BankInvariant'
    OBVIOUS
  <2>1. ASSUME NEW r \in Requests, ImageRoutes(r) PROVE BankInvariant'
    <3>1. UNCHANGED bank
      BY <2>1 DEF ImageRoutes, UploadBillImage, DeleteBillImage, NextOrdinal, Create, Delete, DeleteWithPrefix
    <3>2. \A q \in Requests : \/ req'[q] = req[q]
                              \/ req'[q].pc \notin {"replace", "insert", "mirror", "patch", "page"}
      BY <2>1 DEF ImageRoutes, UploadBillImage, DeleteBillImage, NextOrdinal, Create, Delete,
                  DeleteWithPrefix, GoTo, Idle, TypeOK
    <3> QED
      BY <3>1, <3>2, BankUntouched
  <2>2. ASSUME NEW r \in Requests, Fail(r) PROVE BankInvariant'
    <3>1. StoredCurrent' /\ \A w \in Writing : req[w].list \in current'
      BY <2>2 DEF Fail, BankInvariant, StoredCurrent, NewsHeard
    <3> QED
      BY <2>2, <3>1, BankOnEnds DEF Fail
  <2>3. CASE UNCHANGED vars
    BY <2>3, BankUntouched DEF vars
  <2> QED
    BY <2>1, <2>2, <2>3, BankKept DEF Next
<1>3. BankInvariant => PageShowsAccounts
  BY DEF BankInvariant, PagesCovered, Covers, PageShowsAccounts, Shown
<1> QED
  BY <1>1, <1>2, <1>3, TypeCorrect, PTL DEF Spec

=============================================================================
