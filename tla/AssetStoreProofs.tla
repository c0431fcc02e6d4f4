-------------------------- MODULE AssetStoreProofs --------------------------
(***************************************************************************)
(* What holds of AssetStore for any number of requests, copies and files.  *)
(* The argument: an id is given to one row and never again, so the rows a  *)
(* request is about to add belong to it alone (NewInv) and nobody deletes  *)
(* or erases them; the rows a request has deleted, uncommitted, have no    *)
(* object but for the one being erased (GoneInv); and the locks of the     *)
(* modules row keep a delete of the module and an upload that has inserted *)
(* its row apart (LockInv).  QuotaInv, at the end, counts files and the    *)
(* uploads that have been let through.                                     *)
(***************************************************************************)
EXTENDS AssetStore, FiniteSetTheorems, TLAPS

Places == {"idle", "reading", "checked", "received", "storing", "cleaning",
           "removing", "erasing"}
Taking == {"removing", "erasing"}

\* What a request in a place of its handler has done so far.
Fits(place, q) ==
    /\ place = "idle" => q = NoRequest
    /\ place = "reading" => q.op \in {"upload", "duplicate"}
    /\ place = "checked" => q.op = "upload"
    /\ place = "received" => q.op \in {"import", "document"}
    /\ place \in {"storing", "cleaning"} => q.op \in Makers \cup {"upload"}
    /\ place \in Taking => q.op \in {"remove", "retire"}
    /\ place \notin {"storing", "cleaning"} => DOMAIN q.new = {} /\ q.stored = {}
    /\ place \notin Taking => q.gone = {}
    /\ place = "storing" => DOMAIN q.new = q.todo \cup q.stored
    /\ place = "cleaning" => q.stored \subseteq DOMAIN q.new
    /\ place = "erasing" => q.at \in q.todo /\ q.at \in q.gone

RequestInv == \A r \in Requests : Fits(pc[r], req[r])

\* The rows a request has added are nobody else's.
NewInv ==
    /\ \A r \in Requests : \A a \in DOMAIN req[r].new : a \in used /\ a \notin DOMAIN rows
    /\ \A r, s \in Requests : \A a \in DOMAIN req[r].new : a \in DOMAIN req[s].new => r = s
    /\ \A r \in Requests : pc[r] = "storing" => req[r].stored \subseteq objects

\* The rows a request takes away were committed once, and those it has deleted
\* have no object any more.
GoneInv ==
    \A r \in Requests :
        /\ pc[r] \in Taking =>
             \A a \in req[r].todo \cup req[r].gone :
                 a \in used /\ \A s \in Requests : a \notin DOMAIN req[s].new
        /\ pc[r] = "removing" => \A a \in req[r].gone : a \notin objects
        /\ pc[r] = "erasing" =>
             \A a \in req[r].gone : a # req[r].at => a \notin objects

\* A module being deleted is open, every row of it is on the list, and neither
\* an upload with its row, another delete nor its maker is at it.
LockInv ==
    /\ \A r \in Requests : req[r].op = "upload" => req[r].module \in Modules
    /\ \A r \in Requests : req[r].op = "retire" =>
         /\ req[r].module \in Modules
         /\ status[req[r].module] = "open"
         /\ \A a \in DOMAIN rows :
              rows[a] = req[r].module => a \in req[r].todo \cup req[r].gone
         /\ \A s \in Requests : req[s].module = req[r].module =>
              /\ req[s].op = "upload" => DOMAIN req[s].new = {}
              /\ req[s].op = "retire" => s = r
    /\ \A r \in Requests : req[r].op \in Makers =>
         /\ req[r].module \in Modules
         /\ status[req[r].module] = "absent"
         /\ \A s \in Requests :
              req[s].op \in Makers /\ req[s].module = req[r].module => s = r

\* The inductive invariant.
AssetInv ==
    /\ TypeOK
    /\ RequestInv
    /\ NewInv
    /\ GoneInv
    /\ LockInv
    /\ RowsHaveObjects
    /\ ObjectsAreAccountedFor

-----------------------------------------------------------------------------
(* Maps and requests.                                                      *)

LEMMA MapsOfFact ==
    ASSUME NEW S, NEW T, NEW f
    PROVE  f \in MapsOf(S, T) <=> f \in [DOMAIN f -> T] /\ DOMAIN f \subseteq S
  BY SMT DEF MapsOf

LEMMA NoRequestTyped == NoRequest \in Request
  <1>1. NoAssets \in MapsOf(Assets, Assets \cup {None}) /\ DOMAIN NoAssets = {}
    BY MapsOfFact DEF NoAssets
  <1>2. QED
    BY <1>1 DEF NoRequest, Request

\* A request that goes to a place and becomes q, leaving the others alone.
Becomes(r, place, q) ==
    /\ pc' = [pc EXCEPT ![r] = place]
    /\ req' = [req EXCEPT ![r] = q]

LEMMA BecomesFact ==
    ASSUME TypeOK, RequestInv, NEW r \in Requests, NEW place \in Places,
           NEW q \in Request, Becomes(r, place, q), Fits(place, q)
    PROVE  /\ pc'[r] = place /\ req'[r] = q
           /\ \A s \in Requests : s # r => pc'[s] = pc[s] /\ req'[s] = req[s]
           /\ pc' \in [Requests -> Places]
           /\ req' \in [Requests -> Request]
           /\ RequestInv'
  <1>1. pc \in [Requests -> Places] /\ req \in [Requests -> Request]
    BY DEF TypeOK, Places
  <1>2. /\ pc'[r] = place /\ req'[r] = q
        /\ \A s \in Requests : s # r => pc'[s] = pc[s] /\ req'[s] = req[s]
    BY <1>1 DEF Becomes
  <1>3. /\ pc' \in [Requests -> Places]
        /\ req' \in [Requests -> Request]
    BY <1>1 DEF Becomes
  <1>4. RequestInv'
    BY <1>2 DEF RequestInv
  <1>5. QED
    BY <1>2, <1>3, <1>4

LEMMA EndsBecomes ==
    ASSUME NEW r \in Requests, Ends(r)
    PROVE  Becomes(r, "idle", NoRequest) /\ Fits("idle", NoRequest)
  BY DEF Ends, Goes, Becomes, Fits, NoRequest, NoAssets, Taking

LEMMA RowsAreUsed ==
    ASSUME TypeOK
    PROVE  /\ DOMAIN rows \subseteq used
           /\ used \subseteq Assets
           /\ rows \in [DOMAIN rows -> Modules]
  BY MapsOfFact DEF TypeOK

-----------------------------------------------------------------------------
(* Steps that leave rows and objects alone.                                *)

\* What the invariant says but for the locks.
BooksInv ==
    /\ TypeOK
    /\ RequestInv
    /\ NewInv
    /\ GoneInv
    /\ RowsHaveObjects
    /\ ObjectsAreAccountedFor

LEMMA StartsStep ==
    ASSUME AssetInv, NEW r \in Requests, NEW q \in Request,
           NEW place \in {"reading", "received", "removing"},
           Starts(r, place, q), Fits(place, q),
           place = "removing" => q.todo \subseteq DOMAIN rows /\ q.gone = {},
           UNCHANGED <<database, objects, used, destroyed, stranded>>
    PROVE  /\ BooksInv'
           /\ req'[r] = q
           /\ \A s \in Requests : s # r => req'[s] = req[s]
  <1>1. Becomes(r, place, q) /\ pc[r] = "idle" /\ place \in Places
    BY DEF Starts, Goes, Becomes, Places
  <1>2. /\ pc'[r] = place /\ req'[r] = q
        /\ \A s \in Requests : s # r => pc'[s] = pc[s] /\ req'[s] = req[s]
        /\ pc' \in [Requests -> Places]
        /\ req' \in [Requests -> Request]
        /\ RequestInv'
    BY <1>1, BecomesFact DEF AssetInv
  <1>3. req[r] = NoRequest
    BY <1>1 DEF AssetInv, RequestInv, Fits
  <1>4. /\ DOMAIN req[r].new = {} /\ req[r].stored = {}
        /\ DOMAIN q.new = {} /\ q.stored = {}
        /\ place = "removing" => q.gone = {}
    BY <1>3 DEF NoRequest, NoAssets, Fits, Taking
  <1>5. TypeOK'
    BY <1>2 DEF AssetInv, TypeOK, database, Places
  <1>6. NewInv'
    BY <1>2, <1>4 DEF AssetInv, NewInv, database
  <1>7. GoneInv'
    BY <1>2, <1>4, RowsAreUsed DEF AssetInv, GoneInv, NewInv, Taking, database
  <1>8. RowsHaveObjects'
    BY DEF AssetInv, RowsHaveObjects, database
  <1>9. ObjectsAreAccountedFor'
    BY <1>2, <1>4 DEF AssetInv, ObjectsAreAccountedFor, database
  <1>10. QED
    BY <1>2, <1>5, <1>6, <1>7, <1>8, <1>9 DEF BooksInv

LEMMA BeginUploadStep ==
    ASSUME AssetInv, NEW r \in Requests, NEW m \in Modules, BeginUpload(r, m)
    PROVE  AssetInv'
  <1> DEFINE q == [NoRequest EXCEPT !.op = "upload", !.module = m]
  <1>1. /\ q \in Request /\ Fits("reading", q)
        /\ q.op = "upload" /\ q.module = m /\ DOMAIN q.new = {}
    BY NoRequestTyped DEF Request, Fits, NoRequest, NoAssets, Taking
  <1>2. Starts(r, "reading", q)
    BY DEF BeginUpload
  <1>3. UNCHANGED <<database, objects, used, destroyed, stranded>>
    BY DEF BeginUpload
  <1> HIDE DEF q
  <1>4. BooksInv' /\ req'[r] = q /\ \A s \in Requests : s # r => req'[s] = req[s]
    BY <1>1, <1>2, <1>3, StartsStep
  <1>5. LockInv'
    BY <1>1, <1>3, <1>4 DEF AssetInv, LockInv, Makers, database
  <1>6. QED
    BY <1>4, <1>5 DEF BooksInv, AssetInv

LEMMA BeginDuplicateStep ==
    ASSUME AssetInv, NEW r \in Requests, NEW m \in Modules, NEW c \in Copies,
           BeginDuplicate(r, m, c)
    PROVE  AssetInv'
  <1> DEFINE q == [NoRequest EXCEPT !.op = "duplicate", !.module = c, !.from = m]
  <1>1. /\ q \in Request /\ Fits("reading", q)
        /\ q.op = "duplicate" /\ q.module = c /\ c \in Modules
    BY NoRequestTyped DEF Request, Fits, NoRequest, NoAssets, Taking, Makers, Modules
  <1>2. Starts(r, "reading", q)
    BY DEF BeginDuplicate
  <1>3. UNCHANGED <<database, objects, used, destroyed, stranded>> /\ IsFresh(c)
    BY DEF BeginDuplicate
  <1> HIDE DEF q
  <1>4. BooksInv' /\ req'[r] = q /\ \A s \in Requests : s # r => req'[s] = req[s]
    BY <1>1, <1>2, <1>3, StartsStep
  <1>5. LockInv'
    BY <1>1, <1>3, <1>4 DEF AssetInv, LockInv, Makers, IsFresh, database
  <1>6. QED
    BY <1>4, <1>5 DEF BooksInv, AssetInv

LEMMA BeginImportStep ==
    ASSUME AssetInv, NEW r \in Requests, NEW c \in Copies,
           NEW op \in {"import", "document"}, BeginImport(r, c, op)
    PROVE  AssetInv'
  <1> DEFINE q == [NoRequest EXCEPT !.op = op, !.module = c]
  <1>1. /\ q \in Request /\ Fits("received", q)
        /\ q.op = op /\ q.module = c /\ c \in Modules
    BY NoRequestTyped DEF Request, Fits, NoRequest, NoAssets, Taking, Makers, Modules
  <1>2. Starts(r, "received", q)
    BY DEF BeginImport
  <1>3. UNCHANGED <<database, objects, used, destroyed, stranded>> /\ IsFresh(c)
    BY DEF BeginImport
  <1> HIDE DEF q
  <1>4. BooksInv' /\ req'[r] = q /\ \A s \in Requests : s # r => req'[s] = req[s]
    BY <1>1, <1>2, <1>3, StartsStep
  <1>5. LockInv'
    BY <1>1, <1>3, <1>4 DEF AssetInv, LockInv, Makers, IsFresh, database
  <1>6. QED
    BY <1>4, <1>5 DEF BooksInv, AssetInv

LEMMA BeginDeleteAssetStep ==
    ASSUME AssetInv, NEW r \in Requests, NEW a \in Assets, BeginDeleteAsset(r, a)
    PROVE  AssetInv'
  <1> DEFINE q == [NoRequest EXCEPT !.op = "remove", !.module = rows[a], !.todo = {a}]
  <1>1. /\ q \in Request /\ Fits("removing", q) /\ q.op = "remove"
        /\ q.todo = {a} /\ a \in DOMAIN rows /\ q.gone = {}
    BY NoRequestTyped, RowsAreUsed
       DEF AssetInv, BeginDeleteAsset, Request, Fits, NoRequest, NoAssets, Taking
  <1>2. Starts(r, "removing", q)
    BY DEF BeginDeleteAsset
  <1>3. UNCHANGED <<database, objects, used, destroyed, stranded>>
    BY DEF BeginDeleteAsset
  <1> HIDE DEF q
  <1>4. BooksInv' /\ req'[r] = q /\ \A s \in Requests : s # r => req'[s] = req[s]
    BY <1>1, <1>2, <1>3, StartsStep
  <1>5. LockInv'
    BY <1>1, <1>3, <1>4 DEF AssetInv, LockInv, Makers, database
  <1>6. QED
    BY <1>4, <1>5 DEF BooksInv, AssetInv

LEMMA BeginDeleteModuleStep ==
    ASSUME AssetInv, NEW r \in Requests, NEW m \in Modules, BeginDeleteModule(r, m)
    PROVE  AssetInv'
  <1> DEFINE q == [NoRequest EXCEPT !.op = "retire", !.module = m, !.todo = AssetsOf(m)]
  <1>1. /\ q \in Request /\ Fits("removing", q) /\ q.op = "retire"
        /\ q.module = m /\ q.todo = AssetsOf(m) /\ q.gone = {}
        /\ q.todo \subseteq DOMAIN rows
    BY NoRequestTyped, RowsAreUsed
       DEF AssetInv, AssetsOf, Request, Fits, NoRequest, NoAssets, Taking
  <1>2. Starts(r, "removing", q)
    BY DEF BeginDeleteModule
  <1>3. /\ UNCHANGED <<database, objects, used, destroyed, stranded>>
        /\ status[m] = "open" /\ ~Exclusive(m) /\ ~Shared(m)
    BY DEF BeginDeleteModule
  <1> HIDE DEF q
  <1>4. BooksInv' /\ req'[r] = q /\ \A s \in Requests : s # r => req'[s] = req[s]
    BY <1>1, <1>2, <1>3, StartsStep
  <1>5. LockInv'
    BY <1>1, <1>3, <1>4
       DEF AssetInv, LockInv, Makers, Exclusive, Shared, AssetsOf, database
  <1>6. QED
    BY <1>4, <1>5 DEF BooksInv, AssetInv

-----------------------------------------------------------------------------
(* Steps that end a request and commit nothing.                            *)

LEMMA EndsStep ==
    ASSUME AssetInv, NEW r \in Requests, Ends(r),
           UNCHANGED <<database, used>>,
           stranded \subseteq stranded', stranded' \subseteq used \X Reasons,
           destroyed \subseteq destroyed', destroyed' \subseteq used,
           objects' \subseteq objects, objects \ objects' \subseteq destroyed',
           \A a \in objects \ objects', s \in Requests : a \notin DOMAIN req[s].new,
           \A a \in req[r].stored : \E why \in Reasons : <<a, why>> \in stranded'
    PROVE  AssetInv'
  <1>1. Becomes(r, "idle", NoRequest) /\ Fits("idle", NoRequest)
    BY EndsBecomes
  <1>2. /\ pc'[r] = "idle" /\ req'[r] = NoRequest
        /\ \A s \in Requests : s # r => pc'[s] = pc[s] /\ req'[s] = req[s]
        /\ pc' \in [Requests -> Places]
        /\ req' \in [Requests -> Request]
        /\ RequestInv'
    BY <1>1, BecomesFact, NoRequestTyped DEF AssetInv, Places
  <1>3. /\ DOMAIN NoRequest.new = {} /\ NoRequest.stored = {}
        /\ NoRequest.op = "none" /\ NoRequest.gone = {} /\ NoRequest.todo = {}
    BY DEF NoRequest, NoAssets
  <1>4. "none" \notin {"retire"} \cup Makers
    BY DEF Makers
  <1>5. TypeOK'
    BY <1>2 DEF AssetInv, TypeOK, database, Places
  <1>6. NewInv'
    <2>1. \A s \in Requests :
            pc[s] = "storing" => \A a \in req[s].stored : a \in DOMAIN req[s].new
      BY DEF AssetInv, RequestInv, Fits
    <2>2. QED
      BY <1>2, <1>3, <2>1 DEF AssetInv, NewInv, database
  <1>7. GoneInv'
    BY <1>2, <1>3 DEF AssetInv, GoneInv, Taking, database
  <1>8. LockInv'
    BY <1>2, <1>3, <1>4 DEF AssetInv, LockInv, database
  <1>9. RowsHaveObjects'
    BY DEF AssetInv, RowsHaveObjects, database
  <1>10. ObjectsAreAccountedFor'
    <2> SUFFICES ASSUME NEW a \in objects', a \notin DOMAIN rows
                 PROVE  \/ \E s \in Requests : a \in req'[s].stored
                        \/ \E why \in Reasons : <<a, why>> \in stranded'
      BY DEF ObjectsAreAccountedFor, database
    <2>1. CASE a \in req[r].stored
      BY <2>1
    <2>2. CASE \E s \in Requests : s # r /\ a \in req[s].stored
      BY <2>2, <1>2
    <2>3. CASE \E why \in Reasons : <<a, why>> \in stranded
      BY <2>3
    <2>4. QED
      BY <2>1, <2>2, <2>3 DEF AssetInv, ObjectsAreAccountedFor
  <1>11. QED
    BY <1>2, <1>5, <1>6, <1>7, <1>8, <1>9, <1>10 DEF AssetInv

\* What a request has written is of its own new rows.
LEMMA StoredIsNew ==
    ASSUME AssetInv, NEW r \in Requests
    PROVE  /\ req[r].stored \subseteq DOMAIN req[r].new
           /\ req[r].stored \subseteq used
           /\ pc[r] \notin {"storing", "cleaning"} => req[r].stored = {}
  <1>1. pc[r] \in Places
    BY DEF AssetInv, TypeOK, Places
  <1>2. Fits(pc[r], req[r])
    BY DEF AssetInv, RequestInv
  <1>3. /\ req[r].stored \subseteq DOMAIN req[r].new
        /\ pc[r] \notin {"storing", "cleaning"} => req[r].stored = {}
    BY <1>1, <1>2 DEF Fits
  <1>4. DOMAIN req[r].new \subseteq used
    BY DEF AssetInv, NewInv
  <1>5. QED
    BY <1>3, <1>4

LEMMA GiveUpStep ==
    ASSUME AssetInv, NEW r \in Requests, GiveUp(r)
    PROVE  AssetInv'
  BY EndsStep DEF GiveUp, Written, AssetInv, TypeOK

LEMMA StrandsStep ==
    ASSUME AssetInv, NEW r \in Requests, RejectPages(r) \/ Die(r)
    PROVE  AssetInv'
  <1>1. PICK why \in Reasons : stranded' = stranded \cup (req[r].stored \X {why})
    BY DEF RejectPages, Die, Reasons
  <1>2. Ends(r) /\ UNCHANGED <<database, objects, used, destroyed>>
    BY DEF RejectPages, Die
  <1>3. stranded' \subseteq used \X Reasons
    BY <1>1, StoredIsNew DEF AssetInv, TypeOK
  <1>4. \A a \in req[r].stored : \E w \in Reasons : <<a, w>> \in stranded'
    BY <1>1
  <1>5. QED
    BY <1>1, <1>2, <1>3, <1>4, EndsStep DEF AssetInv, TypeOK

LEMMA EraseFailsStep ==
    ASSUME AssetInv, NEW r \in Requests, EraseFails(r)
    PROVE  AssetInv'
  <1>1. /\ pc[r] = "erasing" /\ Ends(r)
        /\ UNCHANGED <<database, used, stranded>>
    BY DEF EraseFails
  <1>2. req[r].at \in req[r].gone /\ req[r].stored = {}
    BY <1>1, StoredIsNew DEF AssetInv, RequestInv, Fits
  <1>3. req[r].at \in used /\ \A s \in Requests : req[r].at \notin DOMAIN req[s].new
    BY <1>1, <1>2 DEF AssetInv, GoneInv, Taking
  <1>4. /\ destroyed \subseteq destroyed' /\ destroyed' \subseteq used
        /\ objects' \subseteq objects
        /\ objects \ objects' \subseteq destroyed' \cap {req[r].at}
    BY <1>3 DEF EraseFails, AssetInv, TypeOK
  <1>5. QED
    BY <1>1, <1>2, <1>3, <1>4, EndsStep DEF AssetInv, TypeOK

LEMMA CheckQuotaStep ==
    ASSUME AssetInv, NEW r \in Requests, CheckQuota(r)
    PROVE  AssetInv'
  <1>1. /\ pc[r] = "reading" /\ req[r].op = "upload"
        /\ UNCHANGED <<database, objects, used, destroyed, stranded>>
    BY DEF CheckQuota
  <1>2. CASE Ends(r)
    BY <1>1, <1>2, EndsStep, StoredIsNew DEF AssetInv, TypeOK
  <1>3. CASE Goes(r, "checked") /\ req' = req
    <2>1. Fits("reading", req[r])
      BY <1>1 DEF AssetInv, RequestInv
    <2>2. Fits("checked", req[r]) /\ Becomes(r, "checked", req[r]) /\ req[r] \in Request
      BY <1>1, <1>3, <2>1 DEF Fits, Becomes, Goes, Taking, AssetInv, TypeOK
    <2>3. /\ pc'[r] = "checked"
          /\ \A s \in Requests : s # r => pc'[s] = pc[s]
          /\ pc' \in [Requests -> Places]
          /\ RequestInv'
      BY <2>2, BecomesFact DEF AssetInv, Places
    <2>4. TypeOK'
      BY <1>1, <1>3, <2>3 DEF AssetInv, TypeOK, database, Places
    <2>5. NewInv'
      BY <1>1, <1>3, <2>3 DEF AssetInv, NewInv, database
    <2>6. GoneInv'
      BY <1>1, <1>3, <2>3 DEF AssetInv, GoneInv, Taking
    <2>7. LockInv' /\ RowsHaveObjects' /\ ObjectsAreAccountedFor'
      BY <1>1, <1>3 DEF AssetInv, LockInv, RowsHaveObjects, ObjectsAreAccountedFor, database
    <2>8. QED
      BY <2>3, <2>4, <2>5, <2>6, <2>7 DEF AssetInv
  <1>4. QED
    BY <1>2, <1>3 DEF CheckQuota

-----------------------------------------------------------------------------
(* Steps that add rows, uncommitted.                                       *)

LEMMA InsertsStep ==
    ASSUME AssetInv, NEW r \in Requests,
           NEW new \in MapsOf(Assets, Assets \cup {None}), InsertsRows(r, new),
           \/ pc[r] = "reading" /\ req[r].op = "duplicate"
           \/ pc[r] = "checked" /\ KeyIsFree(req[r].module)
           \/ pc[r] = "received",
           UNCHANGED <<database, objects, destroyed, stranded>>
    PROVE  AssetInv'
  <1> DEFINE q == [req[r] EXCEPT !.new = new, !.todo = DOMAIN new]
  <1>1. req \in [Requests -> Request] /\ Fits(pc[r], req[r])
    BY DEF AssetInv, TypeOK, RequestInv
  <1>2. /\ DOMAIN new \cap used = {} /\ used' = used \cup DOMAIN new
        /\ DOMAIN new \subseteq Assets
    BY MapsOfFact DEF InsertsRows
  <1>3. /\ q \in Request
        /\ q.op = req[r].op /\ q.module = req[r].module
        /\ q.new = new /\ q.todo = DOMAIN new
        /\ q.stored = req[r].stored /\ q.gone = req[r].gone
    <2>1. req[r] \in Request /\ DOMAIN new \in SUBSET Assets
      BY <1>1, <1>2
    <2>2. QED
      BY <2>1 DEF Request
  <1>4. req' = [req EXCEPT ![r] = q] /\ pc' = [pc EXCEPT ![r] = "storing"]
    BY <1>1 DEF InsertsRows, Goes
  <1> HIDE DEF q
  <1>5. /\ q.op \in Makers \cup {"upload"} /\ q.stored = {} /\ q.gone = {}
        /\ q.op = "upload" => ~Exclusive(q.module)
    BY <1>1, <1>3 DEF Fits, KeyIsFree, Makers, Taking
  <1>6. Fits("storing", q)
    BY <1>3, <1>5 DEF Fits, Taking
  <1>7. /\ pc'[r] = "storing" /\ req'[r] = q
        /\ \A s \in Requests : s # r => pc'[s] = pc[s] /\ req'[s] = req[s]
        /\ pc' \in [Requests -> Places]
        /\ req' \in [Requests -> Request]
        /\ RequestInv'
    BY <1>3, <1>4, <1>6, BecomesFact DEF Becomes, AssetInv, Places
  <1>8. DOMAIN rows \subseteq used /\ used \subseteq Assets
    BY RowsAreUsed DEF AssetInv
  <1>9. TypeOK'
    <2>1. rows \in MapsOf(used', Modules)
      BY <1>2, MapsOfFact, RowsAreUsed DEF AssetInv
    <2>2. QED
      BY <1>2, <1>7, <1>8, <2>1 DEF AssetInv, TypeOK, database, Places
  <1>10. NewInv'
    <2>1. \A s \in Requests : \A a \in DOMAIN req'[s].new : a \in used' /\ a \notin DOMAIN rows
      BY <1>2, <1>3, <1>7, <1>8 DEF AssetInv, NewInv
    <2>2. \A s \in Requests : s # r => DOMAIN req'[s].new \subseteq used
      BY <1>7 DEF AssetInv, NewInv
    <2>3. \A s, t \in Requests : \A a \in DOMAIN req'[s].new :
            a \in DOMAIN req'[t].new => s = t
      BY <1>2, <1>3, <1>7, <2>2 DEF AssetInv, NewInv
    <2>4. \A s \in Requests : pc'[s] = "storing" => req'[s].stored \subseteq objects
      BY <1>5, <1>7 DEF AssetInv, NewInv
    <2>5. QED
      BY <2>1, <2>3, <2>4 DEF NewInv, database
  <1>11. GoneInv'
    BY <1>2, <1>3, <1>7 DEF AssetInv, GoneInv, Taking
  <1>12. LockInv'
    BY <1>3, <1>5, <1>7 DEF AssetInv, LockInv, Exclusive, Makers, database
  <1>13. RowsHaveObjects'
    BY DEF AssetInv, RowsHaveObjects, database
  <1>14. ObjectsAreAccountedFor'
    <2>1. req[r].stored = {}
      BY <1>3, <1>5
    <2>2. QED
      BY <1>7, <2>1 DEF AssetInv, ObjectsAreAccountedFor, database
  <1>15. QED
    BY <1>7, <1>9, <1>10, <1>11, <1>12, <1>13, <1>14 DEF AssetInv

LEMMA FreshRowsStep ==
    ASSUME AssetInv, NEW r \in Requests,
           InsertAsset(r) \/ ListAssets(r) \/ InsertImported(r)
    PROVE  AssetInv'
  <1>1. CASE InsertAsset(r)
    <2>1. PICK a \in Assets : InsertsRows(r, [b \in {a} |-> None])
      BY <1>1 DEF InsertAsset
    <2>2. [b \in {a} |-> None] \in MapsOf(Assets, Assets \cup {None})
      BY MapsOfFact
    <2>3. QED
      BY <1>1, <2>1, <2>2, InsertsStep DEF InsertAsset
  <1>2. CASE ListAssets(r)
    <2>1. PICK ids \in SUBSET Assets :
            \E new \in Bijection(ids, AssetsOf(req[r].from)) : InsertsRows(r, new)
      BY <1>2 DEF ListAssets
    <2>2. PICK new \in Bijection(ids, AssetsOf(req[r].from)) : InsertsRows(r, new)
      BY <2>1
    <2>3. new \in [ids -> AssetsOf(req[r].from)]
      BY <2>2 DEF Bijection, Injection
    <2>4. AssetsOf(req[r].from) \subseteq Assets
      BY RowsAreUsed DEF AssetInv, AssetsOf
    <2>5. new \in MapsOf(Assets, Assets \cup {None})
      BY <2>3, <2>4, MapsOfFact
    <2>6. QED
      BY <1>2, <2>2, <2>5, InsertsStep DEF ListAssets
  <1>3. CASE InsertImported(r)
    <2>1. PICK ids \in SUBSET Assets : InsertsRows(r, [a \in ids |-> None])
      BY <1>3 DEF InsertImported
    <2>2. [a \in ids |-> None] \in MapsOf(Assets, Assets \cup {None})
      BY MapsOfFact
    <2>3. QED
      BY <1>3, <2>1, <2>2, InsertsStep DEF InsertImported
  <1>4. QED
    BY <1>1, <1>2, <1>3

-----------------------------------------------------------------------------
(* Calls to the store.                                                     *)

LEMMA StoreStep ==
    ASSUME AssetInv, NEW r \in Requests, NEW a \in Assets, Store(r, a)
    PROVE  AssetInv'
  <1> DEFINE q == [req[r] EXCEPT !.todo = @ \ {a}, !.stored = @ \cup {a}]
  <1>1. /\ req[r] \in Request /\ Fits("storing", req[r]) /\ pc[r] = "storing"
        /\ req \in [Requests -> Request] /\ pc \in [Requests -> Places]
    BY DEF Store, AssetInv, TypeOK, RequestInv, Places
  <1>2. /\ a \in req[r].todo /\ objects' = objects \cup {a}
        /\ UNCHANGED <<database, used, pc, destroyed, stranded>>
    BY DEF Store
  <1>3. /\ q \in Request
        /\ q.op = req[r].op /\ q.module = req[r].module /\ q.new = req[r].new
        /\ q.todo = req[r].todo \ {a} /\ q.stored = req[r].stored \cup {a}
        /\ q.gone = req[r].gone
    BY <1>1 DEF Request
  <1>4. req' = [req EXCEPT ![r] = q]
    BY <1>1 DEF Store
  <1> HIDE DEF q
  <1>5. /\ a \in DOMAIN q.new /\ a \in used
        /\ \A s \in Requests : s # r => a \notin DOMAIN req[s].new
    BY <1>1, <1>2, <1>3 DEF Fits, AssetInv, NewInv
  <1>6. Fits("storing", q) /\ Becomes(r, "storing", q)
    BY <1>1, <1>2, <1>3, <1>4 DEF Fits, Becomes, Taking
  <1>7. /\ req'[r] = q /\ pc' = pc
        /\ \A s \in Requests : s # r => req'[s] = req[s]
        /\ req' \in [Requests -> Request]
        /\ RequestInv'
    BY <1>2, <1>3, <1>6, BecomesFact DEF AssetInv, Places
  <1>8. TypeOK'
    BY <1>2, <1>5, <1>7 DEF AssetInv, TypeOK, database
  <1>9. NewInv'
    BY <1>2, <1>3, <1>7 DEF AssetInv, NewInv, database
  <1>10. GoneInv'
    <2>1. \A s \in Requests : pc[s] \in Taking => a \notin req[s].gone
      BY <1>1, <1>2, <1>3, <1>5 DEF AssetInv, GoneInv
    <2>2. \A s \in Requests : DOMAIN req'[s].new = DOMAIN req[s].new
      BY <1>3, <1>7
    <2>3. \A s \in Requests : pc[s] \in Taking => req'[s] = req[s]
      BY <1>1, <1>7 DEF Taking
    <2>4. QED
      BY <1>2, <2>1, <2>2, <2>3 DEF AssetInv, GoneInv, Taking
  <1>11. LockInv'
    BY <1>1, <1>2, <1>3, <1>7 DEF Fits, AssetInv, LockInv, Makers, database
  <1>12. RowsHaveObjects'
    BY <1>2 DEF AssetInv, RowsHaveObjects, database
  <1>13. ObjectsAreAccountedFor'
    <2>1. \A s \in Requests : req[s].stored \subseteq req'[s].stored
      BY <1>3, <1>7
    <2>2. a \in req'[r].stored
      BY <1>3, <1>7
    <2>3. QED
      BY <1>2, <2>1, <2>2 DEF AssetInv, ObjectsAreAccountedFor, database
  <1>14. QED
    BY <1>7, <1>8, <1>9, <1>10, <1>11, <1>12, <1>13 DEF AssetInv

LEMMA StoreFailsStep ==
    ASSUME AssetInv, NEW r \in Requests, NEW a \in Assets, StoreFails(r, a)
    PROVE  AssetInv'
  <1>1. /\ req[r] \in Request /\ Fits("storing", req[r]) /\ pc[r] = "storing"
        /\ a \in req[r].todo
        /\ UNCHANGED <<database, used, req, destroyed>>
        /\ Becomes(r, "cleaning", req[r])
    <2>1. req \in [Requests -> Request] /\ pc[r] = "storing"
      BY DEF StoreFails, AssetInv, TypeOK
    <2>2. QED
      BY <2>1 DEF StoreFails, Goes, Becomes, AssetInv, RequestInv
  <1>2. Fits("cleaning", req[r])
    BY <1>1 DEF Fits, Taking
  <1>3. /\ pc'[r] = "cleaning" /\ req' = req
        /\ \A s \in Requests : s # r => pc'[s] = pc[s]
        /\ pc' \in [Requests -> Places]
        /\ RequestInv'
    BY <1>1, <1>2, BecomesFact DEF AssetInv, Places
  <1>4. a \in DOMAIN req[r].new /\ a \in used
    BY <1>1 DEF Fits, AssetInv, NewInv
  <1>5. /\ objects \subseteq objects' /\ objects' \subseteq objects \cup {a}
        /\ stranded \subseteq stranded' /\ stranded' \subseteq stranded \cup {<<a, "unsure">>}
        /\ objects' = objects \/ <<a, "unsure">> \in stranded'
    BY DEF StoreFails
  <1>6. TypeOK'
    <2>1. <<a, "unsure">> \in used \X Reasons
      BY <1>4 DEF Reasons
    <2>2. QED
      BY <1>1, <1>3, <1>4, <1>5, <2>1 DEF AssetInv, TypeOK, database, Places
  <1>7. NewInv'
    BY <1>1, <1>3, <1>5 DEF AssetInv, NewInv, database
  <1>8. GoneInv'
    <2>1. \A s \in Requests : pc[s] \in Taking => a \notin req[s].gone
      BY <1>4 DEF AssetInv, GoneInv
    <2>2. QED
      BY <1>1, <1>3, <1>5, <2>1 DEF AssetInv, GoneInv, Taking
  <1>9. LockInv'
    BY <1>1 DEF AssetInv, LockInv, database
  <1>10. RowsHaveObjects'
    BY <1>1, <1>5 DEF AssetInv, RowsHaveObjects, database
  <1>11. ObjectsAreAccountedFor'
    <2>1. objects' # objects => "unsure" \in Reasons /\ <<a, "unsure">> \in stranded'
      BY <1>5 DEF Reasons
    <2>2. QED
      BY <1>1, <1>5, <2>1 DEF AssetInv, ObjectsAreAccountedFor, database
  <1>12. QED
    BY <1>3, <1>6, <1>7, <1>8, <1>9, <1>10, <1>11 DEF AssetInv

LEMMA TakeBackStep ==
    ASSUME AssetInv, NEW r \in Requests, NEW a \in Assets, TakeBack(r, a)
    PROVE  AssetInv'
  <1> DEFINE q == [req[r] EXCEPT !.stored = @ \ {a}]
  <1>1. /\ req[r] \in Request /\ Fits("cleaning", req[r]) /\ pc[r] = "cleaning"
        /\ req \in [Requests -> Request] /\ pc \in [Requests -> Places]
    BY DEF TakeBack, AssetInv, TypeOK, RequestInv, Places
  <1>2. /\ a \in req[r].stored
        /\ UNCHANGED <<database, used, pc, destroyed>>
        /\ \/ objects' = objects \ {a} /\ stranded' = stranded
           \/ objects' = objects /\ stranded' = stranded \cup {<<a, "kept">>}
    BY DEF TakeBack, Written, ErasesKey
  <1>3. /\ q \in Request
        /\ q.op = req[r].op /\ q.module = req[r].module /\ q.new = req[r].new
        /\ q.stored = req[r].stored \ {a}
        /\ q.gone = req[r].gone
    BY <1>1 DEF Request
  <1>4. req' = [req EXCEPT ![r] = q]
    BY <1>1 DEF TakeBack
  <1> HIDE DEF q
  <1>5. /\ a \in DOMAIN req[r].new /\ a \in used /\ a \notin DOMAIN rows
        /\ \A s \in Requests : s # r => a \notin DOMAIN req[s].new
    BY <1>1, <1>2 DEF Fits, AssetInv, NewInv
  <1>6. Fits("cleaning", q) /\ Becomes(r, "cleaning", q)
    BY <1>1, <1>2, <1>3, <1>4 DEF Fits, Becomes, Taking
  <1>7. /\ req'[r] = q /\ pc' = pc
        /\ \A s \in Requests : s # r => req'[s] = req[s]
        /\ req' \in [Requests -> Request]
        /\ RequestInv'
    BY <1>2, <1>3, <1>6, BecomesFact DEF AssetInv, Places
  <1>8. TypeOK'
    <2>1. <<a, "kept">> \in used \X Reasons
      BY <1>5 DEF Reasons
    <2>2. QED
      BY <1>2, <1>7, <2>1 DEF AssetInv, TypeOK, database
  <1>9. NewInv'
    <2>1. \A s \in Requests : s # r => a \notin req[s].stored
      BY <1>5, StoredIsNew
    <2>2. QED
      BY <1>1, <1>2, <1>3, <1>7, <2>1 DEF AssetInv, NewInv, database
  <1>10. GoneInv'
    <2>1. \A s \in Requests : DOMAIN req'[s].new = DOMAIN req[s].new
      BY <1>3, <1>7
    <2>2. \A s \in Requests : pc[s] \in Taking => req'[s] = req[s]
      BY <1>1, <1>7 DEF Taking
    <2>3. QED
      BY <1>2, <2>1, <2>2 DEF AssetInv, GoneInv, Taking
  <1>11. LockInv'
    BY <1>1, <1>2, <1>3, <1>7 DEF Fits, AssetInv, LockInv, Makers, database
  <1>12. RowsHaveObjects'
    BY <1>2, <1>5 DEF AssetInv, RowsHaveObjects, database
  <1>13. ObjectsAreAccountedFor'
    <2>1. \A s \in Requests : \A b \in req[s].stored : b # a => b \in req'[s].stored
      BY <1>3, <1>7
    <2>2. a \in objects' => "kept" \in Reasons /\ <<a, "kept">> \in stranded'
      BY <1>2 DEF Reasons
    <2>3. objects' \subseteq objects /\ stranded \subseteq stranded' /\ rows' = rows
      BY <1>2 DEF database
    <2>4. QED
      BY <2>1, <2>2, <2>3 DEF AssetInv, ObjectsAreAccountedFor
  <1>14. QED
    BY <1>7, <1>8, <1>9, <1>10, <1>11, <1>12, <1>13 DEF AssetInv

-----------------------------------------------------------------------------
(* Taking rows and objects away.                                           *)

LEMMA RemoveRowStep ==
    ASSUME AssetInv, NEW r \in Requests, NEW a \in Assets, RemoveRow(r, a)
    PROVE  AssetInv'
  <1> DEFINE q == [req[r] EXCEPT !.gone = @ \cup {a}, !.at = a]
  <1>1. /\ req[r] \in Request /\ Fits("removing", req[r]) /\ pc[r] = "removing"
        /\ req \in [Requests -> Request]
    BY DEF RemoveRow, AssetInv, TypeOK, RequestInv
  <1>2. /\ a \in req[r].todo
        /\ UNCHANGED <<database, objects, used, destroyed, stranded>>
    BY DEF RemoveRow
  <1>3. /\ q \in Request
        /\ q.op = req[r].op /\ q.module = req[r].module /\ q.new = req[r].new
        /\ q.stored = req[r].stored /\ q.todo = req[r].todo
        /\ q.gone = req[r].gone \cup {a} /\ q.at = a
    BY <1>1 DEF Request
  <1>4. Becomes(r, "erasing", q)
    BY <1>1 DEF RemoveRow, Goes, Becomes
  <1> HIDE DEF q
  <1>5. Fits("erasing", q)
    BY <1>1, <1>2, <1>3 DEF Fits, Taking
  <1>6. /\ pc'[r] = "erasing" /\ req'[r] = q
        /\ \A s \in Requests : s # r => pc'[s] = pc[s] /\ req'[s] = req[s]
        /\ pc' \in [Requests -> Places]
        /\ req' \in [Requests -> Request]
        /\ RequestInv'
    BY <1>3, <1>4, <1>5, BecomesFact DEF AssetInv, Places
  <1>7. \A s \in Requests : /\ DOMAIN req'[s].new = DOMAIN req[s].new
                           /\ req'[s].stored = req[s].stored
    BY <1>3, <1>6
  <1>8. TypeOK'
    BY <1>2, <1>6 DEF AssetInv, TypeOK, database, Places
  <1>9. NewInv'
    BY <1>1, <1>2, <1>6, <1>7 DEF AssetInv, NewInv, database
  <1>10. GoneInv'
    BY <1>1, <1>2, <1>3, <1>6, <1>7 DEF AssetInv, GoneInv, Taking
  <1>11. LockInv'
    BY <1>1, <1>2, <1>3, <1>6 DEF Fits, AssetInv, LockInv, Makers, Taking, database
  <1>12. RowsHaveObjects'
    BY <1>2 DEF AssetInv, RowsHaveObjects, database
  <1>13. ObjectsAreAccountedFor'
    BY <1>2, <1>7 DEF AssetInv, ObjectsAreAccountedFor, database
  <1>14. QED
    BY <1>6, <1>8, <1>9, <1>10, <1>11, <1>12, <1>13 DEF AssetInv

LEMMA EraseObjectStep ==
    ASSUME AssetInv, NEW r \in Requests, EraseObject(r)
    PROVE  AssetInv'
  <1> DEFINE a == req[r].at
             q == [req[r] EXCEPT !.todo = @ \ {a}]
  <1>1. /\ req[r] \in Request /\ Fits("erasing", req[r]) /\ pc[r] = "erasing"
        /\ req \in [Requests -> Request]
    BY DEF EraseObject, AssetInv, TypeOK, RequestInv
  <1>2. /\ objects' = objects \ {a} /\ destroyed' = destroyed \cup {a}
        /\ UNCHANGED <<database, used, stranded>>
    BY DEF EraseObject
  <1>3. /\ q \in Request
        /\ q.op = req[r].op /\ q.module = req[r].module /\ q.new = req[r].new
        /\ q.stored = req[r].stored /\ q.todo = req[r].todo \ {a}
        /\ q.gone = req[r].gone
    BY <1>1 DEF Request
  <1>4. Becomes(r, "removing", q)
    BY <1>1 DEF EraseObject, Goes, Becomes
  <1>5. /\ a \in req[r].gone /\ a \in used
        /\ \A s \in Requests : a \notin DOMAIN req[s].new
    BY <1>1 DEF Fits, AssetInv, GoneInv, Taking
  <1> HIDE DEF a, q
  <1>6. Fits("removing", q)
    BY <1>1, <1>3 DEF Fits, Taking
  <1>7. /\ pc'[r] = "removing" /\ req'[r] = q
        /\ \A s \in Requests : s # r => pc'[s] = pc[s] /\ req'[s] = req[s]
        /\ pc' \in [Requests -> Places]
        /\ req' \in [Requests -> Request]
        /\ RequestInv'
    BY <1>3, <1>4, <1>6, BecomesFact DEF AssetInv, Places
  <1>8. \A s \in Requests : /\ DOMAIN req'[s].new = DOMAIN req[s].new
                           /\ req'[s].stored = req[s].stored
    BY <1>3, <1>7
  <1>9. TypeOK'
    BY <1>2, <1>5, <1>7 DEF AssetInv, TypeOK, database, Places
  <1>10. NewInv'
    <2>1. \A s \in Requests : a \notin req[s].stored
      BY <1>5, StoredIsNew
    <2>2. QED
      BY <1>1, <1>2, <1>7, <1>8, <2>1 DEF AssetInv, NewInv, database
  <1>11. GoneInv'
    <2>1. \A b \in req[r].gone : b \notin objects'
      BY <1>1, <1>2 DEF AssetInv, GoneInv, a
    <2>2. QED
      BY <1>1, <1>2, <1>3, <1>7, <1>8, <2>1 DEF AssetInv, GoneInv, Taking
  <1>12. LockInv'
    BY <1>1, <1>2, <1>3, <1>5, <1>7 DEF Fits, AssetInv, LockInv, Makers, Taking, database
  <1>13. RowsHaveObjects'
    BY <1>2 DEF AssetInv, RowsHaveObjects, database
  <1>14. ObjectsAreAccountedFor'
    BY <1>2, <1>8 DEF AssetInv, ObjectsAreAccountedFor, database
  <1>15. QED
    BY <1>7, <1>9, <1>10, <1>11, <1>12, <1>13, <1>14 DEF AssetInv

-----------------------------------------------------------------------------
(* Commits.                                                                *)

LEMMA FinishStoringStep ==
    ASSUME AssetInv, NEW r \in Requests, FinishStoring(r)
    PROVE  AssetInv'
  <1> DEFINE new == req[r].new
             m == req[r].module
  <1>1. /\ pc[r] = "storing" /\ Fits("storing", req[r]) /\ req[r].todo = {}
        /\ req[r] \in Request
    BY DEF FinishStoring, AssetInv, TypeOK, RequestInv
  <1>2. /\ DOMAIN new = req[r].stored /\ DOMAIN new \subseteq objects
        /\ DOMAIN new \subseteq used
        /\ req[r].op \in Makers \cup {"upload"}
    BY <1>1 DEF Fits, AssetInv, NewInv
  <1>3. Becomes(r, "idle", NoRequest) /\ Fits("idle", NoRequest)
        /\ UNCHANGED <<objects, used, destroyed, stranded>>
    BY EndsBecomes DEF FinishStoring
  <1>4. /\ DOMAIN rows' = DOMAIN rows \cup DOMAIN new
        /\ \A a \in DOMAIN rows' : rows'[a] = IF a \in DOMAIN new THEN m ELSE rows[a]
        /\ rows' = [a \in DOMAIN rows' |-> rows'[a]]
    BY DEF FinishStoring
  <1>5. status' = IF req[r].op \in Makers THEN [status EXCEPT ![m] = "open"] ELSE status
    BY DEF FinishStoring
  <1>6. /\ pc'[r] = "idle" /\ req'[r] = NoRequest
        /\ \A s \in Requests : s # r => pc'[s] = pc[s] /\ req'[s] = req[s]
        /\ pc' \in [Requests -> Places]
        /\ req' \in [Requests -> Request]
        /\ RequestInv'
    BY <1>3, BecomesFact, NoRequestTyped DEF AssetInv, Places
  <1>7. /\ DOMAIN NoRequest.new = {} /\ NoRequest.stored = {}
        /\ NoRequest.op = "none" /\ NoRequest.gone = {} /\ NoRequest.todo = {}
    BY DEF NoRequest, NoAssets
  <1>8. "none" \notin {"retire"} \cup Makers
    BY DEF Makers
  <1>9. m \in Modules
    BY <1>2 DEF AssetInv, LockInv
  <1>10. DOMAIN new \cap DOMAIN rows = {}
         /\ \A s \in Requests : s # r => DOMAIN new \cap DOMAIN req[s].new = {}
    BY DEF AssetInv, NewInv
  <1> HIDE DEF new, m
  <1>11. TypeOK'
    <2>1. rows' \in MapsOf(used, Modules)
      BY <1>2, <1>4, <1>9, RowsAreUsed, MapsOfFact DEF AssetInv
    <2>2. status' \in [Modules -> {"absent", "open", "deleted"}]
      BY <1>5, <1>9 DEF AssetInv, TypeOK
    <2>3. QED
      BY <1>3, <1>6, <2>1, <2>2 DEF AssetInv, TypeOK, Places
  <1>12. NewInv'
    <2>1. \A s \in Requests : \A a \in DOMAIN req'[s].new : a \in used' /\ a \notin DOMAIN rows'
      BY <1>3, <1>4, <1>6, <1>7, <1>10 DEF AssetInv, NewInv
    <2>2. \A s, t \in Requests : \A a \in DOMAIN req'[s].new :
            a \in DOMAIN req'[t].new => s = t
      BY <1>6, <1>7 DEF AssetInv, NewInv
    <2>3. \A s \in Requests : pc'[s] = "storing" => req'[s].stored \subseteq objects'
      BY <1>3, <1>6 DEF AssetInv, NewInv
    <2>4. QED
      BY <2>1, <2>2, <2>3 DEF NewInv
  <1>13. GoneInv'
    BY <1>3, <1>6, <1>7 DEF AssetInv, GoneInv, Taking
  <1>14. LockInv'
    <2>1. \A s \in Requests : s # r /\ req[s].op = "retire" /\ req[s].module = m => DOMAIN new = {}
      BY <1>2 DEF AssetInv, LockInv, Makers, m, new
    <2>2. \A s \in Requests : s # r /\ req[s].op \in Makers /\ req[r].op \in Makers
                            => req[s].module # m
      BY DEF AssetInv, LockInv, m
    <2>3. \A s \in Requests : s # r /\ req[s].op = "retire" => status'[req[s].module] = "open"
      BY <1>5, <1>9 DEF AssetInv, LockInv, TypeOK
    <2>4. \A s \in Requests : s # r /\ req[s].op \in Makers => status'[req[s].module] = "absent"
      BY <1>5, <1>9, <2>2 DEF AssetInv, LockInv, TypeOK
    <2>5. \A s \in Requests : s # r /\ req[s].op = "retire" =>
            \A a \in DOMAIN rows' :
              rows'[a] = req[s].module => a \in req[s].todo \cup req[s].gone
      BY <1>4, <2>1 DEF AssetInv, LockInv
    <2>6. QED
      BY <1>6, <1>7, <1>8, <2>3, <2>4, <2>5 DEF AssetInv, LockInv
  <1>15. RowsHaveObjects'
    BY <1>2, <1>3, <1>4 DEF AssetInv, RowsHaveObjects
  <1>16. ObjectsAreAccountedFor'
    <2> SUFFICES ASSUME NEW a \in objects, a \notin DOMAIN rows'
                 PROVE  \/ \E s \in Requests : a \in req'[s].stored
                        \/ \E why \in Reasons : <<a, why>> \in stranded
      BY <1>3 DEF ObjectsAreAccountedFor
    <2>1. a \notin req[r].stored /\ a \notin DOMAIN rows
      BY <1>2, <1>4
    <2>2. CASE \E s \in Requests : s # r /\ a \in req[s].stored
      BY <2>2, <1>6
    <2>3. CASE \E why \in Reasons : <<a, why>> \in stranded
      BY <2>3
    <2>4. QED
      BY <2>1, <2>2, <2>3 DEF AssetInv, ObjectsAreAccountedFor
  <1>17. QED
    BY <1>6, <1>11, <1>12, <1>13, <1>14, <1>15, <1>16 DEF AssetInv

LEMMA FinishDeletingStep ==
    ASSUME AssetInv, NEW r \in Requests, FinishDeleting(r)
    PROVE  AssetInv'
  <1> DEFINE gone == req[r].gone
             m == req[r].module
  <1>1. /\ pc[r] = "removing" /\ Fits("removing", req[r]) /\ req[r].todo = {}
        /\ req[r].stored = {}
    BY StoredIsNew DEF FinishDeleting, AssetInv, RequestInv
  <1>2. Becomes(r, "idle", NoRequest) /\ Fits("idle", NoRequest)
        /\ UNCHANGED <<objects, used, destroyed, stranded>>
    BY EndsBecomes DEF FinishDeleting
  <1>3. /\ DOMAIN rows' = DOMAIN rows \ gone
        /\ \A a \in DOMAIN rows' : rows'[a] = rows[a]
        /\ rows' = [a \in DOMAIN rows' |-> rows'[a]]
    BY DEF FinishDeleting
  <1>4. /\ status' = IF req[r].op = "retire" THEN [status EXCEPT ![m] = "deleted"] ELSE status
        /\ req[r].op = "retire" => m \in Modules /\ status[m] = "open"
    BY DEF FinishDeleting, AssetInv, LockInv
  <1>5. /\ pc'[r] = "idle" /\ req'[r] = NoRequest
        /\ \A s \in Requests : s # r => pc'[s] = pc[s] /\ req'[s] = req[s]
        /\ pc' \in [Requests -> Places]
        /\ req' \in [Requests -> Request]
        /\ RequestInv'
    BY <1>2, BecomesFact, NoRequestTyped DEF AssetInv, Places
  <1>6. /\ DOMAIN NoRequest.new = {} /\ NoRequest.stored = {}
        /\ NoRequest.op = "none" /\ NoRequest.gone = {} /\ NoRequest.todo = {}
        /\ "none" \notin {"retire"} \cup Makers
    BY DEF NoRequest, NoAssets, Makers
  <1>7. gone \cap objects = {}
    BY <1>1 DEF AssetInv, GoneInv
  <1>8. \A s \in Requests : s # r /\ req[s].op = "retire" /\ req[r].op = "retire"
                          => req[s].module # m
    BY DEF AssetInv, LockInv, m
  <1> HIDE DEF gone, m
  <1>9. TypeOK'
    <2>1. rows' \in MapsOf(used, Modules)
      BY <1>3, RowsAreUsed, MapsOfFact DEF AssetInv
    <2>2. status' \in [Modules -> {"absent", "open", "deleted"}]
      BY <1>4 DEF AssetInv, TypeOK
    <2>3. QED
      BY <1>2, <1>5, <2>1, <2>2 DEF AssetInv, TypeOK, Places
  <1>10. NewInv'
    BY <1>2, <1>3, <1>5, <1>6 DEF AssetInv, NewInv
  <1>11. GoneInv'
    BY <1>2, <1>5, <1>6 DEF AssetInv, GoneInv, Taking
  <1>12. LockInv'
    <2>1. \A s \in Requests : s # r /\ req[s].op = "retire" => status'[req[s].module] = "open"
      BY <1>4, <1>8 DEF AssetInv, LockInv, TypeOK
    <2>2. \A s \in Requests : s # r /\ req[s].op \in Makers => status'[req[s].module] = "absent"
      BY <1>4 DEF AssetInv, LockInv, TypeOK
    <2>3. \A s \in Requests : s # r /\ req[s].op = "retire" =>
            \A a \in DOMAIN rows' :
              rows'[a] = req[s].module => a \in req[s].todo \cup req[s].gone
      BY <1>3 DEF AssetInv, LockInv
    <2>4. QED
      BY <1>5, <1>6, <2>1, <2>2, <2>3 DEF AssetInv, LockInv
  <1>13. RowsHaveObjects'
    BY <1>2, <1>3 DEF AssetInv, RowsHaveObjects
  <1>14. ObjectsAreAccountedFor'
    <2> SUFFICES ASSUME NEW a \in objects, a \notin DOMAIN rows'
                 PROVE  \/ \E s \in Requests : a \in req'[s].stored
                        \/ \E why \in Reasons : <<a, why>> \in stranded
      BY <1>2 DEF ObjectsAreAccountedFor
    <2>1. a \notin req[r].stored /\ a \notin DOMAIN rows
      BY <1>1, <1>3, <1>7
    <2>2. CASE \E s \in Requests : s # r /\ a \in req[s].stored
      BY <2>2, <1>5
    <2>3. CASE \E why \in Reasons : <<a, why>> \in stranded
      BY <2>3
    <2>4. QED
      BY <2>1, <2>2, <2>3 DEF AssetInv, ObjectsAreAccountedFor
  <1>15. QED
    BY <1>5, <1>9, <1>10, <1>11, <1>12, <1>13, <1>14 DEF AssetInv

-----------------------------------------------------------------------------
(* The invariant.                                                          *)

LEMMA AssetInit == Init => AssetInv
  <1> SUFFICES ASSUME Init PROVE AssetInv
    OBVIOUS
  <1>1. /\ DOMAIN NoAssets = {} /\ NoAssets \in MapsOf(used, Modules)
        /\ DOMAIN rows = {}
    BY MapsOfFact DEF NoAssets, Init
  <1>2. \A r \in Requests : req[r] = NoRequest /\ pc[r] = "idle"
    BY DEF Init
  <1>3. /\ DOMAIN NoRequest.new = {} /\ NoRequest.stored = {} /\ NoRequest.op = "none"
        /\ "none" \notin {"retire", "upload"} \cup Makers
    BY <1>1 DEF NoRequest, Makers
  <1>4. TypeOK
    <2>1. req \in [Requests -> Request]
      BY NoRequestTyped DEF Init
    <2>2. status \in [Modules -> {"absent", "open", "deleted"}]
      BY DEF Init
    <2>3. QED
      BY <1>1, <2>1, <2>2 DEF Init, TypeOK
  <1>5. RequestInv
    <2>1. Fits("idle", NoRequest)
      BY DEF Fits, NoRequest, NoAssets, Taking
    <2>2. QED
      BY <1>2, <2>1 DEF RequestInv
  <1>6. NewInv /\ GoneInv /\ LockInv
    BY <1>2, <1>3 DEF NewInv, GoneInv, LockInv, Taking
  <1>7. RowsHaveObjects /\ ObjectsAreAccountedFor
    BY <1>1 DEF Init, RowsHaveObjects, ObjectsAreAccountedFor
  <1>8. QED
    BY <1>4, <1>5, <1>6, <1>7 DEF AssetInv

LEMMA AssetStutters ==
    ASSUME AssetInv, UNCHANGED vars
    PROVE  AssetInv'
  BY DEF vars, database, AssetInv, TypeOK, RequestInv, NewInv, GoneInv, LockInv,
         RowsHaveObjects, ObjectsAreAccountedFor

LEMMA AssetStep ==
    ASSUME AssetInv, [Next]_vars
    PROVE  AssetInv'
  <1>1. CASE UNCHANGED vars
    BY <1>1, AssetStutters
  <1>2. CASE Next
    <2>1. PICK r \in Requests :
            \/ \E m \in Modules : BeginUpload(r, m) \/ BeginDeleteModule(r, m)
            \/ \E m \in Modules, c \in Copies : BeginDuplicate(r, m, c)
            \/ \E c \in Copies, op \in {"import", "document"} : BeginImport(r, c, op)
            \/ CheckQuota(r)
            \/ InsertAsset(r) \/ ListAssets(r) \/ InsertImported(r)
            \/ \E a \in Assets : \/ Store(r, a) \/ StoreFails(r, a) \/ TakeBack(r, a)
                                 \/ BeginDeleteAsset(r, a) \/ RemoveRow(r, a)
            \/ GiveUp(r)
            \/ RejectPages(r) \/ Die(r)
            \/ FinishStoring(r)
            \/ EraseObject(r) \/ EraseFails(r)
            \/ FinishDeleting(r)
      BY <1>2 DEF Next
    <2>2. CASE \E m \in Modules : BeginUpload(r, m) \/ BeginDeleteModule(r, m)
      BY <2>2, BeginUploadStep, BeginDeleteModuleStep
    <2>3. CASE \E m \in Modules, c \in Copies : BeginDuplicate(r, m, c)
      BY <2>3, BeginDuplicateStep
    <2>4. CASE \E c \in Copies, op \in {"import", "document"} : BeginImport(r, c, op)
      BY <2>4, BeginImportStep
    <2>5. CASE CheckQuota(r)
      BY <2>5, CheckQuotaStep
    <2>6. CASE InsertAsset(r) \/ ListAssets(r) \/ InsertImported(r)
      BY <2>6, FreshRowsStep
    <2>7. CASE \E a \in Assets : \/ Store(r, a) \/ StoreFails(r, a) \/ TakeBack(r, a)
                                 \/ BeginDeleteAsset(r, a) \/ RemoveRow(r, a)
      BY <2>7, StoreStep, StoreFailsStep, TakeBackStep, BeginDeleteAssetStep, RemoveRowStep
    <2>8. CASE GiveUp(r)
      BY <2>8, GiveUpStep
    <2>9. CASE RejectPages(r) \/ Die(r)
      BY <2>9, StrandsStep
    <2>10. CASE FinishStoring(r)
      BY <2>10, FinishStoringStep
    <2>11. CASE EraseObject(r) \/ EraseFails(r)
      BY <2>11, EraseObjectStep, EraseFailsStep
    <2>12. CASE FinishDeleting(r)
      BY <2>12, FinishDeletingStep
    <2>13. QED
      BY <2>1, <2>2, <2>3, <2>4, <2>5, <2>6, <2>7, <2>8, <2>9, <2>10, <2>11, <2>12
  <1>3. QED
    BY <1>1, <1>2

\* The inductive invariant, of which the theorems below are consequences: rows
\* and requests fit together whatever requests of assets.py, content.py and
\* the two imports are under way.
THEOREM AssetInvariant == Spec => []AssetInv
  BY AssetInit, AssetStep, PTL DEF Spec

\* Rows, objects and requests have the shape the handlers rely on.
THEOREM AssetTypeCorrect == Spec => []TypeOK
  <1>1. AssetInv => TypeOK
    BY DEF AssetInv
  <1>2. QED
    BY <1>1, AssetInvariant, PTL

\* Whatever copies, imports and uploads fail and clean up after themselves, a
\* committed row keeps its object until a delete of that very file is asked for.
THEOREM RowsKeepObjects == Spec => []RowsHaveObjects
  <1>1. AssetInv => RowsHaveObjects
    BY DEF AssetInv
  <1>2. QED
    BY <1>1, AssetInvariant, PTL

\* An object without a row belongs to a request under way, or was given up in
\* one of the ways the code knows of.
THEOREM NoObjectUnaccounted == Spec => []ObjectsAreAccountedFor
  <1>1. AssetInv => ObjectsAreAccountedFor
    BY DEF AssetInv
  <1>2. QED
    BY <1>1, AssetInvariant, PTL

LEMMA OnlyCommitsChangeStatus ==
    ASSUME Next, status' # status
    PROVE  \E r \in Requests : FinishStoring(r) \/ FinishDeleting(r)
  <1>1. PICK r \in Requests :
          \/ \E m \in Modules : BeginUpload(r, m) \/ BeginDeleteModule(r, m)
          \/ \E m \in Modules, c \in Copies : BeginDuplicate(r, m, c)
          \/ \E c \in Copies, op \in {"import", "document"} : BeginImport(r, c, op)
          \/ CheckQuota(r) \/ InsertAsset(r) \/ ListAssets(r) \/ InsertImported(r)
          \/ \E a \in Assets : \/ Store(r, a) \/ StoreFails(r, a) \/ TakeBack(r, a)
                               \/ BeginDeleteAsset(r, a) \/ RemoveRow(r, a)
          \/ GiveUp(r) \/ RejectPages(r) \/ Die(r)
          \/ EraseObject(r) \/ EraseFails(r)
          \/ FinishStoring(r)
          \/ FinishDeleting(r)
    BY DEF Next
  <1>2. \A m \in Modules : ~BeginUpload(r, m) /\ ~BeginDeleteModule(r, m)
    BY DEF BeginUpload, BeginDeleteModule, database
  <1>3. \A m \in Modules, c \in Copies : ~BeginDuplicate(r, m, c)
    BY DEF BeginDuplicate, database
  <1>4. \A c \in Copies, op \in {"import", "document"} : ~BeginImport(r, c, op)
    BY DEF BeginImport, database
  <1>5. ~CheckQuota(r) /\ ~InsertAsset(r) /\ ~ListAssets(r) /\ ~InsertImported(r)
    BY DEF CheckQuota, InsertAsset, ListAssets, InsertImported, database
  <1>6. \A a \in Assets : /\ ~Store(r, a) /\ ~StoreFails(r, a) /\ ~TakeBack(r, a)
                          /\ ~BeginDeleteAsset(r, a) /\ ~RemoveRow(r, a)
    BY DEF Store, StoreFails, TakeBack, BeginDeleteAsset, RemoveRow, database
  <1>7. ~GiveUp(r) /\ ~RejectPages(r) /\ ~Die(r) /\ ~EraseObject(r) /\ ~EraseFails(r)
    BY DEF GiveUp, RejectPages, Die, EraseObject, EraseFails, database
  <1>8. QED
    BY <1>1, <1>2, <1>3, <1>4, <1>5, <1>6, <1>7

\* delete_module leaves no file of the module behind at its commit, and no
\* upload with its row inserted is waiting to commit after it.
THEOREM DeleteEmpties == Spec => DeleteEmptiesModule
  <1> DEFINE Emptied == \A m \in Modules :
               status[m] # "deleted" /\ status'[m] = "deleted" =>
                 /\ \A a \in DOMAIN rows' : rows'[a] # m
                 /\ ~Shared(m)
  <1>1. AssetInv /\ [Next]_vars => Emptied
    <2> SUFFICES ASSUME AssetInv, [Next]_vars, NEW m \in Modules,
                        status[m] # "deleted", status'[m] = "deleted"
                 PROVE  /\ \A a \in DOMAIN rows' : rows'[a] # m
                        /\ ~Shared(m)
      OBVIOUS
    <2>1. PICK r \in Requests : FinishStoring(r) \/ FinishDeleting(r)
      BY OnlyCommitsChangeStatus DEF vars, database
    <2>2. ~FinishStoring(r)
      BY DEF FinishStoring, AssetInv, TypeOK
    <2>3. /\ pc[r] = "removing" /\ req[r].todo = {}
          /\ req[r].op = "retire" /\ req[r].module = m
          /\ DOMAIN rows' = DOMAIN rows \ req[r].gone
          /\ \A a \in DOMAIN rows' : rows'[a] = rows[a]
      BY <2>1, <2>2 DEF FinishDeleting, AssetInv, TypeOK
    <2>4. \A a \in DOMAIN rows' : rows'[a] # m
      BY <2>3 DEF AssetInv, LockInv
    <2>5. ~Shared(m)
      BY <2>3 DEF AssetInv, LockInv, Shared
    <2>6. QED
      BY <2>4, <2>5
  <1>2. QED
    BY <1>1, AssetInvariant, PTL DEF Spec, DeleteEmptiesModule
-----------------------------------------------------------------------------
(* The quota.  What a module holds and the uploads past their check are    *)
(* counted together: a check that passes adds one of at most all requests  *)
(* to less than a quota of files, and a commit turns an upload into a file.*)

Bound == Quota + Cardinality(Requests) - 1

\* The uploads that have been let through.
Pending(m) ==
    {r \in Requests : /\ req[r].op = "upload" /\ req[r].module = m
                      /\ pc[r] \in {"checked", "storing"}}

\* A module that is not committed has neither files nor uploads; one that is
\* holds no more than the bound, its pending uploads included, and so does
\* what a copy or an import is about to commit.
QuotaInv ==
    /\ \A m \in Modules : status[m] = "absent" => AssetsOf(m) = {}
    /\ \A r \in Requests : req[r].op = "upload" => status[req[r].module] # "absent"
    /\ \A m \in Modules : Cardinality(AssetsOf(m)) + Cardinality(Pending(m)) <= Bound
    /\ \A r \in Requests : pc[r] = "storing" /\ req[r].op = "upload" =>
         \E a : DOMAIN req[r].new = {a}
    /\ \A r \in Requests : pc[r] = "storing" /\ req[r].op \in Makers =>
         Cardinality(DOMAIN req[r].new) <= Bound

LEMMA Finiteness ==
    ASSUME TypeOK
    PROVE  /\ Quota \in Nat /\ Cardinality(Requests) \in Nat
           /\ \A m : IsFiniteSet(AssetsOf(m)) /\ Cardinality(AssetsOf(m)) \in Nat
           /\ \A m : IsFiniteSet(Pending(m)) /\ Cardinality(Pending(m)) \in Nat
           /\ \A m : Cardinality(Pending(m)) <= Cardinality(Requests)
  <1>1. IsFiniteSet(Requests) /\ IsFiniteSet(Assets) /\ Quota \in Nat
    BY RequestsAssumption, QuotaAssumption
  <1>2. \A m : AssetsOf(m) \in SUBSET Assets
    BY RowsAreUsed DEF AssetsOf
  <1>3. \A m : Pending(m) \in SUBSET Requests
    BY DEF Pending
  <1>4. \A m : IsFiniteSet(AssetsOf(m)) /\ Cardinality(AssetsOf(m)) \in Nat
    BY <1>1, <1>2, FS_Subset, FS_CardinalityType
  <1>5. \A m : /\ IsFiniteSet(Pending(m)) /\ Cardinality(Pending(m)) \in Nat
               /\ Cardinality(Pending(m)) <= Cardinality(Requests)
    BY <1>1, <1>3, FS_Subset, FS_CardinalityType
  <1>6. QED
    BY <1>1, <1>4, <1>5, FS_CardinalityType

\* A request changes without adding to what a module is to hold.
Settles(s) ==
    \/ req'[s].op \notin {"upload"} \cup Makers
    \/ /\ pc'[s] \notin {"checked", "storing"}
       /\ req'[s].op = "upload" => status'[req'[s].module] # "absent"
    \/ /\ pc'[s] = pc[s]
       /\ req'[s].op = req[s].op /\ req'[s].module = req[s].module
       /\ req'[s].new = req[s].new
    \/ /\ pc[s] = "checked" /\ pc'[s] = "storing"
       /\ req'[s].op = req[s].op /\ req[s].op = "upload"
       /\ req'[s].module = req[s].module
       /\ \E a : DOMAIN req'[s].new = {a}
    \/ /\ pc'[s] = "storing" /\ req'[s].op \in Makers
       /\ Cardinality(DOMAIN req'[s].new) <= Bound

LEMMA SettlesKeepsQuota ==
    ASSUME AssetInv, AssetInv', QuotaInv,
           \A m \in Modules : status'[m] = "absent" <=> status[m] = "absent",
           \A m \in Modules : AssetsOf(m)' \subseteq AssetsOf(m),
           \A s \in Requests : Settles(s)
    PROVE  QuotaInv'
  <1>1. "upload" \notin Makers
    BY DEF Makers
  <1>2. \A m \in Modules : Pending(m)' \subseteq Pending(m)
    BY <1>1 DEF Pending, Settles
  <1>3. \A m \in Modules : status'[m] = "absent" => AssetsOf(m)' = {}
    BY DEF QuotaInv
  <1>4. ASSUME NEW s \in Requests, req'[s].op = "upload"
        PROVE  status'[req'[s].module] # "absent"
    <2>1. CASE /\ req'[s].op = req[s].op /\ req'[s].module = req[s].module
      <3>1. req[s].module \in Modules /\ status[req[s].module] # "absent"
        BY <1>4, <2>1 DEF AssetInv, LockInv, QuotaInv
      <3>2. QED
        BY <2>1, <3>1
    <2>2. QED
      BY <1>1, <1>4, <2>1 DEF Settles
  <1>5. ASSUME NEW m \in Modules
        PROVE  Cardinality(AssetsOf(m)') + Cardinality(Pending(m)') <= Bound
    <2>1. /\ IsFiniteSet(AssetsOf(m)) /\ Cardinality(AssetsOf(m)) \in Nat
          /\ IsFiniteSet(Pending(m)) /\ Cardinality(Pending(m)) \in Nat
          /\ Cardinality(AssetsOf(m)) + Cardinality(Pending(m)) <= Bound
          /\ Bound \in Int
      BY Finiteness DEF AssetInv, QuotaInv, Bound
    <2>2. /\ Cardinality(AssetsOf(m)') <= Cardinality(AssetsOf(m))
          /\ Cardinality(AssetsOf(m)') \in Nat
      BY <2>1, FS_Subset, FS_CardinalityType
    <2>3. /\ Cardinality(Pending(m)') <= Cardinality(Pending(m))
          /\ Cardinality(Pending(m)') \in Nat
      BY <1>2, <2>1, FS_Subset, FS_CardinalityType
    <2>4. QED
      BY <2>1, <2>2, <2>3
  <1>6. \A s \in Requests : pc'[s] = "storing" /\ req'[s].op = "upload" =>
          \E a : DOMAIN req'[s].new = {a}
    BY <1>1 DEF Settles, QuotaInv
  <1>7. \A s \in Requests : pc'[s] = "storing" /\ req'[s].op \in Makers =>
          Cardinality(DOMAIN req'[s].new) <= Bound
    BY <1>1 DEF Settles, QuotaInv
  <1>8. QED
    BY <1>3, <1>4, <1>5, <1>6, <1>7 DEF QuotaInv, Bound

\* The steps that only move one request along.
LEMMA OneSettles ==
    ASSUME AssetInv, AssetInv', QuotaInv, NEW r \in Requests, Settles(r),
           UNCHANGED database,
           \A s \in Requests : s # r => pc'[s] = pc[s] /\ req'[s] = req[s]
    PROVE  QuotaInv'
  <1>1. \A s \in Requests : Settles(s)
    BY DEF Settles
  <1>2. \A m \in Modules : AssetsOf(m)' = AssetsOf(m)
    BY DEF AssetsOf, database
  <1>3. QED
    BY <1>1, <1>2, SettlesKeepsQuota DEF database

LEMMA EndedSettles ==
    ASSUME AssetInv, NEW r \in Requests, Ends(r)
    PROVE  /\ Settles(r)
           /\ pc'[r] = "idle" /\ req'[r] = NoRequest
           /\ \A s \in Requests : s # r => pc'[s] = pc[s] /\ req'[s] = req[s]
  <1>1. pc \in [Requests -> Places] /\ req \in [Requests -> Request]
    BY DEF AssetInv, TypeOK, Places
  <1>2. NoRequest.op \notin {"upload"} \cup Makers
    BY DEF NoRequest, Makers
  <1>3. QED
    BY <1>1, <1>2 DEF Ends, Goes, Settles

LEMMA BeginsKeepQuota ==
    ASSUME AssetInv, AssetInv', QuotaInv, NEW r \in Requests,
           \/ \E m \in Modules : BeginUpload(r, m) \/ BeginDeleteModule(r, m)
           \/ \E m \in Modules, c \in Copies : BeginDuplicate(r, m, c)
           \/ \E c \in Copies, op \in {"import", "document"} : BeginImport(r, c, op)
           \/ \E a \in Assets : BeginDeleteAsset(r, a)
    PROVE  QuotaInv'
  <1>1. pc \in [Requests -> Places] /\ req \in [Requests -> Request]
    BY DEF AssetInv, TypeOK, Places
  <1>2. UNCHANGED database
    BY DEF BeginUpload, BeginDeleteModule, BeginDuplicate, BeginImport, BeginDeleteAsset
  <1>3. /\ pc'[r] \in {"reading", "received", "removing"}
        /\ req'[r].op = "upload" => status[req'[r].module] # "absent"
        /\ \A s \in Requests : s # r => pc'[s] = pc[s] /\ req'[s] = req[s]
    <2>1. CASE \E m \in Modules : BeginUpload(r, m)
      BY <1>1, <2>1 DEF BeginUpload, Starts, Goes, NoRequest
    <2>2. CASE \E m \in Modules : BeginDeleteModule(r, m)
      BY <1>1, <2>2 DEF BeginDeleteModule, Starts, Goes, NoRequest
    <2>3. CASE \E m \in Modules, c \in Copies : BeginDuplicate(r, m, c)
      BY <1>1, <2>3 DEF BeginDuplicate, Starts, Goes, NoRequest
    <2>4. CASE \E c \in Copies, op \in {"import", "document"} : BeginImport(r, c, op)
      BY <1>1, <2>4 DEF BeginImport, Starts, Goes, NoRequest
    <2>5. CASE \E a \in Assets : BeginDeleteAsset(r, a)
      BY <1>1, <2>5 DEF BeginDeleteAsset, Starts, Goes, NoRequest
    <2>6. QED
      BY <2>1, <2>2, <2>3, <2>4, <2>5
  <1>4. Settles(r)
    BY <1>2, <1>3 DEF Settles, database
  <1>5. QED
    BY <1>2, <1>3, <1>4, OneSettles

LEMMA EndsKeepQuota ==
    ASSUME AssetInv, AssetInv', QuotaInv, NEW r \in Requests,
           GiveUp(r) \/ RejectPages(r) \/ Die(r) \/ EraseFails(r)
    PROVE  QuotaInv'
  BY EndedSettles, OneSettles DEF GiveUp, RejectPages, Die, EraseFails

LEMMA CallsKeepQuota ==
    ASSUME AssetInv, AssetInv', QuotaInv, NEW r \in Requests, NEW a \in Assets,
           \/ Store(r, a) \/ StoreFails(r, a) \/ TakeBack(r, a)
           \/ RemoveRow(r, a) \/ EraseObject(r)
    PROVE  QuotaInv'
  <1>1. /\ pc \in [Requests -> Places] /\ req \in [Requests -> Request]
        /\ req[r] \in Request /\ Fits(pc[r], req[r])
    BY DEF AssetInv, TypeOK, RequestInv, Places
  <1>2. UNCHANGED database
    BY DEF Store, StoreFails, TakeBack, RemoveRow, EraseObject
  <1>3. /\ \A s \in Requests : s # r => pc'[s] = pc[s] /\ req'[s] = req[s]
        /\ req'[r].op = req[r].op /\ req'[r].module = req[r].module
        /\ req'[r].new = req[r].new
        /\ pc'[r] = pc[r] \/ pc'[r] = "cleaning" \/ req[r].op \in {"remove", "retire"}
    <2>1. CASE Store(r, a)
      BY <1>1, <2>1 DEF Store, Request
    <2>2. CASE StoreFails(r, a)
      BY <1>1, <2>2 DEF StoreFails, Goes
    <2>3. CASE TakeBack(r, a)
      BY <1>1, <2>3 DEF TakeBack, Request
    <2>4. CASE RemoveRow(r, a)
      BY <1>1, <2>4 DEF RemoveRow, Goes, Request, Fits, Taking
    <2>5. CASE EraseObject(r)
      BY <1>1, <2>5 DEF EraseObject, Goes, Request, Fits, Taking
    <2>6. QED
      BY <2>1, <2>2, <2>3, <2>4, <2>5
  <1>4. Settles(r)
    BY <1>2, <1>3 DEF Settles, QuotaInv, Makers, database
  <1>5. QED
    BY <1>2, <1>3, <1>4, OneSettles

\* New rows: one of an upload, as many as the source has of a duplicate, a
\* quota of them at most of an import.
LEMMA InsertsKeepQuota ==
    ASSUME AssetInv, AssetInv', QuotaInv, NEW r \in Requests,
           InsertAsset(r) \/ ListAssets(r) \/ InsertImported(r)
    PROVE  QuotaInv'
  <1>1. /\ pc \in [Requests -> Places] /\ req \in [Requests -> Request]
        /\ req[r] \in Request /\ Fits(pc[r], req[r])
    BY DEF AssetInv, TypeOK, RequestInv, Places
  <1>2. UNCHANGED database
    BY DEF InsertAsset, ListAssets, InsertImported
  <1>3. ASSUME NEW new, InsertsRows(r, new)
        PROVE  /\ pc'[r] = "storing" /\ req'[r].new = new
               /\ req'[r].op = req[r].op /\ req'[r].module = req[r].module
               /\ \A s \in Requests : s # r => pc'[s] = pc[s] /\ req'[s] = req[s]
    BY <1>1, <1>3 DEF InsertsRows, Goes, Request
  <1>4. Settles(r) /\ \A s \in Requests : s # r => pc'[s] = pc[s] /\ req'[s] = req[s]
    <2>1. CASE InsertAsset(r)
      <3>1. pc[r] = "checked" /\ req[r].op = "upload"
        BY <1>1, <2>1 DEF InsertAsset, Fits
      <3>2. PICK a \in Assets : InsertsRows(r, [b \in {a} |-> None])
        BY <2>1 DEF InsertAsset
      <3>3. DOMAIN [b \in {a} |-> None] = {a}
        OBVIOUS
      <3>4. QED
        BY <1>3, <3>1, <3>2, <3>3 DEF Settles
    <2>2. CASE ListAssets(r)
      <3>1. PICK ids \in SUBSET Assets :
              \E new \in Bijection(ids, AssetsOf(req[r].from)) : InsertsRows(r, new)
        BY <2>2 DEF ListAssets
      <3>2. PICK new \in Bijection(ids, AssetsOf(req[r].from)) : InsertsRows(r, new)
        BY <3>1
      <3>3. new \in Injection(ids, AssetsOf(req[r].from)) /\ DOMAIN new = ids
        BY <3>2 DEF Bijection, Injection
      <3>4. IsFiniteSet(AssetsOf(req[r].from))
        BY Finiteness DEF AssetInv
      <3>5. Cardinality(DOMAIN new) <= Cardinality(AssetsOf(req[r].from))
        BY <3>3, <3>4, FS_Injection
      <3>6. Cardinality(AssetsOf(req[r].from)) <= Bound
        <4>1. CASE req[r].from \in Modules
          BY <4>1, Finiteness DEF AssetInv, QuotaInv, Bound
        <4>2. CASE req[r].from \notin Modules
          <5>1. AssetsOf(req[r].from) = {}
            BY <4>2, RowsAreUsed DEF AssetInv, AssetsOf
          <5>2. Cardinality(Requests) # 0
            BY RequestsAssumption, FS_EmptySet
          <5>3. QED
            BY <5>1, <5>2, FS_EmptySet, Finiteness DEF AssetInv, Bound
        <4>3. QED
          BY <4>1, <4>2
      <3>7. Cardinality(DOMAIN new) <= Bound
        <4>1. Cardinality(DOMAIN new) \in Nat
          BY <3>3, <3>4, FS_Injection, FS_CardinalityType
        <4>2. Cardinality(AssetsOf(req[r].from)) \in Nat /\ Bound \in Int
          BY Finiteness DEF AssetInv, Bound
        <4>3. QED
          BY <3>5, <3>6, <4>1, <4>2
      <3>8. req[r].op \in Makers
        BY <2>2 DEF ListAssets, Makers
      <3>9. QED
        BY <1>3, <3>2, <3>7, <3>8 DEF Settles
    <2>3. CASE InsertImported(r)
      <3>1. PICK ids \in SUBSET Assets :
              /\ Cardinality(ids) <= Quota
              /\ InsertsRows(r, [a \in ids |-> None])
        BY <2>3 DEF InsertImported
      <3>2. Cardinality(Requests) # 0 /\ Cardinality(Requests) \in Nat /\ Quota \in Nat
        BY RequestsAssumption, FS_EmptySet, Finiteness DEF AssetInv
      <3>3. Cardinality(ids) \in Nat
        BY RequestsAssumption, FS_Subset, FS_CardinalityType
      <3>4. Cardinality(ids) <= Bound
        BY <3>1, <3>2, <3>3 DEF Bound
      <3>5. DOMAIN [a \in ids |-> None] = ids
        OBVIOUS
      <3>6. req[r].op \in Makers
        BY <1>1, <2>3 DEF InsertImported, Fits, Makers
      <3>7. QED
        BY <1>3, <3>1, <3>4, <3>5, <3>6 DEF Settles
    <2>4. QED
      BY <2>1, <2>2, <2>3
  <1>5. QED
    BY <1>2, <1>4, OneSettles

\* The check that lets one more through.
LEMMA CheckKeepsQuota ==
    ASSUME AssetInv, AssetInv', QuotaInv, NEW r \in Requests, CheckQuota(r)
    PROVE  QuotaInv'
  <1>1. /\ pc[r] = "reading" /\ req[r].op = "upload" /\ UNCHANGED database
        /\ pc \in [Requests -> Places]
    BY DEF CheckQuota, AssetInv, TypeOK, Places
  <1>2. CASE Ends(r)
    BY <1>1, <1>2, EndedSettles, OneSettles
  <1>3. CASE HasRoom(req[r].module) /\ Goes(r, "checked") /\ req' = req
    <2> DEFINE n == req[r].module
    <2>1. /\ pc'[r] = "checked" /\ \A s \in Requests : s # r => pc'[s] = pc[s]
      BY <1>1, <1>3 DEF Goes
    <2>2. \A m \in Modules : AssetsOf(m)' = AssetsOf(m)
      BY <1>1 DEF AssetsOf, database
    <2>3. \A m \in Modules : m # n => Pending(m)' = Pending(m)
      BY <1>1, <1>3, <2>1 DEF Pending
    <2>4. Cardinality(AssetsOf(n)) < Quota
      BY <1>3 DEF HasRoom
    <2>5. ASSUME NEW m \in Modules
          PROVE  Cardinality(AssetsOf(m)') + Cardinality(Pending(m)') <= Bound
      <3>1. CASE m # n
        BY <2>2, <2>3, <3>1 DEF QuotaInv
      <3>2. CASE m = n
        <4>1. /\ Cardinality(AssetsOf(m)) \in Nat /\ Quota \in Nat
              /\ Cardinality(Requests) \in Nat
          BY Finiteness DEF AssetInv
        <4>2. /\ Cardinality(Pending(m)') \in Nat
              /\ Cardinality(Pending(m)') <= Cardinality(Requests)
          <5>1. Pending(m)' \in SUBSET Requests
            BY DEF Pending
          <5>2. QED
            BY <5>1, RequestsAssumption, FS_Subset, FS_CardinalityType
        <4>3. QED
          BY <2>2, <2>4, <3>2, <4>1, <4>2 DEF Bound
      <3>3. QED
        BY <3>1, <3>2
    <2>6. QED
      BY <1>1, <1>3, <2>1, <2>2, <2>5 DEF QuotaInv, Bound, Makers, database
  <1>4. QED
    BY <1>2, <1>3 DEF CheckQuota

LEMMA DeletingKeepsQuota ==
    ASSUME AssetInv, AssetInv', QuotaInv, NEW r \in Requests, FinishDeleting(r)
    PROVE  QuotaInv'
  <1>1. /\ pc'[r] = "idle" /\ Settles(r)
        /\ \A s \in Requests : s # r => pc'[s] = pc[s] /\ req'[s] = req[s]
    BY EndedSettles DEF FinishDeleting
  <1>2. \A s \in Requests : Settles(s)
    BY <1>1 DEF Settles
  <1>3. \A m \in Modules : AssetsOf(m)' \subseteq AssetsOf(m)
    BY DEF FinishDeleting, AssetsOf
  <1>4. \A m \in Modules : status'[m] = "absent" <=> status[m] = "absent"
    BY DEF FinishDeleting, AssetInv, TypeOK, LockInv
  <1>5. QED
    BY <1>2, <1>3, <1>4, SettlesKeepsQuota

\* The commit of an upload, which was counted, or of a new module.
LEMMA StoringKeepsQuota ==
    ASSUME AssetInv, AssetInv', QuotaInv, NEW r \in Requests, FinishStoring(r)
    PROVE  QuotaInv'
  <1> DEFINE new == req[r].new
  <1>0. PICK n : n = req[r].module
    OBVIOUS
  <1>1. /\ pc[r] = "storing" /\ Ends(r)
        /\ DOMAIN rows' = DOMAIN rows \cup DOMAIN new
        /\ \A a \in DOMAIN rows' : rows'[a] = IF a \in DOMAIN new THEN n ELSE rows[a]
        /\ status' = IF req[r].op \in Makers THEN [status EXCEPT ![n] = "open"] ELSE status
    BY <1>0 DEF FinishStoring
  <1>2. /\ pc'[r] = "idle" /\ req'[r] = NoRequest /\ Settles(r)
        /\ \A s \in Requests : s # r => pc'[s] = pc[s] /\ req'[s] = req[s]
    BY <1>1, EndedSettles
  <1>3. NoRequest.op \notin {"upload"} \cup Makers /\ "upload" \notin Makers
    BY DEF NoRequest, Makers
  <1>4. req[r].op \in Makers \cup {"upload"} /\ n \in Modules
    <2>1. req[r].op \in Makers \cup {"upload"}
      BY <1>1 DEF AssetInv, RequestInv, Fits
    <2>2. QED
      BY <1>0, <2>1 DEF AssetInv, LockInv
  <1>5. DOMAIN new \cap DOMAIN rows = {}
    BY DEF AssetInv, NewInv
  <1>6. /\ AssetsOf(n)' = AssetsOf(n) \cup DOMAIN new
        /\ \A m \in Modules : m # n => AssetsOf(m)' = AssetsOf(m)
    BY <1>1, <1>5 DEF AssetsOf
  <1>7. \A m \in Modules : m # n => Pending(m)' = Pending(m)
    BY <1>0, <1>1, <1>2, <1>3 DEF Pending
  <1>8. status \in [Modules -> {"absent", "open", "deleted"}]
    BY DEF AssetInv, TypeOK
  <1>9. Cardinality(AssetsOf(n)') + Cardinality(Pending(n)') <= Bound
    <2>0. /\ IsFiniteSet(AssetsOf(n)) /\ IsFiniteSet(Pending(n))
          /\ Cardinality(AssetsOf(n)) \in Nat /\ Cardinality(Pending(n)) \in Nat
          /\ Bound \in Int
          /\ Cardinality(AssetsOf(n)) + Cardinality(Pending(n)) <= Bound
      BY <1>4, Finiteness DEF AssetInv, QuotaInv, Bound
    <2>1. CASE req[r].op = "upload"
      <3>1. PICK a : DOMAIN new = {a}
        BY <1>1, <2>1 DEF QuotaInv
      <3>2. r \in Pending(n) /\ Pending(n)' = Pending(n) \ {r}
        BY <1>0, <1>1, <1>2, <1>3, <2>1 DEF Pending
      <3>3. a \notin AssetsOf(n)
        BY <1>5, <3>1 DEF AssetsOf
      <3>4. Cardinality(AssetsOf(n)') = Cardinality(AssetsOf(n)) + 1
        <4>1. AssetsOf(n)' = AssetsOf(n) \cup {a}
          BY <1>6, <3>1
        <4>2. Cardinality(AssetsOf(n) \cup {a}) = Cardinality(AssetsOf(n)) + 1
          BY <2>0, <3>3, FS_AddElement
        <4>3. QED
          BY <4>1, <4>2
      <3>5. Cardinality(Pending(n)') = Cardinality(Pending(n)) - 1
        BY <2>0, <3>2, FS_RemoveElement
      <3>6. QED
        BY <2>0, <3>4, <3>5
    <2>2. CASE req[r].op \in Makers
      <3>1. status[n] = "absent"
        BY <1>0, <2>2 DEF AssetInv, LockInv
      <3>2. AssetsOf(n)' = DOMAIN new
        BY <1>4, <1>6, <3>1 DEF QuotaInv
      <3>3. Pending(n)' = {}
        BY <1>2, <1>3, <3>1 DEF Pending, QuotaInv
      <3>4. Cardinality(DOMAIN new) <= Bound /\ Cardinality(DOMAIN new) \in Nat
        <4>1. DOMAIN new \in SUBSET Assets
          BY DEF AssetInv, NewInv, TypeOK
        <4>2. QED
          BY <1>1, <2>2, <4>1, RequestsAssumption, FS_Subset, FS_CardinalityType
             DEF QuotaInv
      <3>5. QED
        BY <2>0, <3>2, <3>3, <3>4, FS_EmptySet
    <2>3. QED
      BY <1>4, <2>1, <2>2
  <1>10. \A m \in Modules : Cardinality(AssetsOf(m)') + Cardinality(Pending(m)') <= Bound
    BY <1>6, <1>7, <1>9 DEF QuotaInv
  <1>11. \A m \in Modules : status'[m] = "absent" => AssetsOf(m)' = {}
    <2>1. CASE req[r].op = "upload"
      <3>1. status[n] # "absent" /\ status' = status
        BY <1>0, <1>1, <1>3, <2>1 DEF QuotaInv
      <3>2. QED
        BY <1>6, <3>1 DEF QuotaInv
    <2>2. CASE req[r].op \in Makers
      BY <1>1, <1>4, <1>6, <1>8, <2>2 DEF QuotaInv
    <2>3. QED
      BY <1>4, <2>1, <2>2
  <1>12. \A s \in Requests : req'[s].op = "upload" => status'[req'[s].module] # "absent"
    <2>1. \A m \in Modules : status[m] # "absent" => status'[m] # "absent"
      BY <1>1, <1>4, <1>8
    <2>2. \A s \in Requests : req[s].op = "upload" => req[s].module \in Modules
      BY DEF AssetInv, LockInv
    <2>3. QED
      BY <1>2, <1>3, <2>1, <2>2 DEF QuotaInv
  <1> HIDE DEF new
  <1>13. QED
    BY <1>2, <1>3, <1>10, <1>11, <1>12 DEF QuotaInv, Bound

LEMMA QuotaInit ==
    ASSUME Requests # {}, Init
    PROVE  QuotaInv
  <1>1. \A r \in Requests : req[r].op = "none" /\ pc[r] = "idle"
    BY DEF Init, NoRequest
  <1>2. \A m : AssetsOf(m) = {} /\ Pending(m) = {}
    BY <1>1 DEF Init, NoAssets, AssetsOf, Pending
  <1>3. Quota \in Nat /\ Cardinality(Requests) \in Nat /\ Cardinality(Requests) # 0
    BY QuotaAssumption, RequestsAssumption, FS_CardinalityType, FS_EmptySet
  <1>4. Cardinality({}) = 0
    BY FS_EmptySet
  <1>5. ASSUME NEW m \in Modules
        PROVE  Cardinality(AssetsOf(m)) + Cardinality(Pending(m)) <= Bound
    <2>1. Cardinality(AssetsOf(m)) = 0 /\ Cardinality(Pending(m)) = 0
      BY <1>2, <1>4
    <2>2. QED
      BY <1>3, <2>1 DEF Bound
  <1>6. QED
    BY <1>1, <1>2, <1>5 DEF QuotaInv, Makers

LEMMA QuotaStep ==
    ASSUME AssetInv, QuotaInv, [Next]_vars
    PROVE  QuotaInv'
  <1>1. AssetInv'
    BY AssetStep
  <1>2. CASE UNCHANGED vars
    BY <1>2 DEF QuotaInv, AssetsOf, Pending, vars, database
  <1>3. CASE Next
    <2>1. PICK r \in Requests :
            \/ \/ \E m \in Modules : BeginUpload(r, m) \/ BeginDeleteModule(r, m)
               \/ \E m \in Modules, c \in Copies : BeginDuplicate(r, m, c)
               \/ \E c \in Copies, op \in {"import", "document"} : BeginImport(r, c, op)
               \/ \E a \in Assets : BeginDeleteAsset(r, a)
            \/ CheckQuota(r)
            \/ InsertAsset(r) \/ ListAssets(r) \/ InsertImported(r)
            \/ \E a \in Assets : \/ Store(r, a) \/ StoreFails(r, a)
                                 \/ TakeBack(r, a) \/ RemoveRow(r, a)
            \/ EraseObject(r)
            \/ GiveUp(r) \/ RejectPages(r) \/ Die(r) \/ EraseFails(r)
            \/ FinishStoring(r)
            \/ FinishDeleting(r)
      BY <1>3 DEF Next
    <2>2. CASE \/ \E m \in Modules : BeginUpload(r, m) \/ BeginDeleteModule(r, m)
               \/ \E m \in Modules, c \in Copies : BeginDuplicate(r, m, c)
               \/ \E c \in Copies, op \in {"import", "document"} : BeginImport(r, c, op)
               \/ \E a \in Assets : BeginDeleteAsset(r, a)
      BY <1>1, <2>2, BeginsKeepQuota
    <2>3. CASE CheckQuota(r)
      BY <1>1, <2>3, CheckKeepsQuota
    <2>4. CASE InsertAsset(r) \/ ListAssets(r) \/ InsertImported(r)
      BY <1>1, <2>4, InsertsKeepQuota
    <2>5. CASE \E a \in Assets : \/ Store(r, a) \/ StoreFails(r, a)
                                 \/ TakeBack(r, a) \/ RemoveRow(r, a)
      BY <1>1, <2>5, CallsKeepQuota
    <2>6. CASE EraseObject(r)
      <3>1. req[r].at \in Assets
        BY <2>6, RowsAreUsed DEF EraseObject, AssetInv, RequestInv, Fits, GoneInv, Taking
      <3>2. QED
        BY <1>1, <2>6, <3>1, CallsKeepQuota
    <2>7. CASE GiveUp(r) \/ RejectPages(r) \/ Die(r) \/ EraseFails(r)
      BY <1>1, <2>7, EndsKeepQuota
    <2>8. CASE FinishStoring(r)
      BY <1>1, <2>8, StoringKeepsQuota
    <2>9. CASE FinishDeleting(r)
      BY <1>1, <2>9, DeletingKeepsQuota
    <2>10. QED
      BY <2>1, <2>2, <2>3, <2>4, <2>5, <2>6, <2>7, <2>8, <2>9
  <1>4. QED
    BY <1>2, <1>3

\* The check of upload_asset reads what is committed by then, so uploads that
\* pass it together overshoot the quota, and by no more than their number less
\* one; a duplicate takes over as many files as its source has, and no more.
THEOREM OvershootIsBounded ==
    ASSUME Requests # {}
    PROVE  Spec => []QuotaOvershoot
  <1>1. Init => QuotaInv
    BY QuotaInit
  <1>2. AssetInv /\ QuotaInv => QuotaOvershoot
    <2> SUFFICES ASSUME AssetInv, QuotaInv, NEW m \in Modules
                 PROVE  Cardinality(AssetsOf(m)) <= Quota + Cardinality(Requests) - 1
      BY DEF QuotaOvershoot
    <2>1. QED
      BY Finiteness DEF AssetInv, QuotaInv, Bound
  <1>3. AssetInv /\ QuotaInv /\ [Next]_vars => QuotaInv'
    BY QuotaStep
  <1>4. QED
    BY <1>1, <1>2, <1>3, AssetInvariant, PTL DEF Spec
=============================================================================
