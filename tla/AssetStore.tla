------------------------------ MODULE AssetStore ------------------------------
(***************************************************************************)
(* The files of a module: rows of `module_assets` in PostgreSQL, which a   *)
(* transaction can take back, and objects in S3, which it cannot.          *)
(* routes/assets.py uploads and deletes one; routes/content.py deletes     *)
(* them all with their module, or copies them into a new one;              *)
(* routes/transfer.py and routes/document_import.py bring a new module     *)
(* with its files.                                                         *)
(*                                                                         *)
(* Every handler writes rows, calls the store, and commits, so a request   *)
(* here keeps the rows it has added and removed to itself until Finish.    *)
(* The store may refuse a call, or do what it was asked and still answer   *)
(* with an error, and the process may die between any two steps.           *)
(* delete_module holds its modules row FOR UPDATE; the foreign key of an   *)
(* inserted asset row holds it FOR KEY SHARE until the commit.             *)
(***************************************************************************)
EXTENDS Naturals, FiniteSets, Functions

CONSTANTS
    Requests,   \* slots for requests under way
    Original,   \* a module that is there from the start
    Copies,     \* ids for modules that come from a duplicate or an import
    Assets,     \* ids an asset can be given (uuid4 never repeats)
    Quota,      \* asset_max_module_bytes, in files of one size
    None

Modules == {Original} \cup Copies

ASSUME NoneAssumption == None \notin Modules \cup Assets
ASSUME QuotaAssumption == Quota \in Nat
ASSUME RequestsAssumption == IsFiniteSet(Requests) /\ IsFiniteSet(Assets)

VARIABLES
    status,     \* of each module: "absent" until it is committed
    rows,       \* the committed asset rows: the module of each
    objects,    \* the assets whose object is in the store
    used,       \* every asset id ever handed out
    pc,         \* where each request is
    req,        \* what each request asks for, and has done uncommitted
    destroyed,  \* history: assets a delete has taken out of the store
    stranded    \* history: objects given up, and why

database == <<status, rows>>
vars == <<database, objects, used, pc, req, destroyed, stranded>>

Makers == {"duplicate", "import", "document"}
Reasons == {"unsure", "kept", "died", "rejected"}

NoAssets == [a \in {} |-> None]
NoRequest == [op |-> "none", module |-> None, from |-> None, new |-> NoAssets,
              gone |-> {}, todo |-> {}, stored |-> {}, at |-> None]

AssetsOf(m) == {a \in DOMAIN rows : rows[a] = m}

Init ==
    /\ status = [m \in Modules |-> IF m = Original THEN "open" ELSE "absent"]
    /\ rows = NoAssets
    /\ objects = {}
    /\ used = {}
    /\ pc = [r \in Requests |-> "idle"]
    /\ req = [r \in Requests |-> NoRequest]
    /\ destroyed = {}
    /\ stranded = {}

-----------------------------------------------------------------------------
(* Requests and their locks.                                               *)

Goes(r, place) == pc' = [pc EXCEPT ![r] = place]

Starts(r, place, request) ==
    /\ pc[r] = "idle"
    /\ Goes(r, place)
    /\ req' = [req EXCEPT ![r] = request]

Ends(r) ==
    /\ Goes(r, "idle")
    /\ req' = [req EXCEPT ![r] = NoRequest]

\* The locks of a modules row: FOR UPDATE by its delete, FOR KEY SHARE by an
\* upload that has inserted its row.
Exclusive(m) == \E r \in Requests : req[r].op = "retire" /\ req[r].module = m
Shared(m) ==
    \E r \in Requests : /\ req[r].op = "upload"
                        /\ req[r].module = m
                        /\ DOMAIN req[r].new # {}

\* Mutant of KeyIsFree: an asset row without its foreign key.
NoForeignKey(m) == TRUE
KeyIsFree(m) == ~Exclusive(m)

\* Mutant of InsertsRows: an id is handed out that may come round again.
ReusesIds(r, new) ==
    /\ DOMAIN new \cap used = {}
    /\ used' = used
    /\ req' = [req EXCEPT ![r].new = new, ![r].todo = DOMAIN new]
    /\ Goes(r, "storing")

\* New rows, and for each of a duplicate's the asset it is a copy of.
InsertsRows(r, new) ==
    /\ DOMAIN new \cap used = {}
    /\ used' = used \cup DOMAIN new
    /\ req' = [req EXCEPT ![r].new = new, ![r].todo = DOMAIN new]
    /\ Goes(r, "storing")

-----------------------------------------------------------------------------
(* upload_asset                                                            *)

\* The module is read without its lock, then the body as it arrives.
BeginUpload(r, m) ==
    /\ status[m] = "open"
    /\ Starts(r, "reading", [NoRequest EXCEPT !.op = "upload", !.module = m])
    /\ UNCHANGED <<database, objects, used, destroyed, stranded>>

\* Mutant of HasRoom: one file too many.
HasRoomForTwo(m) == Cardinality(AssetsOf(m)) <= Quota
HasRoom(m) == Cardinality(AssetsOf(m)) < Quota

\* The quota is checked against what is committed by then.
CheckQuota(r) ==
    /\ pc[r] = "reading"
    /\ req[r].op = "upload"
    /\ \/ /\ HasRoom(req[r].module)
          /\ Goes(r, "checked")
          /\ UNCHANGED req
       \/ /\ ~HasRoom(req[r].module)
          /\ Ends(r)
    /\ UNCHANGED <<database, objects, used, destroyed, stranded>>

InsertAsset(r) ==
    /\ pc[r] = "checked"
    /\ KeyIsFree(req[r].module)
    /\ \E a \in Assets : InsertsRows(r, [b \in {a} |-> None])
    /\ UNCHANGED <<database, objects, destroyed, stranded>>

-----------------------------------------------------------------------------
(* duplicate_module, import_module, import_document: a new module, which   *)
(* nobody sees before the commit.                                          *)

IsFresh(c) == status[c] = "absent" /\ \A r \in Requests : req[r].module # c

BeginDuplicate(r, m, c) ==
    /\ status[m] = "open"
    /\ c \in Copies /\ IsFresh(c)
    /\ Starts(r, "reading", [NoRequest EXCEPT !.op = "duplicate", !.module = c, !.from = m])
    /\ UNCHANGED <<database, objects, used, destroyed, stranded>>

\* _duplicate_assets: the source's rows as they are by now, a new row for each.
ListAssets(r) ==
    /\ pc[r] = "reading"
    /\ req[r].op = "duplicate"
    /\ \E ids \in SUBSET Assets :
        \E new \in Bijection(ids, AssetsOf(req[r].from)) : InsertsRows(r, new)
    /\ UNCHANGED <<database, objects, destroyed, stranded>>

\* The archive, or the document, is validated as far as it ever is before
\* anything is created; then its rows.
BeginImport(r, c, op) ==
    /\ c \in Copies /\ IsFresh(c)
    /\ Starts(r, "received", [NoRequest EXCEPT !.op = op, !.module = c])
    /\ UNCHANGED <<database, objects, used, destroyed, stranded>>

InsertImported(r) ==
    /\ pc[r] = "received"
    /\ \E ids \in SUBSET Assets :
        /\ Cardinality(ids) <= Quota
        /\ InsertsRows(r, [a \in ids |-> None])
    /\ UNCHANGED <<database, objects, destroyed, stranded>>

-----------------------------------------------------------------------------
(* The store, one call at a time.                                          *)

\* put_asset, or copy_asset of an object that is still there
Store(r, a) ==
    /\ pc[r] = "storing"
    /\ a \in req[r].todo
    /\ req[r].new[a] \in objects \cup {None}
    /\ objects' = objects \cup {a}
    /\ req' = [req EXCEPT ![r].todo = @ \ {a}, ![r].stored = @ \cup {a}]
    /\ UNCHANGED <<database, used, pc, destroyed, stranded>>

\* The call fails.  The object it was about is not among those written, so if
\* it got into the store all the same, nobody will take it out.
StoreFails(r, a) ==
    /\ pc[r] = "storing"
    /\ a \in req[r].todo
    /\ \/ UNCHANGED <<objects, stranded>>
       \/ /\ req[r].new[a] \in objects \cup {None}
          /\ objects' = objects \cup {a}
          /\ stranded' = stranded \cup {<<a, "unsure">>}
    /\ Goes(r, "cleaning")
    /\ UNCHANGED <<database, used, req, destroyed>>

\* Mutants: of Written, the cleaning stops one early; of ErasesKey, the source's
\* object goes, not the copy's.
WrittenButLast(r) ==
    IF Cardinality(req[r].stored) < 2 THEN {} ELSE req[r].stored
ErasesSource(r, a) == {IF req[r].new[a] = None THEN a ELSE req[r].new[a]}

\* The keys still to be taken back by hand, and what taking one back removes.
Written(r) == req[r].stored
ErasesKey(r, a) == {a}

\* What was written is taken back by hand, best effort: an upload has written
\* nothing when its one call fails.
TakeBack(r, a) ==
    /\ pc[r] = "cleaning"
    /\ a \in Written(r)
    /\ \/ /\ objects' = objects \ ErasesKey(r, a)
          /\ UNCHANGED stranded
       \/ /\ stranded' = stranded \cup {<<a, "kept">>}
          /\ UNCHANGED objects
    /\ req' = [req EXCEPT ![r].stored = @ \ {a}]
    /\ UNCHANGED <<database, used, pc, destroyed>>

\* ... and the rows go with the rollback.
GiveUp(r) ==
    /\ pc[r] = "cleaning"
    /\ Written(r) = {}
    /\ Ends(r)
    /\ UNCHANGED <<database, objects, used, destroyed, stranded>>

\* import_document validates the converted pages once the images are stored: a
\* 422 then rolls the rows back, outside the `try` that would clean up.
RejectPages(r) ==
    /\ pc[r] = "storing"
    /\ req[r].op = "document"
    /\ req[r].todo = {}
    /\ stranded' = stranded \cup (req[r].stored \X {"rejected"})
    /\ Ends(r)
    /\ UNCHANGED <<database, objects, used, destroyed>>

\* The rows, and the module of a maker, are committed.
FinishStoring(r) ==
    /\ pc[r] = "storing"
    /\ req[r].todo = {}
    /\ rows' = [a \in DOMAIN rows \cup DOMAIN req[r].new |->
                  IF a \in DOMAIN req[r].new THEN req[r].module ELSE rows[a]]
    /\ status' = IF req[r].op \in Makers
                 THEN [status EXCEPT ![req[r].module] = "open"] ELSE status
    /\ Ends(r)
    /\ UNCHANGED <<objects, used, destroyed, stranded>>

-----------------------------------------------------------------------------
(* delete_module_asset, delete_module                                      *)

\* The row is read; whether the module is deleted is not asked.
BeginDeleteAsset(r, a) ==
    /\ a \in DOMAIN rows
    /\ Starts(r, "removing", [NoRequest EXCEPT !.op = "remove", !.module = rows[a],
                                               !.todo = {a}])
    /\ UNCHANGED <<database, objects, used, destroyed, stranded>>

\* Under the lock of the modules row, every asset row there is.
BeginDeleteModule(r, m) ==
    /\ status[m] = "open"
    /\ ~Exclusive(m) /\ ~Shared(m)
    /\ Starts(r, "removing", [NoRequest EXCEPT !.op = "retire", !.module = m,
                                               !.todo = AssetsOf(m)])
    /\ UNCHANGED <<database, objects, used, destroyed, stranded>>

\* The row is deleted under its own lock; one that another request has deleted
\* meanwhile is deleted twice over, to no effect.
RemoveRow(r, a) ==
    /\ pc[r] = "removing"
    /\ a \in req[r].todo
    /\ \A s \in Requests \ {r} : a \notin req[s].gone
    /\ req' = [req EXCEPT ![r].gone = @ \cup {a}, ![r].at = a]
    /\ Goes(r, "erasing")
    /\ UNCHANGED <<database, objects, used, destroyed, stranded>>

\* delete_asset
EraseObject(r) ==
    /\ pc[r] = "erasing"
    /\ objects' = objects \ {req[r].at}
    /\ destroyed' = destroyed \cup {req[r].at}
    /\ req' = [req EXCEPT ![r].todo = @ \ {req[r].at}]
    /\ Goes(r, "removing")
    /\ UNCHANGED <<database, used, stranded>>

\* The store answers with an error: everything is rolled back but the objects
\* already gone.
EraseFails(r) ==
    /\ pc[r] = "erasing"
    /\ \/ UNCHANGED <<objects, destroyed>>
       \/ /\ objects' = objects \ {req[r].at}
          /\ destroyed' = destroyed \cup {req[r].at}
    /\ Ends(r)
    /\ UNCHANGED <<database, used, stranded>>

FinishDeleting(r) ==
    /\ pc[r] = "removing"
    /\ req[r].todo = {}
    /\ rows' = [a \in DOMAIN rows \ req[r].gone |-> rows[a]]
    /\ status' = IF req[r].op = "retire"
                 THEN [status EXCEPT ![req[r].module] = "deleted"] ELSE status
    /\ Ends(r)
    /\ UNCHANGED <<objects, used, destroyed, stranded>>

\* The process dies, or the commit fails.
Die(r) ==
    /\ pc[r] # "idle"
    /\ stranded' = stranded \cup (req[r].stored \X {"died"})
    /\ Ends(r)
    /\ UNCHANGED <<database, objects, used, destroyed>>

-----------------------------------------------------------------------------

Next ==
    \E r \in Requests :
        \/ \E m \in Modules : \/ BeginUpload(r, m)
                              \/ BeginDeleteModule(r, m)
        \/ \E m \in Modules, c \in Copies : BeginDuplicate(r, m, c)
        \/ \E c \in Copies, op \in {"import", "document"} : BeginImport(r, c, op)
        \/ CheckQuota(r)
        \/ InsertAsset(r)
        \/ ListAssets(r)
        \/ InsertImported(r)
        \/ \E a \in Assets : \/ Store(r, a)
                             \/ StoreFails(r, a)
                             \/ TakeBack(r, a)
                             \/ BeginDeleteAsset(r, a)
                             \/ RemoveRow(r, a)
        \/ GiveUp(r)
        \/ RejectPages(r)
        \/ FinishStoring(r)
        \/ EraseObject(r)
        \/ EraseFails(r)
        \/ FinishDeleting(r)
        \/ Die(r)

Spec == Init /\ [][Next]_vars

-----------------------------------------------------------------------------
(* Properties.                                                             *)

\* The shape of rows and requests.
MapsOf(S, T) == UNION {[ids -> T] : ids \in SUBSET S}

Request == [op : {"none", "upload", "remove", "retire"} \cup Makers,
            module : Modules \cup {None}, from : Modules \cup {None},
            new : MapsOf(Assets, Assets \cup {None}),
            gone : SUBSET Assets, todo : SUBSET Assets, stored : SUBSET Assets,
            at : Assets \cup {None}]

TypeOK ==
    /\ status \in [Modules -> {"absent", "open", "deleted"}]
    /\ rows \in MapsOf(used, Modules)
    /\ objects \subseteq used
    /\ used \subseteq Assets
    /\ pc \in [Requests -> {"idle", "reading", "checked", "received", "storing",
                            "cleaning", "removing", "erasing"}]
    /\ req \in [Requests -> Request]
    /\ destroyed \subseteq used
    /\ stranded \subseteq used \X Reasons

\* A row anybody can see has its object, unless somebody asked for the file to
\* be deleted (upload_asset's and copy_asset's "before the commit"): no failed
\* copy, import or clean-up ever reaches the object of another request's row.
\* A delete that fails half-way does leave rows whose objects are gone.
RowsHaveObjects == DOMAIN rows \subseteq objects \cup destroyed

\* An object is a row's, or of a request that will still see to it, or was given
\* up in one of the ways listed: nothing else slips out of the bucket's books,
\* whoever else is deleting, copying or failing meanwhile.  routes/assets.py says
\* that an object outliving its row "is never allowed"; the reasons are when it does.
ObjectsAreAccountedFor ==
    \A a \in objects :
        \/ a \in DOMAIN rows
        \/ \E r \in Requests : a \in req[r].stored
        \/ \E why \in Reasons : <<a, why>> \in stranded

\* The check-then-insert of upload_asset overshoots the quota by at most one
\* file for every other upload under way, however many arrive in turn.
QuotaOvershoot ==
    \A m \in Modules :
        Cardinality(AssetsOf(m)) <= Quota + Cardinality(Requests) - 1

\* When a module is deleted no file of it is left, and none is on its way in
\* from an upload whose row was there first (delete_module: "every stored asset
\* object is destroyed"); the foreign key makes the two take turns.
DeleteEmptiesModule ==
    [][\A m \in Modules :
         status[m] # "deleted" /\ status'[m] = "deleted" =>
            /\ \A a \in DOMAIN rows' : rows'[a] # m
            /\ ~Shared(m)]_vars

=============================================================================
