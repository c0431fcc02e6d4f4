------------------------------ MODULE PageDraft ------------------------------
(***************************************************************************)
(* The working draft of one module: its `modules` row, its `module_pages`  *)
(* rows and its `module_versions` rows, as the authoring screens of        *)
(* several Content Managers change them (routes/content.py).               *)
(*                                                                         *)
(* A mutating handler takes the row lock of the module                     *)
(* (`get_module_or_404(for_update=True)`), reads what it decides on, and   *)
(* commits or refuses.  Those are two steps here, Lock and one of the      *)
(* handler actions, so that what the lock protects is visible.  A page     *)
(* write carries the revision the screen loaded (`draft_revision`); the    *)
(* screen learns revisions from unlocked reads and from answers, each of   *)
(* which reads the modules row before the pages.                           *)
(***************************************************************************)
EXTENDS Naturals, FiniteSets

CONSTANTS
    Tabs,        \* open authoring screens, each with one request at a time
    PageIds,     \* identities a page row can be given
    MaxPages,    \* _MAX_PAGES
    MaxChanges,  \* model bound: revisions and versions, with those in flight
    None

ASSUME NoneAssumption == None \notin Tabs /\ None \notin PageIds
ASSUME MaxPagesAssumption == MaxPages \in Nat
ASSUME PageIdsAssumption == IsFiniteSet(PageIds)

VARIABLES
    module,    \* the committed modules row: status, revision, current version
    pages,     \* the committed module_pages rows, by id
    used,      \* every page id ever handed out (uuid4 never repeats)
    versions,  \* the committed module_versions rows
    lock,      \* the tab whose transaction holds the row lock, or None
    pc,        \* where each tab's request is
    op,        \* what each tab's request asks for
    read,      \* what each tab's request has read
    tab        \* what each screen shows: the token and the pages it came with

vars == <<module, pages, used, versions, lock, pc, op, read, tab>>

PageWrites == {"create", "update", "delete", "reorder"}
ModuleWrites == {"publish", "unpublish", "retire"}
Locations == {"idle", "loading", "waiting", "locked", "answering"}

\* A page row: its position, and the revision that wrote its body.
PageRow == [position : Nat, body : Nat]
ModuleRow == [status : {"draft", "published", "deleted"},
              revision : Nat, current : Nat \cup {None}]

\* The page rows of a draft or a snapshot, by id.
IsDraft(rows) == DOMAIN rows \subseteq PageIds /\ rows \in [DOMAIN rows -> PageRow]
\* The order a request carries: a position for each of some pages.
IsOrder(order) == DOMAIN order \subseteq PageIds /\ order \in [DOMAIN order -> Nat]

Empty == [p \in {} |-> None]
Load == [kind |-> "load", page |-> None, order |-> Empty]
NewModule == [status |-> "draft", revision |-> 1, current |-> None]
NothingRead == [module |-> NewModule, pages |-> Empty, highest |-> 0]

\* coalesce(max(version_number), 0)
Highest ==
    IF versions = {} THEN 0
    ELSE CHOOSE n \in {v.number : v \in versions} :
            \A v \in versions : v.number <= n

Current == [module |-> module, pages |-> pages, highest |-> Highest]

Init ==
    /\ module = NewModule
    /\ pages = Empty
    /\ used = {}
    /\ versions = {}
    /\ lock = None
    /\ pc = [t \in Tabs |-> "idle"]
    /\ op = [t \in Tabs |-> Load]
    /\ read = [t \in Tabs |-> NothingRead]
    /\ tab = [t \in Tabs |-> [token |-> 0, seen |-> Empty]]

-----------------------------------------------------------------------------
(* The screen: ModulePagesPanel and the GET behind it.                     *)

\* The request is over and nothing of it is kept.
Ends(t) ==
    /\ pc' = [pc EXCEPT ![t] = "idle"]
    /\ op' = [op EXCEPT ![t] = Load]
    /\ read' = [read EXCEPT ![t] = NothingRead]

\* list_pages, first statement: the modules row, without its lock.
LoadModule(t) ==
    /\ pc[t] = "idle"
    /\ pc' = [pc EXCEPT ![t] = "loading"]
    /\ read' = [read EXCEPT ![t] = [NothingRead EXCEPT !.module = module]]
    /\ UNCHANGED <<module, pages, used, versions, lock, op, tab>>

\* list_pages, second statement: the pages, whatever is committed by now.
LoadPages(t) ==
    /\ pc[t] = "loading"
    /\ tab' = [tab EXCEPT ![t] = [token |-> read[t].module.revision,
                                  seen |-> pages]]
    /\ Ends(t)
    /\ UNCHANGED <<module, pages, used, versions, lock>>

\* The orders movePage can ask for: two neighbours on the screen swapped.
Swapped(seen, p, q) ==
    [r \in DOMAIN seen |-> CASE r = p -> seen[q].position
                             [] r = q -> seen[p].position
                             [] OTHER -> seen[r].position]

\* What the screen's buttons can send, given the pages it shows.
Requests(seen) ==
    {[kind |-> k, page |-> None, order |-> Empty] :
        k \in ModuleWrites \cup {"create"}}
    \cup {[kind |-> k, page |-> p, order |-> Empty] :
            k \in {"update", "delete"}, p \in DOMAIN seen}
    \cup {[kind |-> "reorder", page |-> None,
           order |-> Swapped(seen, pq[1], pq[2])] :
            pq \in {xy \in (DOMAIN seen) \X (DOMAIN seen) :
                      seen[xy[2]].position = seen[xy[1]].position + 1}}

\* Room for one more change among those committed and in flight.
WithinBound ==
    module.revision + Highest
      + Cardinality({t \in Tabs : pc[t] \in {"waiting", "locked"}}) < MaxChanges

\* A button is pressed on a loaded screen: the request carries its token.
Send(t) ==
    /\ pc[t] = "idle"
    /\ tab[t].token > 0
    /\ WithinBound
    /\ \E request \in Requests(tab[t].seen) : op' = [op EXCEPT ![t] = request]
    /\ pc' = [pc EXCEPT ![t] = "waiting"]
    /\ UNCHANGED <<module, pages, used, versions, lock, read, tab>>

-----------------------------------------------------------------------------
(* The handlers.                                                           *)

\* Mutants: of Lock, the row read without FOR UPDATE; of Editable and of
\* ClaimHolds, the check left out.
LockShared(t) ==
    /\ pc[t] = "waiting"
    /\ lock' = t
    /\ read' = [read EXCEPT ![t] = Current]
    /\ pc' = [pc EXCEPT ![t] = "locked"]
    /\ UNCHANGED <<module, pages, used, versions, op, tab>>
AnyStatus(t) == TRUE
AnyToken(t) == TRUE

\* get_module_or_404(for_update=True), and the reads made under the lock.
Lock(t) ==
    /\ pc[t] = "waiting"
    /\ lock = None
    /\ lock' = t
    /\ read' = [read EXCEPT ![t] = Current]
    /\ pc' = [pc EXCEPT ![t] = "locked"]
    /\ UNCHANGED <<module, pages, used, versions, op, tab>>

\* ensure_module_editable
Editable(t) == read[t].module.status # "deleted"

\* _claim_draft: the token is the one the screen loaded.
ClaimHolds(t) == tab[t].token = read[t].module.revision

\* What the handler of t's request requires before it writes.
Accepts(t) ==
    CASE op[t].kind = "create" ->
            /\ Editable(t)
            /\ Cardinality(DOMAIN read[t].pages) < MaxPages
            /\ ClaimHolds(t)
      [] op[t].kind \in {"update", "delete"} ->
            /\ Editable(t)
            /\ op[t].page \in DOMAIN read[t].pages
            /\ ClaimHolds(t)
      [] op[t].kind = "reorder" ->
            /\ Editable(t)
            /\ DOMAIN op[t].order = DOMAIN read[t].pages
            /\ ClaimHolds(t)
      [] op[t].kind = "publish" ->
            /\ Editable(t)
            /\ read[t].pages # Empty
      [] op[t].kind = "unpublish" -> read[t].module.status = "published"
      [] op[t].kind = "retire" -> read[t].module.status # "deleted"
      [] OTHER -> FALSE

\* A handler past its checks: it is the one asked for, and it ends the
\* transaction, which gives the lock back.
Handles(t, kind) ==
    /\ pc[t] = "locked"
    /\ op[t].kind = kind
    /\ Accepts(t)
    /\ lock' = IF lock = t THEN None ELSE lock

\* Mutants: of CommitsPages, the revision is not moved on; of Renumbered, the
\* gap stays, and positions start one too low.
CommitsUnclaimed(t) ==
    /\ module' = module
    /\ read' = [read EXCEPT ![t] = [NothingRead EXCEPT !.module = module]]
    /\ pc' = [pc EXCEPT ![t] = "answering"]
    /\ UNCHANGED <<versions, op, tab>>
WithGap(rows) == rows
FromBelow(rows) == [p \in DOMAIN rows |-> [rows[p] EXCEPT !.position = @ - 1]]

\* The commit of a page write: the claimed revision goes into the row, and the
\* answer will carry it.
CommitsPages(t) ==
    LET row == [module EXCEPT !.revision = read[t].module.revision + 1]
    IN  /\ module' = row
        /\ read' = [read EXCEPT ![t] = [NothingRead EXCEPT !.module = row]]
        /\ pc' = [pc EXCEPT ![t] = "answering"]
        /\ UNCHANGED <<versions, op, tab>>

\* Positions as `enumerate` gives them to rows in position order.
Renumbered(rows) ==
    [p \in DOMAIN rows |->
        [rows[p] EXCEPT !.position =
            Cardinality({q \in DOMAIN rows :
                           rows[q].position < rows[p].position})]]

Written(t) == read[t].module.revision + 1

CreatePage(t) ==
    /\ Handles(t, "create")
    /\ \E p \in PageIds \ used :
        /\ used' = used \cup {p}
        /\ pages' = [q \in DOMAIN pages \cup {p} |->
                        IF q = p THEN [position |-> Cardinality(DOMAIN read[t].pages),
                                       body |-> Written(t)]
                        ELSE pages[q]]
    /\ CommitsPages(t)

\* Title and body are both optional, so an update may leave the text alone.
UpdatePage(t) ==
    /\ Handles(t, "update")
    /\ \E b \in {read[t].pages[op[t].page].body, Written(t)} :
        pages' = [pages EXCEPT ![op[t].page].body = b]
    /\ CommitsPages(t)
    /\ UNCHANGED used

ReorderPages(t) ==
    /\ Handles(t, "reorder")
    /\ pages' = [p \in DOMAIN pages |->
                    IF p \in DOMAIN op[t].order
                    THEN [pages[p] EXCEPT !.position = op[t].order[p]]
                    ELSE pages[p]]
    /\ CommitsPages(t)
    /\ UNCHANGED used

DeletePage(t) ==
    /\ Handles(t, "delete")
    /\ pages' = Renumbered([p \in DOMAIN pages \ {op[t].page} |-> pages[p]])
    /\ CommitsPages(t)
    /\ UNCHANGED used

\* The commit of a handler whose answer leaves the screen's pages alone.
CommitsModule(t) ==
    /\ Ends(t)
    /\ UNCHANGED <<used, tab>>

\* Mutant of PublishModule: the row is pointed at the version before.
PublishBefore(t) ==
    LET number == read[t].highest + 1
    IN  /\ Handles(t, "publish")
        /\ versions' = versions \cup {[number |-> number, text |-> read[t].pages]}
        /\ module' = [module EXCEPT !.status = "published", !.current = read[t].highest]
        /\ UNCHANGED pages
        /\ CommitsModule(t)

\* publish_module: freeze the draft under the next number and repoint the row.
PublishModule(t) ==
    LET number == read[t].highest + 1
    IN  /\ Handles(t, "publish")
        /\ versions' = versions \cup {[number |-> number, text |-> read[t].pages]}
        /\ module' = [module EXCEPT !.status = "published", !.current = number]
        /\ UNCHANGED pages
        /\ CommitsModule(t)

UnpublishModule(t) ==
    /\ Handles(t, "unpublish")
    /\ module' = [module EXCEPT !.status = "draft"]
    /\ UNCHANGED <<pages, versions>>
    /\ CommitsModule(t)

\* delete_module, as far as the draft and its versions go.
DeleteModule(t) ==
    /\ Handles(t, "retire")
    /\ pages' = Empty
    /\ versions' = {}
    /\ module' = [module EXCEPT !.status = "deleted", !.current = None]
    /\ CommitsModule(t)

\* Mutant of Refuse: the transaction is left open.
RefuseHolding(t) ==
    /\ pc[t] = "locked"
    /\ ~Accepts(t) \/ op[t].kind \in {"create", "update"}
    /\ Ends(t)
    /\ UNCHANGED <<module, pages, used, versions, lock, tab>>

\* 404, 409 or 422 after the lock: the session closes and rolls back.  Body
\* validation may refuse any create or update.
Refuse(t) ==
    /\ pc[t] = "locked"
    /\ ~Accepts(t) \/ op[t].kind \in {"create", "update"}
    /\ lock' = IF lock = t THEN None ELSE lock
    /\ Ends(t)
    /\ UNCHANGED <<module, pages, used, versions, tab>>

\* The process dies or the client hangs up inside the transaction.
Abort(t) ==
    /\ pc[t] = "locked"
    /\ lock' = IF lock = t THEN None ELSE lock
    /\ Ends(t)
    /\ UNCHANGED <<module, pages, used, versions, tab>>

\* _pages_response: the revision this request committed, and the pages read
\* after the commit, by when another tab may have written.
Answer(t) ==
    /\ pc[t] = "answering"
    /\ tab' = [tab EXCEPT ![t] = [token |-> read[t].module.revision,
                                  seen |-> pages]]
    /\ Ends(t)
    /\ UNCHANGED <<module, pages, used, versions, lock>>

\* The answer never reaches the screen, which keeps what it showed.
LoseAnswer(t) ==
    /\ pc[t] = "answering"
    /\ Ends(t)
    /\ UNCHANGED <<module, pages, used, versions, lock, tab>>

-----------------------------------------------------------------------------

Commit(t) ==
    \/ CreatePage(t)
    \/ UpdatePage(t)
    \/ ReorderPages(t)
    \/ DeletePage(t)
    \/ PublishModule(t)
    \/ UnpublishModule(t)
    \/ DeleteModule(t)

Next ==
    \E t \in Tabs :
        \/ LoadModule(t)
        \/ LoadPages(t)
        \/ Send(t)
        \/ Lock(t)
        \/ Commit(t)
        \/ Refuse(t)
        \/ Abort(t)
        \/ Answer(t)
        \/ LoseAnswer(t)

Spec == Init /\ [][Next]_vars

\* The server and the database keep going: a request inside its transaction
\* ends, an answer arrives or is lost, and the row lock, which PostgreSQL hands
\* over in arrival order, is not withheld from a waiter for ever.  Nothing
\* obliges an author to press a button.
Fairness ==
    \A t \in Tabs :
        /\ WF_vars(LoadPages(t))
        /\ SF_vars(Lock(t))
        /\ WF_vars(Commit(t) \/ Refuse(t) \/ Abort(t))
        /\ WF_vars(Answer(t) \/ LoseAnswer(t))

FairSpec == Spec /\ Fairness

-----------------------------------------------------------------------------
(* Properties.                                                             *)

\* The shape of every row, request and screen.
TypeOK ==
    /\ module \in ModuleRow
    /\ IsDraft(pages)
    /\ used \subseteq PageIds
    /\ \A v \in versions : v.number \in Nat /\ IsDraft(v.text)
    /\ lock \in Tabs \cup {None}
    /\ pc \in [Tabs -> Locations]
    /\ op = [t \in Tabs |-> op[t]]
    /\ read = [t \in Tabs |-> read[t]]
    /\ tab = [t \in Tabs |-> tab[t]]
    /\ \A t \in Tabs :
        /\ op[t].kind \in PageWrites \cup ModuleWrites \cup {"load"}
        /\ op[t].page \in PageIds \cup {None}
        /\ IsOrder(op[t].order)
        /\ read[t].module \in ModuleRow
        /\ IsDraft(read[t].pages)
        /\ read[t].highest \in Nat
        /\ tab[t] = [token |-> tab[t].token, seen |-> tab[t].seen]
        /\ tab[t].token \in Nat
        /\ IsDraft(tab[t].seen)

\* A screen whose token is still the draft's revision shows the draft itself:
\* reading the row before the pages can only leave a token that is too old
\* (list_pages, _pages_response).
TokenVouchesForView ==
    module.status # "deleted" =>
        \A t \in Tabs : tab[t].token = module.revision => tab[t].seen = pages

\* Pages are numbered 0..n-1 without gap or repeat and within the limit, always,
\* through creates, deletes and reorders of several tabs (create_page's
\* `position=page_count`, delete_page's renumbering, the UNIQUE constraint).
ContiguousPositions ==
    LET n == Cardinality(DOMAIN pages)
    IN  n <= MaxPages /\ {pages[p].position : p \in DOMAIN pages} = 0..(n - 1)

\* Versions are numbered 1, 2, 3... with one row each, however many publishes
\* race for the next number (publish_module's comment on the row lock).
VersionNumbering ==
    /\ {v.number : v \in versions} = 1..Cardinality(versions)
    /\ module.status = "published" => module.current = Cardinality(versions)

\* No lost update (_claim_draft): a page write is accepted only from a screen
\* that shows exactly the pages the write replaces.
NoBlindWrite ==
    [][module'.revision # module.revision =>
         \E t \in Tabs : lock = t /\ tab[t].seen = pages]_vars

\* Nothing changes the pages without moving the revision on, so every other
\* screen's token goes stale; only the delete of the module is exempt.
EveryEditIsClaimed ==
    [][pages' # pages =>
         module'.revision = module.revision + 1 \/ module'.status = "deleted"]_vars

\* What learners are served changes only by a publish of the whole draft as it
\* stands, never by an edit, a reorder or an unpublish (routes/content.py,
\* "The line between what an author is working on and what a learner reads").
Served ==
    IF module.status = "published"
    THEN {v.text : v \in {w \in versions : w.number = module.current}} ELSE {}

ServedOnlyByPublish == [][Served' # Served => Served' = {} \/ Served' = {pages}]_vars

\* `deleted` is terminal (access.py ensure_module_editable): no request that
\* was waiting for the lock when the module was deleted brings anything back.
DeletedIsTerminal ==
    [][module.status = "deleted" =>
         module'.status = "deleted" /\ pages' = Empty /\ versions' = {}]_vars

\* Every request gets out of the queue for the row lock and out of its
\* transaction, whatever the other tabs' requests do.
RequestsEnd == \A t \in Tabs : pc[t] # "idle" ~> pc[t] = "idle"
=============================================================================
