--------------------------- MODULE PageDraftProofs ---------------------------
(***************************************************************************)
(* What holds of PageDraft for every set of tabs, every set of page ids    *)
(* and every bound.  The argument: the row lock makes what a handler read  *)
(* equal to what is committed until it ends (LockInv); a revision only     *)
(* grows, and no request or screen holds one from the future (TokenInv);   *)
(* so a token equal to the draft's revision was read with, or after, the   *)
(* last change of the pages.  What a handler then decides, how pages and   *)
(* versions are numbered, what a delete leaves and what reaches learners,  *)
(* is the subject of the second part.                                      *)
(***************************************************************************)
EXTENDS PageDraftRefinement, FiniteSetTheorems, TLAPS

\* There is a highest version number whenever there is a version.
HasHighest ==
    versions # {} => \E v \in versions : \A w \in versions : w.number <= v.number

\* The lock has one holder, and what the holder read is still the case.
LockInv ==
    \A t \in Tabs :
        /\ pc[t] = "locked" => lock = t
        /\ lock = t => pc[t] = "locked"
        /\ pc[t] = "locked" => read[t] = Current

\* No revision is known before it is committed.
TokenInv ==
    \A t \in Tabs :
        /\ tab[t].token <= module.revision
        /\ pc[t] \in {"loading", "answering"} =>
             read[t].module.revision <= module.revision

\* The inductive invariant.
DraftInv ==
    /\ TypeOK
    /\ HasHighest
    /\ LockInv
    /\ TokenInv
    /\ TokenVouchesForView

-----------------------------------------------------------------------------

\* The number publish_module counts up from is a number.
LEMMA HighestType ==
    ASSUME TypeOK, HasHighest
    PROVE  /\ Highest \in Nat
           /\ \A v \in versions : v.number <= Highest
  <1>1. CASE versions = {}
    BY <1>1 DEF Highest
  <1>2. CASE versions # {}
    <2>1. PICK v \in versions : \A w \in versions : w.number <= v.number
      BY <1>2 DEF HasHighest
    <2>2. v.number \in {w.number : w \in versions}
      OBVIOUS
    <2>3. \E n \in {w.number : w \in versions} : \A w \in versions : w.number <= n
      BY <2>1, <2>2
    <2>4. /\ Highest \in {w.number : w \in versions}
          /\ \A w \in versions : w.number <= Highest
      BY <1>2, <2>3 DEF Highest
    <2>5. QED
      BY <2>4 DEF TypeOK
  <1>3. QED
    BY <1>1, <1>2

\* Renumbering keeps every row and gives it a position.
LEMMA RenumberedType ==
    ASSUME NEW rows, IsDraft(rows)
    PROVE  IsDraft(Renumbered(rows))
  <1> DEFINE before(p) == {q \in DOMAIN rows : rows[q].position < rows[p].position}
  <1>1. ASSUME NEW p \in DOMAIN rows
        PROVE  Cardinality(before(p)) \in Nat
    <2>1. before(p) \subseteq PageIds
      BY DEF IsDraft
    <2>2. QED
      BY <2>1, PageIdsAssumption, FS_Subset, FS_CardinalityType
  <1>2. \A p \in DOMAIN rows :
          [rows[p] EXCEPT !.position = Cardinality(before(p))] \in PageRow
    BY <1>1 DEF IsDraft, PageRow
  <1>3. QED
    BY <1>2 DEF IsDraft, Renumbered

\* A request names pages the screen shows, so its parts have their types.
LEMMA RequestType ==
    ASSUME NEW seen, IsDraft(seen), NEW request \in Requests(seen)
    PROVE  /\ request.kind \in PageWrites \cup ModuleWrites \cup {"load"}
           /\ request.page \in PageIds \cup {None}
           /\ IsOrder(request.order)
  <1>1. IsOrder(Empty)
    BY DEF IsOrder, Empty
  <1>2. ASSUME NEW p \in DOMAIN seen, NEW q \in DOMAIN seen
        PROVE  IsOrder(Swapped(seen, p, q))
    BY DEF IsOrder, IsDraft, Swapped, PageRow
  <1>3. QED
    BY <1>1, <1>2 DEF Requests, PageWrites, ModuleWrites, IsDraft

-----------------------------------------------------------------------------

LEMMA InitInv == Init => DraftInv
  <1> SUFFICES ASSUME Init PROVE DraftInv
    OBVIOUS
  <1>1. IsDraft(Empty) /\ IsOrder(Empty)
    BY DEF IsDraft, IsOrder, Empty
  <1>2. TypeOK
    BY <1>1 DEF Init, TypeOK, NewModule, NothingRead, Load, ModuleRow,
       PageWrites, ModuleWrites, Locations
  <1>3. HasHighest /\ TokenInv /\ TokenVouchesForView
    BY DEF Init, HasHighest, TokenInv, TokenVouchesForView, NewModule
  <1>4. LockInv
    BY NoneAssumption DEF Init, LockInv
  <1>5. QED
    BY <1>2, <1>3, <1>4 DEF DraftInv

\* A request that ends leaves its tab idle with well-typed leftovers.
LEMMA EndsType ==
    ASSUME TypeOK, NEW t \in Tabs, Ends(t)
    PROVE  /\ pc' \in [Tabs -> Locations]
           /\ pc'[t] = "idle"
           /\ \A u \in Tabs : u # t => /\ pc'[u] = pc[u]
                                       /\ op'[u] = op[u]
                                       /\ read'[u] = read[u]
           /\ op' = [u \in Tabs |-> op'[u]]
           /\ read' = [u \in Tabs |-> read'[u]]
           /\ op'[t] = Load
           /\ read'[t] = NothingRead
  BY DEF TypeOK, Ends, Locations

\* What an ended request leaves behind has its type.
LEMMA NothingType ==
    /\ IsDraft(Empty)
    /\ IsOrder(Empty)
    /\ Load.kind \in PageWrites \cup ModuleWrites \cup {"load"}
    /\ Load.page \in PageIds \cup {None}
    /\ IsOrder(Load.order)
    /\ NothingRead.module \in ModuleRow
    /\ IsDraft(NothingRead.pages)
    /\ NothingRead.highest \in Nat
  <1>1. IsDraft(Empty) /\ IsOrder(Empty)
    BY DEF IsDraft, IsOrder, Empty
  <1>2. QED
    BY <1>1 DEF Load, NothingRead, NewModule, ModuleRow

-----------------------------------------------------------------------------
(* One lemma per conjunct and group of actions.                            *)

\* The screen's own steps, and those that end a transaction without a commit.
LEMMA ScreenStep ==
    ASSUME DraftInv, NEW t \in Tabs,
           LoadModule(t) \/ LoadPages(t) \/ Send(t) \/ Lock(t)
           \/ Refuse(t) \/ Abort(t) \/ Answer(t) \/ LoseAnswer(t)
    PROVE  DraftInv'
  <1> USE DEF DraftInv
  <1>1. CASE LoadModule(t)
    <2>1. TypeOK'
      BY <1>1, NothingType DEF TypeOK, LoadModule, Locations, NothingRead
    <2>2. HasHighest' /\ TokenVouchesForView'
      BY <1>1 DEF LoadModule, HasHighest, TokenVouchesForView
    <2>3. LockInv'
      BY <1>1 DEF LoadModule, LockInv, TypeOK, Current, Highest
    <2>4. TokenInv'
      BY <1>1 DEF LoadModule, TokenInv, TypeOK, NothingRead, ModuleRow
    <2>5. QED
      BY <2>1, <2>2, <2>3, <2>4
  <1>2. CASE LoadPages(t)
    <2> USE EndsType, NothingType
    <2>1. Ends(t)
      BY <1>2 DEF LoadPages
    <2>2. TypeOK'
      BY <1>2, <2>1 DEF TypeOK, LoadPages, ModuleRow
    <2>3. HasHighest' /\ TokenVouchesForView'
      BY <1>2 DEF LoadPages, HasHighest, TokenVouchesForView, TypeOK
    <2>4. LockInv'
      BY <1>2, <2>1 DEF LoadPages, LockInv, Current, Highest
    <2>5. TokenInv'
      BY <1>2, <2>1 DEF LoadPages, TokenInv, TypeOK
    <2>6. QED
      BY <2>2, <2>3, <2>4, <2>5
  <1>3. CASE Send(t)
    <2>1. PICK request \in Requests(tab[t].seen) : op' = [op EXCEPT ![t] = request]
      BY <1>3 DEF Send
    <2>2. TypeOK'
      BY <1>3, <2>1, RequestType DEF TypeOK, Send, Locations
    <2>3. HasHighest' /\ TokenVouchesForView'
      BY <1>3 DEF Send, HasHighest, TokenVouchesForView
    <2>4. LockInv'
      BY <1>3 DEF Send, LockInv, TypeOK, Current, Highest
    <2>5. TokenInv'
      BY <1>3 DEF Send, TokenInv, TypeOK
    <2>6. QED
      BY <2>2, <2>3, <2>4, <2>5
  <1>4. CASE Lock(t)
    <2>1. TypeOK'
      BY <1>4, HighestType DEF TypeOK, Lock, Locations, Current
    <2>2. HasHighest' /\ TokenVouchesForView'
      BY <1>4 DEF Lock, HasHighest, TokenVouchesForView
    <2>3. LockInv'
      BY <1>4, NoneAssumption DEF Lock, LockInv, TypeOK, Current, Highest
    <2>4. TokenInv'
      BY <1>4 DEF Lock, TokenInv, TypeOK
    <2>5. QED
      BY <2>1, <2>2, <2>3, <2>4
  <1>5. CASE Refuse(t) \/ Abort(t)
    <2>1. /\ Ends(t)
          /\ lock' = IF lock = t THEN None ELSE lock
          /\ pc[t] = "locked"
          /\ UNCHANGED <<module, pages, used, versions, tab>>
      BY <1>5 DEF Refuse, Abort
    <2> USE EndsType, NothingType
    <2>2. TypeOK'
      BY <2>1 DEF TypeOK
    <2>3. HasHighest' /\ TokenVouchesForView'
      BY <2>1 DEF HasHighest, TokenVouchesForView
    <2>4. LockInv'
      BY <2>1, NoneAssumption DEF LockInv, Current, Highest
    <2>5. TokenInv'
      BY <2>1 DEF TokenInv
    <2>6. QED
      BY <2>2, <2>3, <2>4, <2>5
  <1>6. CASE Answer(t)
    <2> USE EndsType, NothingType
    <2>1. Ends(t)
      BY <1>6 DEF Answer
    <2>2. TypeOK'
      BY <1>6, <2>1 DEF TypeOK, Answer, ModuleRow
    <2>3. HasHighest' /\ TokenVouchesForView'
      BY <1>6 DEF Answer, HasHighest, TokenVouchesForView, TypeOK
    <2>4. LockInv'
      BY <1>6, <2>1 DEF Answer, LockInv, Current, Highest
    <2>5. TokenInv'
      BY <1>6, <2>1 DEF Answer, TokenInv, TypeOK
    <2>6. QED
      BY <2>2, <2>3, <2>4, <2>5
  <1>7. CASE LoseAnswer(t)
    <2> USE EndsType, NothingType
    <2>1. Ends(t)
      BY <1>7 DEF LoseAnswer
    <2>2. TypeOK'
      BY <1>7, <2>1 DEF TypeOK, LoseAnswer
    <2>3. HasHighest' /\ TokenVouchesForView'
      BY <1>7 DEF LoseAnswer, HasHighest, TokenVouchesForView
    <2>4. LockInv'
      BY <1>7, <2>1 DEF LoseAnswer, LockInv, Current, Highest
    <2>5. TokenInv'
      BY <1>7, <2>1 DEF LoseAnswer, TokenInv
    <2>6. QED
      BY <2>2, <2>3, <2>4, <2>5
  <1>8. QED
    BY <1>1, <1>2, <1>3, <1>4, <1>5, <1>6, <1>7

-----------------------------------------------------------------------------
(* The handlers' commits.                                                  *)

\* Under the lock a handler decides on what is committed.
LEMMA LockedHandler ==
    ASSUME DraftInv, NEW t \in Tabs, NEW kind, Handles(t, kind)
    PROVE  /\ lock = t
           /\ read[t] = Current
           /\ lock' = None
           /\ \A u \in Tabs : u # t => pc[u] # "locked"
  BY NoneAssumption DEF DraftInv, LockInv, Handles

\* A page write commits the next revision, and only from a screen whose token
\* is the draft's.
LEMMA ClaimedCommit ==
    ASSUME DraftInv, NEW t \in Tabs, NEW kind \in PageWrites,
           Handles(t, kind), op[t].kind = kind, CommitsPages(t)
    PROVE  /\ module.status # "deleted"
           /\ tab[t].token = module.revision
           /\ module'.revision = module.revision + 1
           /\ module'.status = module.status
           /\ module' \in ModuleRow
  <1>1. read[t].module = module
    BY LockedHandler DEF Current
  <1>2. module.status # "deleted" /\ tab[t].token = module.revision
    BY <1>1 DEF Handles, Accepts, Editable, ClaimHolds, PageWrites
  <1>3. module \in ModuleRow
    BY DEF DraftInv, TypeOK
  <1>4. QED
    BY <1>1, <1>2, <1>3 DEF CommitsPages, ModuleRow

\* The invariant survives a page write, given that its rows have their type.
LEMMA PageWriteStep ==
    ASSUME DraftInv, NEW t \in Tabs, NEW kind \in PageWrites,
           Handles(t, kind), op[t].kind = kind, CommitsPages(t),
           IsDraft(pages'), used' \subseteq PageIds
    PROVE  DraftInv'
  <1> USE LockedHandler, ClaimedCommit
  <1>1. /\ pc' = [pc EXCEPT ![t] = "answering"]
        /\ read' = [read EXCEPT ![t] = [NothingRead EXCEPT !.module = module']]
        /\ UNCHANGED <<versions, op, tab>>
    BY DEF CommitsPages
  <1>2. TypeOK'
    BY <1>1, NothingType DEF DraftInv, TypeOK, Locations, NothingRead
  <1>3. HasHighest'
    BY <1>1 DEF DraftInv, HasHighest
  <1>4. LockInv'
    BY <1>1, NoneAssumption DEF DraftInv, LockInv, TypeOK
  <1>5. TokenInv'
    <2>1. module.revision \in Nat /\ module'.revision = module.revision + 1
      BY DEF DraftInv, TypeOK, ModuleRow
    <2>2. read'[t].module = module'
      BY <1>1 DEF DraftInv, TypeOK, NothingRead
    <2>3. \A u \in Tabs : u # t => read'[u] = read[u] /\ pc'[u] = pc[u]
      BY <1>1 DEF DraftInv, TypeOK
    <2>4. \A u \in Tabs : read[u].module.revision \in Nat /\ tab[u].token \in Nat
      BY DEF DraftInv, TypeOK, ModuleRow
    <2>5. QED
      BY <1>1, <2>1, <2>2, <2>3, <2>4 DEF DraftInv, TokenInv
  <1>6. TokenVouchesForView'
    BY <1>1 DEF DraftInv, TokenVouchesForView, TokenInv, TypeOK, ModuleRow
  <1>7. QED
    BY <1>2, <1>3, <1>4, <1>5, <1>6 DEF DraftInv

LEMMA PageWritesStep ==
    ASSUME DraftInv, NEW t \in Tabs,
           CreatePage(t) \/ UpdatePage(t) \/ ReorderPages(t) \/ DeletePage(t)
    PROVE  DraftInv'
  <1>1. IsDraft(pages) /\ used \subseteq PageIds
    BY DEF DraftInv, TypeOK
  <1>2. CASE CreatePage(t)
    <2>1. Handles(t, "create") /\ CommitsPages(t) /\ op[t].kind = "create"
      BY <1>2 DEF CreatePage, Handles
    <2>2. read[t].pages = pages /\ Written(t) \in Nat
      BY <2>1, LockedHandler DEF Current, Written, DraftInv, TypeOK, ModuleRow
    <2>3. Cardinality(DOMAIN pages) \in Nat
      BY <1>1, PageIdsAssumption, FS_Subset, FS_CardinalityType DEF IsDraft
    <2>4. PICK p \in PageIds \ used :
            /\ used' = used \cup {p}
            /\ pages' = [q \in DOMAIN pages \cup {p} |->
                            IF q = p THEN [position |-> Cardinality(DOMAIN read[t].pages),
                                           body |-> Written(t)]
                            ELSE pages[q]]
      BY <1>2 DEF CreatePage
    <2>5. IsDraft(pages') /\ used' \subseteq PageIds
      BY <1>1, <2>2, <2>3, <2>4 DEF IsDraft, PageRow
    <2>6. QED
      BY <2>1, <2>5, PageWriteStep DEF PageWrites
  <1>3. CASE UpdatePage(t)
    <2>1. /\ Handles(t, "update")
          /\ CommitsPages(t)
          /\ op[t].kind = "update"
          /\ used' = used
      BY <1>3 DEF UpdatePage, Handles
    <2>2. /\ op[t].page \in DOMAIN pages
          /\ read[t].pages = pages
          /\ Written(t) \in Nat
      BY <2>1, LockedHandler DEF Handles, Accepts, Current, Written, DraftInv,
         TypeOK, ModuleRow
    <2>3. PICK b \in {pages[op[t].page].body, Written(t)} :
            pages' = [pages EXCEPT ![op[t].page].body = b]
      BY <1>3, <2>2 DEF UpdatePage
    <2>4. b \in Nat /\ pages[op[t].page] \in PageRow
      BY <1>1, <2>2, <2>3 DEF IsDraft, PageRow
    <2>5. IsDraft(pages')
      BY <1>1, <2>2, <2>3, <2>4 DEF IsDraft, PageRow
    <2>6. QED
      BY <1>1, <2>1, <2>5, PageWriteStep DEF PageWrites
  <1>4. CASE ReorderPages(t)
    <2>1. /\ Handles(t, "reorder")
          /\ CommitsPages(t)
          /\ op[t].kind = "reorder"
          /\ used' = used
      BY <1>4 DEF ReorderPages, Handles
    <2>2. IsOrder(op[t].order)
      BY DEF DraftInv, TypeOK
    <2>3. \A p \in DOMAIN pages \cap DOMAIN op[t].order :
            [pages[p] EXCEPT !.position = op[t].order[p]] \in PageRow
      BY <1>1, <2>2 DEF IsDraft, IsOrder, PageRow
    <2>4. IsDraft(pages')
      BY <1>1, <1>4, <2>3 DEF ReorderPages, IsDraft
    <2>5. QED
      BY <1>1, <2>1, <2>4, PageWriteStep DEF PageWrites
  <1>5. CASE DeletePage(t)
    <2>1. /\ Handles(t, "delete")
          /\ CommitsPages(t)
          /\ op[t].kind = "delete"
          /\ used' = used
      BY <1>5 DEF DeletePage, Handles
    <2> DEFINE rest == [p \in DOMAIN pages \ {op[t].page} |-> pages[p]]
    <2>2. IsDraft(rest)
      BY <1>1 DEF IsDraft
    <2>3. pages' = Renumbered(rest)
      BY <1>5 DEF DeletePage
    <2>4. IsDraft(pages')
      BY <2>2, <2>3, RenumberedType
    <2>5. QED
      BY <1>1, <2>1, <2>4, PageWriteStep DEF PageWrites
  <1>6. QED
    BY <1>2, <1>3, <1>4, <1>5

\* publish, unpublish and delete leave tokens and revision alone, and the last
\* of them takes the pages away together with the status.
LEMMA ModuleWritesStep ==
    ASSUME DraftInv, NEW t \in Tabs,
           PublishModule(t) \/ UnpublishModule(t) \/ DeleteModule(t)
    PROVE  DraftInv'
  <1>1. module \in ModuleRow /\ IsDraft(pages)
    BY DEF DraftInv, TypeOK
  <1> DEFINE kind == op[t].kind
  <1>2. /\ Handles(t, kind)
        /\ Ends(t)
        /\ UNCHANGED <<used, tab>>
    BY DEF PublishModule, UnpublishModule, DeleteModule, Handles, CommitsModule
  <1>3. /\ lock' = None
        /\ read[t] = Current
        /\ \A u \in Tabs : u # t => pc[u] # "locked"
    BY <1>2, LockedHandler
  <1>4. LockInv'
    BY <1>2, <1>3, EndsType, NoneAssumption DEF DraftInv, LockInv
  <1>5. /\ module' \in ModuleRow
        /\ IsDraft(pages')
        /\ \A v \in versions' : v.number \in Nat /\ IsDraft(v.text)
        /\ HasHighest'
        /\ module'.revision = module.revision
        /\ module'.status # "deleted" => module.status # "deleted" /\ pages' = pages
    <2>1. CASE PublishModule(t)
      <3> DEFINE number == Highest + 1
                 version == [number |-> number, text |-> pages]
      <3>1. /\ versions' = versions \cup {version}
            /\ module' = [module EXCEPT !.status = "published", !.current = number]
            /\ pages' = pages
        BY <1>3, <2>1 DEF PublishModule, Current
      <3>2. /\ number \in Nat
            /\ \A v \in versions : v.number <= number
        BY HighestType DEF DraftInv, TypeOK
      <3>3. module.status # "deleted"
        BY <1>3, <2>1 DEF PublishModule, Handles, Accepts, Editable, Current
      <3>4. module' \in ModuleRow /\ module'.revision = module.revision
        BY <1>1, <3>1, <3>2 DEF ModuleRow
      <3>5. HasHighest'
        <4>1. version \in versions' /\ version.number = number
          BY <3>1
        <4>2. \A w \in versions' : w.number <= version.number
          BY <3>1, <3>2, <4>1
        <4>3. QED
          BY <4>1, <4>2 DEF HasHighest
      <3>6. \A v \in versions' : v.number \in Nat /\ IsDraft(v.text)
        BY <1>1, <3>1, <3>2 DEF DraftInv, TypeOK
      <3>7. QED
        BY <1>1, <3>1, <3>3, <3>4, <3>5, <3>6
    <2>2. CASE UnpublishModule(t)
      <3>1. module.status = "published"
        BY <1>3, <2>2 DEF UnpublishModule, Handles, Accepts, Current
      <3>2. QED
        BY <1>1, <2>2, <3>1 DEF UnpublishModule, ModuleRow, HasHighest, DraftInv, TypeOK
    <2>3. CASE DeleteModule(t)
      BY <1>1, <2>3, NothingType DEF DeleteModule, ModuleRow, HasHighest
    <2>4. QED
      BY <2>1, <2>2, <2>3
  <1>6. TypeOK'
    BY <1>2, <1>3, <1>5, EndsType, NothingType DEF DraftInv, TypeOK
  <1>7. TokenInv' /\ TokenVouchesForView'
    BY <1>2, <1>5, EndsType DEF DraftInv, TokenInv, TokenVouchesForView
  <1>8. QED
    BY <1>4, <1>5, <1>6, <1>7 DEF DraftInv

LEMMA NextInv == DraftInv /\ [Next]_vars => DraftInv'
  <1> SUFFICES ASSUME DraftInv, [Next]_vars PROVE DraftInv'
    OBVIOUS
  <1>1. CASE UNCHANGED vars
    BY <1>1 DEF vars, DraftInv, TypeOK, HasHighest, LockInv, TokenInv,
       TokenVouchesForView, Current, Highest
  <1>2. ASSUME NEW t \in Tabs, Commit(t) PROVE DraftInv'
    BY <1>2, PageWritesStep, ModuleWritesStep DEF Commit
  <1>3. QED
    BY <1>1, <1>2, ScreenStep DEF Next

-----------------------------------------------------------------------------
(* The theorems.                                                           *)

\* Every reachable state satisfies the inductive invariant.
THEOREM DraftInvariant == Spec => []DraftInv
  <1>1. QED
    BY InitInv, NextInv, PTL DEF Spec

\* Rows, requests and screens keep their shape.
THEOREM DraftTypeCorrect == Spec => []TypeOK
  <1>1. DraftInv => TypeOK
    BY DEF DraftInv
  <1>2. QED
    BY <1>1, DraftInvariant, PTL

\* A token that is still current shows its author the draft as it is.
THEOREM TokenVouches == Spec => []TokenVouchesForView
  <1>1. DraftInv => TokenVouchesForView
    BY DEF DraftInv
  <1>2. QED
    BY <1>1, DraftInvariant, PTL

\* A step that moves the revision is a page write, made from a screen that
\* shows the pages it replaces.
LEMMA BlindWriteStep ==
    ASSUME DraftInv, [Next]_vars, module'.revision # module.revision
    PROVE  \E t \in Tabs : lock = t /\ tab[t].seen = pages
  <1>1. PICK t \in Tabs : Commit(t)
    BY DEF Next, vars, LoadModule, LoadPages, Send, Lock, Refuse, Abort, Answer, LoseAnswer
  <1>2. module \in ModuleRow
    BY DEF DraftInv, TypeOK
  <1>3. CASE PublishModule(t) \/ UnpublishModule(t) \/ DeleteModule(t)
    BY <1>2, <1>3 DEF PublishModule, UnpublishModule, DeleteModule, ModuleRow
  <1>4. CASE CreatePage(t) \/ UpdatePage(t) \/ ReorderPages(t) \/ DeletePage(t)
    <2>1. PICK kind \in PageWrites : Handles(t, kind) /\ CommitsPages(t)
      BY <1>4 DEF CreatePage, UpdatePage, ReorderPages, DeletePage, PageWrites
    <2>2. op[t].kind = kind
      BY <2>1 DEF Handles
    <2>3. lock = t /\ module.status # "deleted" /\ tab[t].token = module.revision
      BY <2>1, <2>2, LockedHandler, ClaimedCommit
    <2>4. QED
      BY <2>3 DEF DraftInv, TokenVouchesForView
  <1>5. QED
    BY <1>1, <1>3, <1>4 DEF Commit

\* No lost update: no page write is accepted over pages its author has not been
\* shown, whatever the interleaving of requests, reads and lost answers.
THEOREM NoLostUpdate == Spec => NoBlindWrite
  <1>1. DraftInv /\ [Next]_vars =>
          [module'.revision # module.revision =>
             \E t \in Tabs : lock = t /\ tab[t].seen = pages]_vars
    BY BlindWriteStep
  <1>2. QED
    BY <1>1, DraftInvariant, PTL DEF Spec, NoBlindWrite

\* A screen that is told a revision together with the pages is a See of the
\* register.
LEMMA SeeStep ==
    ASSUME DraftInv, NEW t \in Tabs,
           pc[t] \in {"loading", "answering"},
           tab' = [tab EXCEPT ![t] = [token |-> read[t].module.revision,
                                      seen |-> pages]],
           UNCHANGED <<module, pages>>
    PROVE  Register!See(t)
  <1>1. read[t].module.revision \in 0..module.revision
    BY DEF DraftInv, TypeOK, TokenInv, ModuleRow
  <1>2. tab'[t] = [token |-> read[t].module.revision, seen |-> pages]
    BY DEF DraftInv, TypeOK
  <1>3. tab' = [tab EXCEPT ![t] = tab'[t]]
    BY <1>2
  <1>4. QED
    BY <1>1, <1>2, <1>3 DEF Register!See

\* Every commit of a page write is a Write of the register.
LEMMA WriteStep ==
    ASSUME DraftInv, NEW t \in Tabs, NEW kind \in PageWrites,
           Handles(t, kind), CommitsPages(t)
    PROVE  Register!Write(t)
  <1>1. op[t].kind = kind
    BY DEF Handles
  <1>2. /\ module.status # "deleted"
        /\ tab[t].token = module.revision
        /\ module'.revision = module.revision + 1
        /\ module'.status = module.status
    BY <1>1, ClaimedCommit
  <1>3. tab[t].seen = pages
    BY <1>2 DEF DraftInv, TokenVouchesForView
  <1>4. tab' = tab
    BY DEF CommitsPages
  <1>5. QED
    BY <1>2, <1>3, <1>4 DEF Register!Write

\* Publish and unpublish are stutters of the register, delete its Retire.
LEMMA ModuleWriteStep ==
    ASSUME DraftInv, NEW t \in Tabs,
           PublishModule(t) \/ UnpublishModule(t) \/ DeleteModule(t)
    PROVE  Register!Retire \/ UNCHANGED Register!register
  <1>1. module \in ModuleRow
    BY DEF DraftInv, TypeOK
  <1> DEFINE kind == op[t].kind
  <1>2. Handles(t, kind) /\ tab' = tab
    BY DEF PublishModule, UnpublishModule, DeleteModule, Handles, CommitsModule
  <1>3. read[t].module = module
    BY <1>2, LockedHandler DEF Current
  <1>4. CASE PublishModule(t) \/ UnpublishModule(t)
    <2>1. module.status # "deleted" /\ pages' = pages
      BY <1>3, <1>4 DEF PublishModule, UnpublishModule, Handles, Accepts, Editable
    <2>2. module'.status # "deleted" /\ module'.revision = module.revision
      BY <1>1, <1>4 DEF PublishModule, UnpublishModule, ModuleRow
    <2>3. QED
      BY <1>2, <2>1, <2>2 DEF Register!register
  <1>5. CASE DeleteModule(t)
    <2>1. module.status # "deleted" /\ pages' = Empty
      BY <1>3, <1>5 DEF DeleteModule, Handles, Accepts
    <2>2. module'.status = "deleted" /\ module'.revision = module.revision
      BY <1>1, <1>5 DEF DeleteModule, ModuleRow
    <2>3. QED
      BY <1>2, <2>1, <2>2 DEF Register!Retire
  <1>6. QED
    BY <1>4, <1>5

\* The handlers, their lock and the screens implement the register that is
\* written only by somebody looking at it.
THEOREM DraftRefinesRegister == Spec => ImplementsRegister
  <1>1. Init => Register!Init
    BY DEF Init, Register!Init, NewModule
  <1>2. DraftInv /\ [Next]_vars => [Register!Next]_Register!register
    <2> SUFFICES ASSUME DraftInv, [Next]_vars
                 PROVE  Register!Next \/ UNCHANGED Register!register
      OBVIOUS
    <2>1. CASE UNCHANGED vars
      BY <2>1 DEF vars, Register!register
    <2>2. ASSUME NEW t \in Tabs,
                 LoadModule(t) \/ Send(t) \/ Lock(t) \/ Refuse(t)
                 \/ Abort(t) \/ LoseAnswer(t)
          PROVE  UNCHANGED Register!register
      BY <2>2 DEF LoadModule, Send, Lock, Refuse, Abort, LoseAnswer, Register!register
    <2>3. ASSUME NEW t \in Tabs, LoadPages(t) \/ Answer(t)
          PROVE  Register!Next
      BY <2>3, SeeStep DEF LoadPages, Answer, Register!Next
    <2>4. ASSUME NEW t \in Tabs, Commit(t)
          PROVE  Register!Next \/ UNCHANGED Register!register
      <3>1. CASE PublishModule(t) \/ UnpublishModule(t) \/ DeleteModule(t)
        BY <3>1, ModuleWriteStep DEF Register!Next
      <3>2. CASE CreatePage(t) \/ UpdatePage(t) \/ ReorderPages(t) \/ DeletePage(t)
        <4>1. PICK kind \in PageWrites : Handles(t, kind) /\ CommitsPages(t)
          BY <3>2 DEF CreatePage, UpdatePage, ReorderPages, DeletePage, PageWrites
        <4>2. QED
          BY <4>1, WriteStep DEF Register!Next
      <3>3. QED
        BY <2>4, <3>1, <3>2 DEF Commit
    <2>5. QED
      BY <2>1, <2>2, <2>3, <2>4 DEF Next
  <1>3. QED
    BY <1>1, <1>2, DraftInvariant, PTL DEF Spec, Register!Spec, ImplementsRegister

-----------------------------------------------------------------------------
(* What is kept.                                                           *)

Positions(rows) == {rows[p].position : p \in DOMAIN rows}

\* A delete of the module leaves nothing, and ids are not used again.
NothingLeft ==
    /\ module.status = "deleted" => pages = Empty /\ versions = {}
    /\ DOMAIN pages \subseteq used

FewVersions == IsFiniteSet(versions)

\* A reorder in flight swaps two neighbours of what its screen still shows.
OrdersAreSwaps ==
    \A t \in Tabs :
        pc[t] \in {"waiting", "locked"} /\ op[t].kind = "reorder" =>
            \E p, q \in DOMAIN tab[t].seen :
                /\ tab[t].seen[q].position = tab[t].seen[p].position + 1
                /\ op[t].order = Swapped(tab[t].seen, p, q)

ContentsInv ==
    NothingLeft /\ FewVersions /\ OrdersAreSwaps /\ VersionNumbering /\ ContiguousPositions

LEMMA ContentsInit == Init => ContentsInv
<1>. SUFFICES ASSUME Init PROVE ContentsInv
  OBVIOUS
<1>1. DOMAIN pages = {} /\ versions = {} /\ pages = Empty
  BY DEF Init, Empty
<1>2. Cardinality(DOMAIN pages) = 0 /\ Cardinality(versions) = 0 /\ IsFiniteSet(versions)
  BY <1>1, FS_EmptySet
<1>3. module.status = "draft" /\ \A t \in Tabs : pc[t] = "idle"
  BY DEF Init, NewModule
<1>4. VersionNumbering
  BY <1>1, <1>2, <1>3 DEF VersionNumbering
<1>5. ContiguousPositions
  BY <1>1, <1>2, MaxPagesAssumption DEF ContiguousPositions
<1>. QED
  BY <1>1, <1>2, <1>3, <1>4, <1>5 DEF ContentsInv, NothingLeft, FewVersions, OrdersAreSwaps

-----------------------------------------------------------------------------
(* Counting.                                                               *)

LEMMA DraftIsFinite ==
    ASSUME NEW rows, IsDraft(rows)
    PROVE  IsFiniteSet(DOMAIN rows) /\ Cardinality(DOMAIN rows) \in Nat
BY PageIdsAssumption, FS_Subset, FS_CardinalityType DEF IsDraft

\* Rows whose positions have no gap have no two of one position.
LEMMA NoRepeat ==
    ASSUME NEW rows, IsDraft(rows), NEW n \in Nat, n = Cardinality(DOMAIN rows),
           Positions(rows) = 0..(n - 1), NEW p \in DOMAIN rows, NEW q \in DOMAIN rows,
           rows[p].position = rows[q].position
    PROVE  p = q
<1>. DEFINE f == [r \in DOMAIN rows |-> rows[r].position]
<1>1. IsFiniteSet(DOMAIN rows)
  BY DraftIsFinite
<1>2. Cardinality(0..(n - 1)) = n
  BY FS_Interval
<1>3. f \in Surjection(DOMAIN rows, 0..(n - 1))
  BY DEF Positions, Surjection
<1>4. f \in Injection(DOMAIN rows, 0..(n - 1))
  BY <1>1, <1>2, <1>3, FS_SurjSameCardinalityImpliesInj
<1>. QED
  BY <1>4 DEF Injection, IsInjective

LEMMA IntervalSize ==
    ASSUME NEW n \in Nat
    PROVE  IsFiniteSet(0..(n - 1)) /\ Cardinality(0..(n - 1)) = n
BY FS_Interval

\* How many rows but one are before a position.
LEMMA Before ==
    ASSUME NEW rows, IsDraft(rows), NEW n \in Nat, n = Cardinality(DOMAIN rows),
           Positions(rows) = 0..(n - 1), NEW gone \in DOMAIN rows, NEW i \in 0..(n - 1),
           i # rows[gone].position
    PROVE  LET before == Cardinality({q \in DOMAIN rows \ {gone} : rows[q].position < i}) IN
           /\ i < rows[gone].position => before = i
           /\ i > rows[gone].position => before = i - 1
<1>. DEFINE k == rows[gone].position
            B == {q \in DOMAIN rows \ {gone} : rows[q].position < i}
            T == (0..(i - 1)) \ {k}
            f == [q \in B |-> rows[q].position]
<1>1. k \in 0..(n - 1) /\ \A q \in DOMAIN rows : rows[q].position \in 0..(n - 1)
  BY DEF Positions
<1>2. \A p, q \in DOMAIN rows : rows[p].position = rows[q].position => p = q
  BY NoRepeat
<1>3. f \in [B -> T]
  BY <1>1, <1>2
<1>4. \A j \in T : \E q \in B : f[q] = j
  <2>. SUFFICES ASSUME NEW j \in T PROVE \E q \in B : f[q] = j
    OBVIOUS
  <2>1. j \in 0..(n - 1) /\ j < i /\ j # k
    OBVIOUS
  <2>2. PICK q \in DOMAIN rows : rows[q].position = j
    BY <2>1 DEF Positions
  <2>. QED  BY <2>1, <2>2
<1>5. ExistsBijection(B, T)
  <2>1. f \in Injection(B, T)
    BY <1>2, <1>3 DEF Injection, IsInjective
  <2>2. f \in Surjection(B, T)
    BY <1>3, <1>4 DEF Surjection
  <2>. QED  BY <2>1, <2>2 DEF ExistsBijection, Bijection
<1>6. IsFiniteSet(B)
  BY DraftIsFinite, FS_Subset
<1>7. Cardinality(B) = Cardinality(T)
  BY <1>5, <1>6, FS_Bijection
<1>8. (i < k => Cardinality(T) = i) /\ (i > k => Cardinality(T) = i - 1)
  <2>1. i \in Nat /\ i - 1 \in Int /\ k \in Nat
    BY <1>1
  <2>2. IsFiniteSet(0..(i - 1)) /\ Cardinality(0..(i - 1)) = i
    <3>. HIDE DEF k, B, T, f
    <3>. QED  BY <2>1, IntervalSize
  <2>3. (i > k <=> k \in 0..(i - 1)) /\ (i < k => k \notin 0..(i - 1))
    BY <2>1
  <2>4. Cardinality(T) = IF k \in 0..(i - 1) THEN Cardinality(0..(i - 1)) - 1 ELSE Cardinality(0..(i - 1))
    BY <2>2, FS_RemoveElement
  <2>. QED  BY <2>1, <2>2, <2>3, <2>4
<1>. QED
  BY <1>7, <1>8

\* What delete_page leaves has no gap again.
LEMMA Renumbers ==
    ASSUME NEW rows, IsDraft(rows), Positions(rows) = 0..(Cardinality(DOMAIN rows) - 1),
           NEW gone \in DOMAIN rows,
           NEW kept, DOMAIN kept = DOMAIN rows \ {gone}, \A p \in DOMAIN kept : kept[p] = rows[p]
    PROVE  /\ Cardinality(DOMAIN Renumbered(kept)) = Cardinality(DOMAIN rows) - 1
           /\ Positions(Renumbered(kept)) = 0..(Cardinality(DOMAIN rows) - 2)
<1>0. PICK n, rest : n \in Nat /\ n = Cardinality(DOMAIN rows) /\ rest = Renumbered(kept)
  BY DraftIsFinite
<1>00. Positions(rows) = 0..(n - 1)
  BY <1>0
<1>. USE <1>0, <1>00
<1>. DEFINE k == rows[gone].position
<1>1. /\ DOMAIN rest = DOMAIN rows \ {gone}
      /\ \A p \in DOMAIN rest :
            rest[p].position = Cardinality({q \in DOMAIN rows \ {gone} : rows[q].position < rows[p].position})
  <2>1. DOMAIN kept = DOMAIN rows \ {gone} /\ \A p \in DOMAIN kept : kept[p] = rows[p]
    OBVIOUS
  <2>2. DOMAIN rest = DOMAIN kept
    BY DEF Renumbered
  <2>3. ASSUME NEW p \in DOMAIN rest
        PROVE  rest[p].position = Cardinality({q \in DOMAIN rows \ {gone} : rows[q].position < rows[p].position})
    <3>1. rest[p] = [rows[p] EXCEPT !.position =
                        Cardinality({q \in DOMAIN rows \ {gone} : rows[q].position < rows[p].position})]
      <4>1. {q \in DOMAIN kept : kept[q].position < kept[p].position}
            = {q \in DOMAIN rows \ {gone} : rows[q].position < rows[p].position}
        BY <2>1, <2>2, <2>3
      <4>2. rest[p] = [kept[p] EXCEPT !.position =
                          Cardinality({q \in DOMAIN kept : kept[q].position < kept[p].position})]
        BY <2>2, <2>3 DEF Renumbered
      <4>. QED  BY <2>1, <2>2, <2>3, <4>1, <4>2
    <3>2. rows[p] \in PageRow
      BY <2>1, <2>2, <2>3 DEF IsDraft
    <3>. QED  BY <3>1, <3>2 DEF PageRow
  <2>. QED  BY <2>1, <2>2, <2>3
<1>2. \A p, q \in DOMAIN rows : rows[p].position = rows[q].position => p = q
  BY NoRepeat
<1>3. k \in 0..(n - 1) /\ \A q \in DOMAIN rows : rows[q].position \in 0..(n - 1)
  BY DEF Positions
<1>4. ASSUME NEW p \in DOMAIN rest
      PROVE  /\ rows[p].position < k => rest[p].position = rows[p].position
             /\ rows[p].position > k => rest[p].position = rows[p].position - 1
  <2>1. p \in DOMAIN rows /\ p # gone
    BY <1>1, <1>4
  <2>2. rows[p].position \in 0..(n - 1) /\ rows[p].position # k
    BY <1>2, <1>3, <2>1
  <2>3. LET before == Cardinality({q \in DOMAIN rows \ {gone} : rows[q].position < rows[p].position}) IN
        /\ rows[p].position < k => before = rows[p].position
        /\ rows[p].position > k => before = rows[p].position - 1
    BY <2>2, Before
  <2>. QED  BY <1>1, <1>4, <2>3
<1>5. Cardinality(DOMAIN rest) = n - 1
  BY <1>1, DraftIsFinite, FS_RemoveElement
<1>6. Positions(rest) \subseteq 0..(n - 2)
  <2>. SUFFICES ASSUME NEW p \in DOMAIN rest PROVE rest[p].position \in 0..(n - 2)
    BY DEF Positions
  <2>1. rows[p].position \in 0..(n - 1) /\ rows[p].position # k
    BY <1>1, <1>2, <1>3
  <2>2. CASE rows[p].position < k
    <3>1. rest[p].position = rows[p].position
      BY <1>4, <2>2
    <3>. QED  BY <1>3, <2>1, <2>2, <3>1
  <2>3. CASE rows[p].position > k
    <3>1. rest[p].position = rows[p].position - 1
      BY <1>4, <2>3
    <3>. QED  BY <1>3, <2>1, <2>3, <3>1
  <2>. QED  BY <1>3, <2>1, <2>2, <2>3
<1>7. ASSUME NEW i \in 0..(n - 2) PROVE i \in Positions(rest)
  <2>. DEFINE j == IF i < k THEN i ELSE i + 1
  <2>1. j \in 0..(n - 1) /\ j # k
    BY <1>3
  <2>2. PICK p \in DOMAIN rows : rows[p].position = j
    BY <2>1 DEF Positions
  <2>3. p \in DOMAIN rest
    BY <1>1, <2>1, <2>2
  <2>4. rest[p].position = i
    <3>1. CASE i < k
      BY <1>4, <2>2, <2>3, <3>1
    <3>2. CASE ~(i < k)
      <4>1. rows[p].position = i + 1 /\ i + 1 > k
        BY <1>3, <2>2, <3>2
      <4>2. rest[p].position = rows[p].position - 1
        BY <1>3, <1>4, <2>3, <4>1
      <4>. QED  BY <4>1, <4>2
    <3>. QED  BY <3>1, <3>2
  <2>. QED  BY <2>3, <2>4 DEF Positions
<1>. QED
  BY <1>5, <1>6, <1>7

\* Two positions swapped are the same positions.
LEMMA SwapsKeep ==
    ASSUME NEW rows, IsDraft(rows), NEW p \in DOMAIN rows, NEW q \in DOMAIN rows,
           rows[q].position = rows[p].position + 1,
           NEW moved, DOMAIN moved = DOMAIN rows,
           \A r \in DOMAIN rows : moved[r].position = Swapped(rows, p, q)[r]
    PROVE  Positions(moved) = Positions(rows)
<1>1. p # q
  BY DEF IsDraft, PageRow
<1>2. /\ moved[p].position = rows[q].position /\ moved[q].position = rows[p].position
      /\ \A r \in DOMAIN rows \ {p, q} : moved[r].position = rows[r].position
  BY <1>1 DEF Swapped
<1>. QED
  BY <1>2 DEF Positions

-----------------------------------------------------------------------------
(* Every step.                                                             *)

\* Only a handler's commit writes rows.
LEMMA OnlyCommits ==
    ASSUME [Next]_vars
    PROVE  \/ \E t \in Tabs : Commit(t)
           \/ UNCHANGED <<module, pages, used, versions>>
BY DEF Next, vars, LoadModule, LoadPages, Send, Lock, Refuse, Abort, Answer, LoseAnswer

\* What a commit of a page write leaves of the module.
LEMMA PageWriteKeeps ==
    ASSUME DraftInv, NEW t \in Tabs,
           CreatePage(t) \/ UpdatePage(t) \/ ReorderPages(t) \/ DeletePage(t)
    PROVE  /\ read[t] = Current /\ lock = t
           /\ module.status # "deleted" /\ tab[t].seen = pages
           /\ module'.status = module.status /\ module'.current = module.current
           /\ module'.revision = module.revision + 1
           /\ versions' = versions /\ op' = op /\ tab' = tab
<1>1. PICK kind \in PageWrites : Handles(t, kind) /\ CommitsPages(t)
  BY DEF CreatePage, UpdatePage, ReorderPages, DeletePage, PageWrites
<1>2. op[t].kind = kind
  BY <1>1 DEF Handles
<1>3. /\ lock = t /\ read[t] = Current
      /\ module.status # "deleted" /\ tab[t].token = module.revision
      /\ module'.revision = module.revision + 1 /\ module'.status = module.status
  BY <1>1, <1>2, LockedHandler, ClaimedCommit
<1>4. module'.current = module.current /\ versions' = versions /\ op' = op /\ tab' = tab
  BY <1>1 DEF CommitsPages, DraftInv, TypeOK, ModuleRow
<1>. QED
  BY <1>3, <1>4 DEF DraftInv, TokenVouchesForView

LEMMA OrdersStep == ASSUME DraftInv, OrdersAreSwaps, [Next]_vars PROVE OrdersAreSwaps'
<1>. SUFFICES ASSUME NEW t \in Tabs, pc'[t] \in {"waiting", "locked"}, op'[t].kind = "reorder"
              PROVE  \E p, q \in DOMAIN tab'[t].seen :
                        /\ tab'[t].seen[q].position = tab'[t].seen[p].position + 1
                        /\ op'[t].order = Swapped(tab'[t].seen, p, q)
  BY DEF OrdersAreSwaps, Swapped
<1>1. CASE pc'[t] = pc[t] /\ op'[t] = op[t] /\ tab'[t] = tab[t]
  BY <1>1 DEF OrdersAreSwaps
<1>2. CASE Lock(t)
  BY <1>2 DEF Lock, OrdersAreSwaps
<1>3. CASE Send(t)
  <2>1. PICK request \in Requests(tab[t].seen) : op' = [op EXCEPT ![t] = request]
    BY <1>3 DEF Send
  <2>2. op'[t] = request /\ tab'[t] = tab[t] /\ request.kind = "reorder"
    BY <1>3, <2>1 DEF Send, DraftInv, TypeOK
  <2>3. PICK pq \in {xy \in (DOMAIN tab[t].seen) \X (DOMAIN tab[t].seen) :
                      tab[t].seen[xy[2]].position = tab[t].seen[xy[1]].position + 1} :
           request = [kind |-> "reorder", page |-> None, order |-> Swapped(tab[t].seen, pq[1], pq[2])]
    BY <2>1, <2>2 DEF Requests, ModuleWrites
  <2>. QED  BY <2>2, <2>3
<1>4. ASSUME NEW u \in Tabs, u # t,
             \/ LoadModule(u) \/ LoadPages(u) \/ Send(u) \/ Lock(u) \/ Commit(u)
             \/ Refuse(u) \/ Abort(u) \/ Answer(u) \/ LoseAnswer(u)
      PROVE  pc'[t] = pc[t] /\ op'[t] = op[t] /\ tab'[t] = tab[t]
  <2>. USE DEF DraftInv, TypeOK, Ends
  <2>1. CASE Commit(u)
    BY <1>4, <2>1 DEF Commit, CreatePage, UpdatePage, ReorderPages, DeletePage, CommitsPages,
                      PublishModule, UnpublishModule, DeleteModule, CommitsModule
  <2>. QED  BY <1>4, <2>1 DEF LoadModule, LoadPages, Send, Lock, Refuse, Abort, Answer, LoseAnswer
<1>5. ASSUME \/ LoadModule(t) \/ LoadPages(t) \/ Commit(t)
             \/ Refuse(t) \/ Abort(t) \/ Answer(t) \/ LoseAnswer(t)
      PROVE  FALSE
  <2>1. pc'[t] \in {"idle", "loading", "answering"}
    BY <1>5 DEF DraftInv, TypeOK, Ends, LoadModule, LoadPages, Refuse, Abort, Answer, LoseAnswer,
                Commit, CreatePage, UpdatePage, ReorderPages, DeletePage, CommitsPages,
                PublishModule, UnpublishModule, DeleteModule, CommitsModule
  <2>. QED  BY <2>1
<1>6. CASE UNCHANGED vars
  BY <1>1, <1>6 DEF vars
<1>. QED
  BY <1>1, <1>2, <1>3, <1>4, <1>5, <1>6 DEF Next

\* publish_module counts the versions there are.
LEMMA HighestIsCount ==
    ASSUME FewVersions, VersionNumbering
    PROVE  Highest = Cardinality(versions) /\ Cardinality(versions) \in Nat
<1>. DEFINE c == Cardinality(versions)
            numbers == {v.number : v \in versions}
<1>1. c \in Nat /\ numbers = 1..c
  BY FS_CardinalityType DEF FewVersions, VersionNumbering
<1>2. CASE versions = {}
  BY <1>2, FS_EmptySet DEF Highest
<1>3. CASE versions # {}
  <2>1. c \in numbers /\ \A v \in versions : v.number <= c
    BY <1>1, <1>3, FS_EmptySet
  <2>2. Highest \in numbers /\ \A v \in versions : v.number <= Highest
    BY <1>3, <2>1 DEF Highest
  <2>. QED  BY <1>1, <2>1, <2>2
<1>. QED
  BY <1>1, <1>2, <1>3

LEMMA PublishCommits ==
    ASSUME DraftInv, ContentsInv, NEW t \in Tabs, PublishModule(t)
    PROVE  LET c == Cardinality(versions)
               version == [number |-> c + 1, text |-> pages]
           IN  /\ module.status # "deleted" /\ module' = [module EXCEPT !.status = "published", !.current = c + 1]
               /\ versions' = versions \cup {version} /\ version \notin versions
               /\ \A v \in versions : v.number # c + 1
               /\ pages' = pages /\ used' = used
<1>1. read[t] = Current /\ op[t].kind = "publish" /\ Accepts(t)
  BY LockedHandler DEF PublishModule, Handles
<1>2. module.status # "deleted"
  BY <1>1 DEF Accepts, Editable, Current
<1>3. Highest = Cardinality(versions) /\ Cardinality(versions) \in Nat
  BY HighestIsCount DEF ContentsInv
<1>4. \A v \in versions : v.number \in 1..Cardinality(versions)
  BY DEF ContentsInv, VersionNumbering
<1>. QED
  BY <1>1, <1>2, <1>3, <1>4 DEF PublishModule, CommitsModule, Current

LEMMA VersionsStep ==
    ASSUME DraftInv, ContentsInv, [Next]_vars
    PROVE  FewVersions' /\ VersionNumbering'
<1>. USE DEF ContentsInv
<1>1. ASSUME NEW t \in Tabs, PublishModule(t) PROVE FewVersions' /\ VersionNumbering'
  <2>. DEFINE c == Cardinality(versions)
  <2>1. PICK version \in {[number |-> c + 1, text |-> pages]} :
           /\ versions' = versions \cup {version} /\ version \notin versions
           /\ module' = [module EXCEPT !.status = "published", !.current = c + 1]
    BY <1>1, PublishCommits
  <2>2. c \in Nat /\ IsFiniteSet(versions') /\ Cardinality(versions') = c + 1
    BY <2>1, FS_AddElement, FS_CardinalityType DEF FewVersions
  <2>3. {v.number : v \in versions'} = (1..c) \cup {c + 1}
    BY <2>1 DEF VersionNumbering
  <2>4. (1..c) \cup {c + 1} = 1..(c + 1)
    BY <2>2
  <2>5. module'.current = c + 1
    BY <2>1 DEF DraftInv, TypeOK, ModuleRow
  <2>. QED  BY <2>2, <2>3, <2>4, <2>5 DEF FewVersions, VersionNumbering
<1>2. ASSUME NEW t \in Tabs, UnpublishModule(t) PROVE FewVersions' /\ VersionNumbering'
  BY <1>2 DEF UnpublishModule, FewVersions, VersionNumbering, DraftInv, TypeOK, ModuleRow
<1>3. ASSUME NEW t \in Tabs, DeleteModule(t) PROVE FewVersions' /\ VersionNumbering'
  <2>1. versions' = {} /\ module'.status = "deleted"
    BY <1>3 DEF DeleteModule, DraftInv, TypeOK, ModuleRow
  <2>. QED  BY <2>1, FS_EmptySet DEF FewVersions, VersionNumbering
<1>4. ASSUME NEW t \in Tabs, CreatePage(t) \/ UpdatePage(t) \/ ReorderPages(t) \/ DeletePage(t)
      PROVE  FewVersions' /\ VersionNumbering'
  BY <1>4, PageWriteKeeps DEF FewVersions, VersionNumbering
<1>5. CASE UNCHANGED <<module, pages, used, versions>>
  BY <1>5 DEF FewVersions, VersionNumbering
<1>. QED
  BY <1>1, <1>2, <1>3, <1>4, <1>5, OnlyCommits DEF Commit

\* Each page write keeps the numbering.
LEMMA PagesStep ==
    ASSUME DraftInv, ContentsInv, [Next]_vars
    PROVE  ContiguousPositions'
<1>. DEFINE n == Cardinality(DOMAIN pages)
<1>0. /\ IsDraft(pages) /\ n \in Nat /\ n <= MaxPages /\ Positions(pages) = 0..(n - 1)
      /\ IsFiniteSet(DOMAIN pages) /\ DOMAIN pages \subseteq used
      /\ \A p \in DOMAIN pages : pages[p] \in PageRow
  BY DraftIsFinite DEF DraftInv, TypeOK, ContentsInv, NothingLeft, ContiguousPositions, Positions, IsDraft
<1>1. ASSUME Cardinality(DOMAIN pages') = n, Positions(pages)' = Positions(pages)
      PROVE  ContiguousPositions'
  BY <1>0, <1>1 DEF ContiguousPositions, Positions
<1>2. ASSUME NEW t \in Tabs, CreatePage(t) PROVE ContiguousPositions'
  <2>1. read[t].pages = pages /\ op[t].kind = "create" /\ Accepts(t)
    BY <1>2, PageWriteKeeps DEF Current, CreatePage, Handles
  <2>2. n < MaxPages
    BY <2>1 DEF Accepts
  <2>3. PICK p \in PageIds \ used :
          pages' = [q \in DOMAIN pages \cup {p} |->
                        IF q = p THEN [position |-> n, body |-> Written(t)] ELSE pages[q]]
    BY <1>2, <2>1 DEF CreatePage
  <2>4. p \notin DOMAIN pages
    BY <1>0
  <2>5. DOMAIN pages' = DOMAIN pages \cup {p} /\ Cardinality(DOMAIN pages') = n + 1
    BY <1>0, <2>3, <2>4, FS_AddElement
  <2>6. Positions(pages)' = Positions(pages) \cup {n}
    BY <2>3, <2>4 DEF Positions
  <2>7. (0..(n - 1)) \cup {n} = 0..n
    BY <1>0
  <2>8. (n + 1) - 1 = n /\ n + 1 <= MaxPages
    BY <1>0, <2>2, MaxPagesAssumption
  <2>. QED  BY <1>0, <2>5, <2>6, <2>7, <2>8 DEF ContiguousPositions, Positions
<1>3. ASSUME NEW t \in Tabs, UpdatePage(t) PROVE ContiguousPositions'
  <2>1. PICK b : pages' = [pages EXCEPT ![op[t].page].body = b]
    BY <1>3 DEF UpdatePage
  <2>2. DOMAIN pages' = DOMAIN pages /\ \A p \in DOMAIN pages : pages'[p].position = pages[p].position
    BY <1>0, <2>1 DEF PageRow
  <2>. QED  BY <1>1, <2>2 DEF Positions
<1>4. ASSUME NEW t \in Tabs, ReorderPages(t) PROVE ContiguousPositions'
  <2>1. tab[t].seen = pages /\ pc[t] = "locked" /\ op[t].kind = "reorder"
    BY <1>4, PageWriteKeeps DEF ReorderPages, Handles
  <2>2. PICK p, q \in DOMAIN pages : pages[q].position = pages[p].position + 1
                                    /\ op[t].order = Swapped(pages, p, q)
    BY <2>1 DEF ContentsInv, OrdersAreSwaps
  <2>3. DOMAIN op[t].order = DOMAIN pages
    BY <2>2 DEF Swapped
  <2>4. DOMAIN pages' = DOMAIN pages /\ \A r \in DOMAIN pages : pages'[r].position = op[t].order[r]
    BY <1>0, <1>4, <2>3 DEF ReorderPages, PageRow
  <2>5. Positions(pages)' = Positions(pages)
    <3>1. PICK moved : moved = pages'
      OBVIOUS
    <3>2. Positions(moved) = Positions(pages)
      BY <1>0, <2>2, <2>4, <3>1, SwapsKeep
    <3>. QED  BY <3>1, <3>2 DEF Positions
  <2>. QED  BY <1>1, <2>4, <2>5
<1>5. ASSUME NEW t \in Tabs, DeletePage(t) PROVE ContiguousPositions'
  <2>1. PICK gone \in DOMAIN pages : gone = op[t].page
    BY <1>5, PageWriteKeeps DEF DeletePage, Handles, Accepts, Current
  <2>2. PICK kept :
            kept = [p \in DOMAIN pages \ {gone} |-> pages[p]] /\ pages' = Renumbered(kept)
    BY <1>5, <2>1 DEF DeletePage
  <2>3. DOMAIN kept = DOMAIN pages \ {gone} /\ \A p \in DOMAIN kept : kept[p] = pages[p]
    BY <2>2
  <2>4. /\ Cardinality(DOMAIN Renumbered(kept)) = n - 1
        /\ Positions(Renumbered(kept)) = 0..(n - 2)
    BY <1>0, <2>3, Renumbers
  <2>5. n - 1 <= MaxPages /\ (n - 1) - 1 = n - 2
    BY <1>0, MaxPagesAssumption
  <2>. QED  BY <2>2, <2>4, <2>5 DEF ContiguousPositions, Positions
<1>6. ASSUME NEW t \in Tabs, PublishModule(t) \/ UnpublishModule(t) PROVE ContiguousPositions'
  BY <1>1, <1>6 DEF PublishModule, UnpublishModule, Positions
<1>7. ASSUME NEW t \in Tabs, DeleteModule(t) PROVE ContiguousPositions'
  <2>1. DOMAIN pages' = {}
    BY <1>7 DEF DeleteModule, Empty
  <2>. QED  BY <2>1, FS_EmptySet, MaxPagesAssumption DEF ContiguousPositions
<1>8. CASE UNCHANGED <<module, pages, used, versions>>
  BY <1>1, <1>8 DEF Positions
<1>. QED
  BY <1>2, <1>3, <1>4, <1>5, <1>6, <1>7, <1>8, OnlyCommits DEF Commit

LEMMA LeftStep == ASSUME DraftInv, ContentsInv, [Next]_vars PROVE NothingLeft'
<1>. USE DEF ContentsInv, NothingLeft
<1>1. ASSUME NEW t \in Tabs, CreatePage(t) \/ UpdatePage(t) \/ ReorderPages(t) \/ DeletePage(t)
      PROVE  NothingLeft'
  <2>1. DOMAIN pages' \subseteq used'
    BY <1>1 DEF CreatePage, UpdatePage, ReorderPages, DeletePage, Renumbered
  <2>. QED  BY <1>1, <2>1, PageWriteKeeps
<1>2. ASSUME NEW t \in Tabs, PublishModule(t) PROVE NothingLeft'
  BY <1>2, PublishCommits DEF DraftInv, TypeOK, ModuleRow
<1>3. ASSUME NEW t \in Tabs, UnpublishModule(t) PROVE NothingLeft'
  BY <1>3 DEF UnpublishModule, CommitsModule, DraftInv, TypeOK, ModuleRow
<1>4. ASSUME NEW t \in Tabs, DeleteModule(t) PROVE NothingLeft'
  BY <1>4 DEF DeleteModule, CommitsModule, Empty
<1>5. CASE UNCHANGED <<module, pages, used, versions>>
  BY <1>5
<1>. QED
  BY <1>1, <1>2, <1>3, <1>4, <1>5, OnlyCommits DEF Commit

LEMMA ContentsStep == DraftInv /\ ContentsInv /\ [Next]_vars => ContentsInv'
BY VersionsStep, PagesStep, LeftStep, OrdersStep DEF ContentsInv

LEMMA ContentsHold == Spec => [](DraftInv /\ ContentsInv)
BY ContentsInit, ContentsStep, InitInv, NextInv, PTL DEF Spec

-----------------------------------------------------------------------------
(* The theorems.                                                           *)

\* Pages are numbered without a gap and stay within the limit, whatever the
\* creates, deletes and reorders of however many screens.
THEOREM PagesAreContiguous == Spec => []ContiguousPositions
<1>1. ContentsInv => ContiguousPositions
  BY DEF ContentsInv
<1>. QED
  BY <1>1, ContentsHold, PTL

\* Versions are numbered in the order of the publishes, one row each, and the
\* module points at the last.
THEOREM VersionsAreNumbered == Spec => []VersionNumbering
<1>1. ContentsInv => VersionNumbering
  BY DEF ContentsInv
<1>. QED
  BY <1>1, ContentsHold, PTL

\* Pages change only under a claimed revision or with the delete of the module.
THEOREM EditsAreClaimed == Spec => EveryEditIsClaimed
<1>1. ASSUME DraftInv, ContentsInv, [Next]_vars, pages' # pages
      PROVE  module'.revision = module.revision + 1 \/ module'.status = "deleted"
  <2>1. PICK t \in Tabs : Commit(t)
    BY <1>1, OnlyCommits
  <2>2. CASE CreatePage(t) \/ UpdatePage(t) \/ ReorderPages(t) \/ DeletePage(t)
    BY <1>1, <2>2, PageWriteKeeps
  <2>3. CASE DeleteModule(t)
    BY <1>1, <2>3 DEF DeleteModule, DraftInv, TypeOK, ModuleRow
  <2>. QED  BY <1>1, <2>1, <2>2, <2>3 DEF Commit, PublishModule, UnpublishModule
<1>2. DraftInv /\ ContentsInv /\ [Next]_vars =>
        [pages' # pages => module'.revision = module.revision + 1 \/ module'.status = "deleted"]_vars
  BY <1>1
<1>. QED
  BY <1>2, ContentsHold, PTL DEF Spec, EveryEditIsClaimed

\* Nothing brings a deleted module back, or anything of it.
THEOREM DeletedIsFinal == Spec => DeletedIsTerminal
<1>1. ASSUME DraftInv, ContentsInv, [Next]_vars, module.status = "deleted"
      PROVE  module'.status = "deleted"
  <2>1. CASE UNCHANGED <<module, pages, used, versions>>
    BY <1>1, <2>1
  <2>2. ASSUME NEW t \in Tabs, Commit(t) PROVE module'.status = "deleted"
    <3>1. CASE CreatePage(t) \/ UpdatePage(t) \/ ReorderPages(t) \/ DeletePage(t)
      BY <1>1, <3>1, PageWriteKeeps
    <3>2. CASE PublishModule(t)
      BY <1>1, <3>2, PublishCommits
    <3>3. CASE UnpublishModule(t)
      BY <1>1, <3>3, LockedHandler DEF UnpublishModule, Handles, Accepts, Current
    <3>4. CASE DeleteModule(t)
      BY <1>1, <3>4 DEF DeleteModule, DraftInv, TypeOK, ModuleRow
    <3>. QED  BY <2>2, <3>1, <3>2, <3>3, <3>4 DEF Commit
  <2>. QED  BY <1>1, <2>1, <2>2, OnlyCommits
<1>2. DraftInv /\ ContentsInv /\ [Next]_vars =>
        [module.status = "deleted" =>
            module'.status = "deleted" /\ pages' = Empty /\ versions' = {}]_vars
  BY <1>1, ContentsStep DEF ContentsInv, NothingLeft, Empty
<1>. QED
  BY <1>2, ContentsHold, PTL DEF Spec, DeletedIsTerminal

\* What learners are served changes to nothing, or to the draft as it stands.
THEOREM ServingIsPublishing == Spec => ServedOnlyByPublish
<1>1. ASSUME DraftInv, ContentsInv, [Next]_vars, Served' # Served
      PROVE  Served' = {} \/ Served' = {pages}
  <2>1. PICK t \in Tabs : Commit(t)
    BY <1>1, OnlyCommits DEF Served
  <2>2. CASE CreatePage(t) \/ UpdatePage(t) \/ ReorderPages(t) \/ DeletePage(t)
    BY <1>1, <2>2, PageWriteKeeps DEF Served
  <2>3. CASE PublishModule(t)
    <3>. DEFINE c == Cardinality(versions)
    <3>1. PICK version \in {[number |-> c + 1, text |-> pages]} :
             /\ versions' = versions \cup {version} /\ \A v \in versions : v.number # c + 1
             /\ module' = [module EXCEPT !.status = "published", !.current = c + 1]
      BY <1>1, <2>3, PublishCommits
    <3>2. module'.status = "published" /\ module'.current = c + 1
      BY <1>1, <3>1 DEF DraftInv, TypeOK, ModuleRow
    <3>3. {w \in versions' : w.number = c + 1} = {version}
      BY <3>1
    <3>. QED  BY <3>1, <3>2, <3>3 DEF Served
  <2>4. CASE UnpublishModule(t) \/ DeleteModule(t)
    <3>1. module'.status # "published"
      BY <1>1, <2>4 DEF UnpublishModule, DeleteModule, DraftInv, TypeOK, ModuleRow
    <3>. QED  BY <3>1 DEF Served
  <2>. QED  BY <2>1, <2>2, <2>3, <2>4 DEF Commit
<1>2. DraftInv /\ ContentsInv /\ [Next]_vars =>
        [Served' # Served => Served' = {} \/ Served' = {pages}]_vars
  BY <1>1
<1>. QED
  BY <1>2, ContentsHold, PTL DEF Spec, ServedOnlyByPublish
=============================================================================
