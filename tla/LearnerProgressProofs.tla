------------------------ MODULE LearnerProgressProofs ------------------------
(***************************************************************************)
(* What holds of LearnerProgress for every set of learners, of browser     *)
(* tabs and of language variants.  The argument: a claimed row is locked,  *)
(* and what the request read of it is still the case (ClaimInv), because   *)
(* neither another tab nor a reset gets past the lock; so every view the   *)
(* row counts was recorded since the learner was last sent back            *)
(* (ViewsAreRecorded), and a completion, which needs a view of each page   *)
(* of a version that stays as it was published, rests on recorded ones.    *)
(***************************************************************************)
EXTENDS LearnerProgressRefinement, TLAPS

\* The lock is the request's, and what it read of the row is still the case,
\* but for the module of a row it is only inserting.
ClaimInv ==
    \A s \in Viewers : pc[s] = "claimed" =>
        LET row == req[s].row
            now == progress[OwnerOf[s]]
        IN  /\ lock[OwnerOf[s]] = s
            /\ row.viewed = now.viewed
            /\ row.page = now.page
            /\ row.completed = now.completed
            /\ row.number = now.number
            /\ row.of = now.of
            /\ row.superseded = now.superseded
            /\ Started(OwnerOf[s]) => row.module = now.module

\* A request under way is about a version that exists, and a view about a page
\* of that version.
ResolvedInv ==
    \A s \in Viewers : pc[s] # "idle" =>
        /\ req[s].module \in Variants
        /\ req[s].number \in 1..Latest(req[s].module)
        /\ req[s].kind = "view" =>
              req[s].page \in Pages \cap Text(req[s].module, req[s].number)

\* A completion names a version that exists.
CompletedInv ==
    \A l \in Learners : progress[l].completed =>
        /\ progress[l].of \in Variants
        /\ progress[l].number \in 1..Latest(progress[l].of)

\* Every page a row counts as viewed was recorded since the last reset.
ViewsAreRecorded ==
    \A l \in Learners : \A p \in progress[l].viewed :
        \E view \in recorded[l] : view.page = p

\* Nobody attests to a reset that is still to come.
AttestedInv == \A l \in Learners : attested[l] <= resets[l]

\* The inductive invariant.
LearnerInv ==
    /\ TypeOK
    /\ ClaimInv
    /\ ResolvedInv
    /\ CompletedInv
    /\ ViewsAreRecorded
    /\ AttestedInv
    /\ GateIsReal
    /\ SupersededExactly
    /\ BookmarkWasRead

-----------------------------------------------------------------------------
(* Versions only accumulate.                                               *)

Version == [pages : SUBSET Pages, kind : Kinds]

\* A version that exists is a set of pages.
LEMMA TextType ==
    ASSUME TypeOK, NEW v \in Variants, NEW n \in 1..Latest(v)
    PROVE  versions[v][n] \in Version /\ Text(v, n) \subseteq Pages
  <1>1. versions[v] \in Seq(Version)
    BY DEF TypeOK, Version
  <1>2. versions[v][n] \in Version
    BY <1>1 DEF Latest
  <1>3. QED
    BY <1>2 DEF Text, Version

\* What an author can freeze is a set of the variant's pages.
LEMMA DraftType ==
    ASSUME TypeOK, NEW v \in Variants, NEW text \in Drafts(v)
    PROVE  text \subseteq Pages
  <1>1. PagesOf[v] \subseteq Pages
    BY DEF Pages
  <1>2. Latest(v) \in Nat
    BY DEF TypeOK, Latest
  <1>3. CASE Latest(v) = 0
    BY <1>1, <1>3 DEF Drafts
  <1>4. CASE Latest(v) # 0
    <2>1. Latest(v) \in 1..Latest(v)
      BY <1>2, <1>4
    <2>2. Text(v, Latest(v)) \subseteq Pages
      BY <2>1, TextType
    <2>3. QED
      BY <1>1, <1>4, <2>2 DEF Drafts
  <1>5. QED
    BY <1>3, <1>4

\* A publish appends one version and disturbs none.
LEMMA FrozenType ==
    ASSUME TypeOK, NEW v \in Variants, NEW text \in SUBSET Pages, NEW kind \in Kinds
    PROVE  /\ Frozen(v, text, kind) \in Seq(Version)
           /\ Frozen(v, text, kind) # <<>>
           /\ Len(Frozen(v, text, kind)) = Latest(v) + 1
           /\ \A n \in 1..Latest(v) : Frozen(v, text, kind)[n] = versions[v][n]
  <1>1. versions[v] \in Seq(Version)
    BY DEF TypeOK, Version
  <1>2. [pages |-> text, kind |-> kind] \in Version
    BY DEF Version
  <1>3. /\ Append(versions[v], [pages |-> text, kind |-> kind]) \in Seq(Version)
        /\ Len(Append(versions[v], [pages |-> text, kind |-> kind])) = Len(versions[v]) + 1
    BY <1>1, <1>2
  <1>4. \A n \in 1..Len(versions[v]) :
          Append(versions[v], [pages |-> text, kind |-> kind])[n] = versions[v][n]
    BY <1>1, <1>2
  <1>5. Len(versions[v]) \in Nat
    BY <1>1
  <1>6. QED
    BY <1>3, <1>4, <1>5 DEF Frozen, Latest

\* The actions that leave the versions alone.
Others(s) ==
    \/ OpenViewer(s)
    \/ \E p \in Pages : ShowPage(s, p)
    \/ Attest(s)
    \/ \E v \in Variants : ChooseLanguage(s, v)
    \/ ClaimProgress(s)
    \/ RecordPageView(s)
    \/ CompleteModule(s)
    \/ SwitchVariant(s)
    \/ RollBack(s)

LEMMA OthersLeaveVersions ==
    ASSUME NEW s \in Viewers, Others(s)
    PROVE  versions' = versions /\ status' = status /\ reach' = reach
  BY DEF Others, OpenViewer, ShowPage, Attest, ChooseLanguage, ClaimProgress,
     RecordPageView, CompleteModule, SwitchVariant, RollBack, Ends, authoring

\* Every step keeps every version as it was.
LEMMA VersionsAccumulate ==
    ASSUME TypeOK, [Next]_vars, NEW v \in Variants
    PROVE  /\ Latest(v) \in Nat /\ Latest(v)' \in Nat
           /\ Latest(v) <= Latest(v)'
           /\ \A n \in 1..Latest(v) : versions'[v][n] = versions[v][n]
  <1> DEFINE Kept == /\ Latest(v) <= Latest(v)'
                     /\ Latest(v)' \in Nat
                     /\ \A n \in 1..Latest(v) : versions'[v][n] = versions[v][n]
  <1>0. Latest(v) \in Nat
    BY DEF TypeOK, Latest
  <1>1. CASE versions' = versions
    BY <1>0, <1>1 DEF Latest
  <1>2. ASSUME NEW w \in Variants, NEW text \in Drafts(w), NEW kind \in Kinds,
               PublishModule(w, text, kind)
        PROVE  Kept
    <2>1. text \in SUBSET Pages
      BY DraftType
    <2>2. versions' = [versions EXCEPT ![w] = Frozen(w, text, kind)]
      BY <1>2 DEF PublishModule
    <2>3. CASE v # w
      <3>1. versions'[v] = versions[v]
        BY <2>2, <2>3 DEF TypeOK
      <3>2. QED
        BY <3>1, <1>0 DEF Latest
    <2>4. CASE v = w
      <3>1. versions'[v] = Frozen(v, text, kind)
        BY <2>2, <2>4 DEF TypeOK
      <3>2. /\ Len(Frozen(v, text, kind)) = Latest(v) + 1
            /\ \A n \in 1..Latest(v) : Frozen(v, text, kind)[n] = versions[v][n]
        BY <2>1, FrozenType
      <3>3. QED
        BY <3>1, <3>2, <1>0 DEF Latest
    <2>5. QED
      BY <2>3, <2>4
  <1>3. CASE vars' = vars
    BY <1>3, <1>1 DEF vars, authoring
  <1>4. ASSUME NEW w \in Variants,
               StartReset(w) \/ AbandonPublish(w) \/ UnpublishModule(w) \/ DeleteModule(w)
        PROVE  versions' = versions
    BY <1>4 DEF StartReset, AbandonPublish, UnpublishModule, DeleteModule
  <1>5. ASSUME NEW s \in Viewers, Others(s)
        PROVE  versions' = versions
    BY <1>5, OthersLeaveVersions
  <1>6. QED
    BY <1>0, <1>1, <1>2, <1>3, <1>4, <1>5 DEF Next, Publishes, Others

-----------------------------------------------------------------------------
(* What the handlers make of a row.                                        *)

LEMMA EmptyType == NoRow \in Row /\ NoRequest \in Request
  <1>1. NoRow \in Row
    BY DEF NoRow, Row
  <1>2. QED
    BY <1>1 DEF NoRequest, Request

\* _send_learners_back
LEMMA SentBackRow ==
    ASSUME NEW row \in Row
    PROVE  /\ SentBack(row) \in Row
           /\ SentBack(row).viewed = {} /\ SentBack(row).page = None
           /\ SentBack(row).completed = row.completed
           /\ SentBack(row).number = row.number /\ SentBack(row).of = row.of
           /\ SentBack(row).module = row.module
           /\ SentBack(row).superseded = row.completed
  BY DEF Row, SentBack

\* record_page_view
LEMMA ViewedRow ==
    ASSUME NEW s \in Viewers, NEW row \in Row, req[s].page \in Pages
    PROVE  /\ Viewed(s, row) \in Row
           /\ Viewed(s, row).viewed = row.viewed \cup {req[s].page}
           /\ Viewed(s, row).page = req[s].page
           /\ Viewed(s, row).completed = row.completed
           /\ Viewed(s, row).number = row.number /\ Viewed(s, row).of = row.of
           /\ Viewed(s, row).module = row.module
           /\ Viewed(s, row).superseded = row.superseded
  BY DEF Row, Viewed

\* switch_variant_language
LEMMA SwitchedRow ==
    ASSUME NEW row \in Row, NEW v \in Variants
    PROVE  /\ Switched(row, v) \in Row
           /\ Switched(row, v).viewed = IF row.module = v THEN row.viewed ELSE {}
           /\ Switched(row, v).page = IF row.module = v THEN row.page ELSE None
           /\ Switched(row, v).completed = row.completed
           /\ Switched(row, v).number = row.number /\ Switched(row, v).of = row.of
           /\ Switched(row, v).module = v
           /\ Switched(row, v).superseded = row.superseded
  <1>1. CASE row.module = v
    BY <1>1 DEF Row, Switched
  <1>2. CASE row.module # v
    BY <1>2 DEF Row, Switched
  <1>3. QED
    BY <1>1, <1>2

\* complete_module
Completed(s) == [req[s].row EXCEPT !.completed = TRUE, !.number = req[s].number,
                                   !.of = req[s].module, !.superseded = FALSE]

LEMMA CompletedRow ==
    ASSUME TypeOK, NEW s \in Viewers
    PROVE  /\ Completed(s) \in Row
           /\ Completed(s).viewed = req[s].row.viewed
           /\ Completed(s).page = req[s].row.page
           /\ Completed(s).completed = TRUE
           /\ Completed(s).number = req[s].number /\ Completed(s).of = req[s].module
           /\ Completed(s).module = req[s].row.module
           /\ Completed(s).superseded = FALSE
  <1>1. /\ req[s].row \in Row /\ req[s].number \in Nat
        /\ req[s].module \in Variants \cup {None}
    BY DEF TypeOK, Request
  <1>2. QED
    BY <1>1 DEF Row, Completed

\* A request that ends lets go of the row and leaves the other tabs alone.
LEMMA EndsType ==
    ASSUME TypeOK, NEW s \in Viewers, Ends(s)
    PROVE  /\ lock' \in [Learners -> Viewers \cup {None}]
           /\ pc' \in [Viewers -> {"idle", "resolved", "claimed"}]
           /\ req' \in [Viewers -> Request]
           /\ pc'[s] = "idle"
           /\ \A t \in Viewers : t # s => pc'[t] = pc[t] /\ req'[t] = req[t]
           /\ \A l \in Learners : lock[l] # s => lock'[l] = lock[l]
           /\ resets' = resets
           /\ status' = status /\ versions' = versions /\ reach' = reach
  <1>1. /\ pc' \in [Viewers -> {"idle", "resolved", "claimed"}]
        /\ pc'[s] = "idle"
        /\ \A t \in Viewers : t # s => pc'[t] = pc[t]
    BY DEF TypeOK, Ends
  <1>2. /\ req' \in [Viewers -> Request]
        /\ \A t \in Viewers : t # s => req'[t] = req[t]
    BY EmptyType DEF TypeOK, Ends
  <1>3. /\ lock' \in [Learners -> Viewers \cup {None}]
        /\ \A l \in Learners : lock[l] # s => lock'[l] = lock[l]
    BY OwnerAssumption DEF TypeOK, Ends
  <1>4. QED
    BY <1>1, <1>2, <1>3 DEF Ends, authoring

\* A request resolves a published variant, which has a version.
LEMMA PickedType ==
    ASSUME TypeOK, NEW v \in Readable
    PROVE  v \in Variants /\ Latest(v) \in Nat /\ Latest(v) \in 1..Latest(v)
  <1>1. v \in Variants /\ versions[v] # <<>>
    BY DEF Readable, TypeOK
  <1>2. versions[v] \in Seq(Version)
    BY <1>1 DEF TypeOK, Version
  <1>3. QED
    BY <1>1, <1>2 DEF Latest

LEMMA PicksReadable ==
    ASSUME NEW l \in Learners, NEW v \in Picks(l)
    PROVE  v \in Readable
  BY DEF Picks

\* A request that is sent off is about a version that exists.
LEMMA AsksType ==
    ASSUME TypeOK, NEW s \in Viewers, NEW kind \in {"view", "complete", "switch"},
           NEW v \in Readable, NEW p \in Pages \cup {None}, Asks(s, kind, v, p)
    PROVE  /\ pc' \in [Viewers -> {"idle", "resolved", "claimed"}]
           /\ req' \in [Viewers -> Request]
           /\ pc'[s] = "resolved"
           /\ req'[s].module = v /\ req'[s].number = Latest(v)
           /\ req'[s].kind = kind /\ req'[s].page = p
           /\ \A t \in Viewers : t # s => pc'[t] = pc[t] /\ req'[t] = req[t]
  <1> DEFINE new == [kind |-> kind, module |-> v, number |-> Latest(v), page |-> p,
                     shown |-> viewer[s].number, row |-> NoRow]
  <1>1. v \in Variants /\ Latest(v) \in Nat /\ viewer[s].number \in Nat
    BY PickedType DEF TypeOK
  <1>2. new \in Request
    BY <1>1, EmptyType DEF Request
  <1>3. req' = [req EXCEPT ![s] = new] /\ pc' = [pc EXCEPT ![s] = "resolved"]
    BY DEF Asks
  <1>4. QED
    BY <1>2, <1>3 DEF TypeOK

-----------------------------------------------------------------------------
(* What a step can do to one learner's row and its history.                *)

HistoryKept(l) ==
    /\ recorded'[l] = recorded[l]
    /\ resets'[l] = resets[l]
    /\ attested'[l] = attested[l]

Keeps(l) == progress'[l] = progress[l] /\ HistoryKept(l)

SendsBack(l) ==
    /\ lock[l] = None
    /\ progress'[l] = SentBack(progress[l])
    /\ recorded'[l] = {}
    /\ resets'[l] = resets[l] + 1
    /\ attested'[l] = attested[l]

Views(l, s) ==
    /\ OwnerOf[s] = l /\ Claimed(s, "view") /\ pc'[s] = "idle"
    /\ progress'[l] = Viewed(s, req[s].row)
    /\ recorded'[l] = recorded[l] \cup {[page |-> req[s].page, shown |-> req[s].shown]}
    /\ resets'[l] = resets[l] /\ attested'[l] = attested[l]

Completes(l, s) ==
    /\ OwnerOf[s] = l /\ Claimed(s, "complete") /\ pc'[s] = "idle"
    /\ Outstanding(s) = {}
    /\ progress'[l] = Completed(s)
    /\ attested'[l] = resets[l]
    /\ recorded'[l] = recorded[l] /\ resets'[l] = resets[l]

Switches(l, s) ==
    /\ OwnerOf[s] = l /\ Claimed(s, "switch") /\ pc'[s] = "idle"
    /\ req[s].row.module = req[s].module \/ KeyIsFree(req[s].module)
    /\ progress'[l] = Switched(req[s].row, req[s].module)
    /\ HistoryKept(l)

LEMMA RowStep ==
    ASSUME TypeOK, [Next]_vars, NEW l \in Learners
    PROVE  \/ Keeps(l)
           \/ SendsBack(l)
           \/ \E s \in Viewers : Views(l, s) \/ Completes(l, s) \/ Switches(l, s)
  <1> DEFINE Goal == \/ Keeps(l)
                     \/ SendsBack(l)
                     \/ \E s \in Viewers : Views(l, s) \/ Completes(l, s) \/ Switches(l, s)
  <1>1. CASE UNCHANGED <<progress, resets, recorded, attested>>
    BY <1>1 DEF Keeps, HistoryKept
  <1>2. ASSUME NEW v \in Variants, NEW text \in Drafts(v), NEW kind \in Kinds,
               PublishModule(v, text, kind)
        PROVE  Goal
    <2>1. CASE UNCHANGED <<progress, resets, recorded>>
      BY <1>2, <2>1 DEF PublishModule, Keeps, HistoryKept
    <2>2. CASE /\ \A m \in reach[v] : RowIsFree(m)
               /\ progress' = [m \in Learners |->
                     IF m \in reach[v] THEN SentBack(progress[m]) ELSE progress[m]]
               /\ resets' = [m \in Learners |->
                     IF m \in reach[v] THEN resets[m] + 1 ELSE resets[m]]
               /\ recorded' = [m \in Learners |->
                     IF m \in reach[v] THEN {} ELSE recorded[m]]
      <3>1. attested' = attested
        BY <1>2 DEF PublishModule
      <3>2. CASE l \in reach[v]
        BY <2>2, <3>1, <3>2 DEF SendsBack, RowIsFree
      <3>3. CASE l \notin reach[v]
        BY <2>2, <3>1, <3>3 DEF Keeps, HistoryKept
      <3>4. QED
        BY <3>2, <3>3
    <2>3. QED
      BY <1>2, <2>1, <2>2 DEF PublishModule
  <1>3. ASSUME NEW s \in Viewers, RecordPageView(s)
        PROVE  Goal
    <2>1. /\ progress' = [progress EXCEPT ![OwnerOf[s]] = Viewed(s, req[s].row)]
          /\ recorded' = [recorded EXCEPT ![OwnerOf[s]] =
               @ \cup {[page |-> req[s].page, shown |-> req[s].shown]}]
          /\ attested' = attested /\ resets' = resets
          /\ Claimed(s, "view")
      BY <1>3 DEF RecordPageView, Ends
    <2>0. pc'[s] = "idle"
      BY <1>3, EndsType DEF RecordPageView
    <2>2. CASE OwnerOf[s] = l
      BY <2>0, <2>1, <2>2 DEF TypeOK, Views
    <2>3. CASE OwnerOf[s] # l
      BY <2>1, <2>3 DEF TypeOK, Keeps, HistoryKept
    <2>4. QED
      BY <2>2, <2>3
  <1>4. ASSUME NEW s \in Viewers, CompleteModule(s)
        PROVE  Goal
    <2>1. /\ progress' = [progress EXCEPT ![OwnerOf[s]] = Completed(s)]
          /\ attested' = [attested EXCEPT ![OwnerOf[s]] = resets[OwnerOf[s]]]
          /\ recorded' = recorded /\ resets' = resets
          /\ Claimed(s, "complete") /\ Outstanding(s) = {}
      BY <1>4, Zenon DEF CompleteModule, Completed, Ends
    <2>0. pc'[s] = "idle"
      BY <1>4, EndsType DEF CompleteModule
    <2>2. CASE OwnerOf[s] = l
      BY <2>0, <2>1, <2>2 DEF TypeOK, Completes
    <2>3. CASE OwnerOf[s] # l
      BY <2>1, <2>3 DEF TypeOK, Keeps, HistoryKept
    <2>4. QED
      BY <2>2, <2>3
  <1>5. ASSUME NEW s \in Viewers, SwitchVariant(s)
        PROVE  Goal
    <2>1. /\ progress' = [progress EXCEPT ![OwnerOf[s]] =
                            Switched(req[s].row, req[s].module)]
          /\ recorded' = recorded /\ attested' = attested /\ resets' = resets
          /\ Claimed(s, "switch")
          /\ req[s].row.module = req[s].module \/ KeyIsFree(req[s].module)
      BY <1>5 DEF SwitchVariant, Ends
    <2>0. pc'[s] = "idle"
      BY <1>5, EndsType DEF SwitchVariant
    <2>2. CASE OwnerOf[s] = l
      BY <2>0, <2>1, <2>2 DEF TypeOK, Switches, HistoryKept
    <2>3. CASE OwnerOf[s] # l
      BY <2>1, <2>3 DEF TypeOK, Keeps, HistoryKept
    <2>4. QED
      BY <2>2, <2>3
  <1>6. ASSUME NEW v \in Variants,
               StartReset(v) \/ AbandonPublish(v) \/ UnpublishModule(v) \/ DeleteModule(v)
        PROVE  UNCHANGED <<progress, resets, recorded, attested>>
    BY <1>6 DEF StartReset, AbandonPublish, UnpublishModule, DeleteModule, learning, history
  <1>7. ASSUME NEW s \in Viewers,
               \/ OpenViewer(s) \/ Attest(s) \/ ClaimProgress(s) \/ RollBack(s)
               \/ \E p \in Pages : ShowPage(s, p)
               \/ \E v \in Variants : ChooseLanguage(s, v)
        PROVE  UNCHANGED <<progress, resets, recorded, attested>>
    BY <1>7, Zenon DEF OpenViewer, Attest, ClaimProgress, RollBack, ShowPage,
       ChooseLanguage, Ends, history
  <1>8. CASE vars' = vars
    BY <1>1, <1>8 DEF vars, learning, history
  <1>9. CASE Next
    <2>1. CASE \E v \in Variants : \/ Publishes(v) \/ AbandonPublish(v)
                                   \/ UnpublishModule(v) \/ DeleteModule(v)
      BY <2>1, <1>1, <1>2, <1>6 DEF Publishes
    <2>2. CASE \E s \in Viewers : Others(s)
      BY <2>2, <1>1, <1>3, <1>4, <1>5, <1>7 DEF Others
    <2>3. QED
      BY <1>9, <2>1, <2>2, Zenon DEF Next, Others
  <1>10. QED
    BY <1>8, <1>9

-----------------------------------------------------------------------------
(* The invariant's claims about rows, each from the five things that can   *)
(* happen to one.                                                          *)

\* What a claimed request read is what the row holds.
LEMMA ClaimedRow ==
    ASSUME TypeOK, ClaimInv, ResolvedInv, NEW s \in Viewers, pc[s] = "claimed"
    PROVE  /\ req[s].row \in Row /\ progress[OwnerOf[s]] \in Row
           /\ req[s].row.viewed = progress[OwnerOf[s]].viewed
           /\ req[s].row.page = progress[OwnerOf[s]].page
           /\ req[s].row.completed = progress[OwnerOf[s]].completed
           /\ req[s].row.number = progress[OwnerOf[s]].number
           /\ req[s].row.of = progress[OwnerOf[s]].of
           /\ req[s].row.superseded = progress[OwnerOf[s]].superseded
           /\ Started(OwnerOf[s]) => req[s].row.module = progress[OwnerOf[s]].module
           /\ lock[OwnerOf[s]] = s
           /\ req[s].module \in Variants
           /\ req[s].number \in 1..Latest(req[s].module)
           /\ req[s].kind = "view" => req[s].page \in Pages
  <1>1. req[s].row \in Row
    BY DEF TypeOK, Request
  <1>2. progress[OwnerOf[s]] \in Row
    BY OwnerAssumption DEF TypeOK
  <1>3. QED
    BY <1>1, <1>2 DEF ClaimInv, ResolvedInv

\* The row after a committed view, completion or switch, in terms of the row
\* before it.
LEMMA ViewsRow ==
    ASSUME TypeOK, ClaimInv, ResolvedInv, NEW l \in Learners, NEW s \in Viewers, Views(l, s)
    PROVE  /\ req[s].page \in Pages
           /\ progress'[l] \in Row
           /\ progress'[l].viewed = progress[l].viewed \cup {req[s].page}
           /\ progress'[l].page = req[s].page
           /\ progress'[l].completed = progress[l].completed
           /\ progress'[l].number = progress[l].number
           /\ progress'[l].of = progress[l].of
           /\ progress'[l].superseded = progress[l].superseded
           /\ Started(l) => progress'[l].module = progress[l].module
  <1>1. pc[s] = "claimed" /\ req[s].kind = "view" /\ OwnerOf[s] = l
    BY DEF Views, Claimed
  <1>2. QED
    BY <1>1, ClaimedRow, ViewedRow DEF Views

LEMMA CompletesRow ==
    ASSUME TypeOK, ClaimInv, ResolvedInv, NEW l \in Learners, NEW s \in Viewers, Completes(l, s)
    PROVE  /\ progress'[l] \in Row
           /\ progress'[l].viewed = progress[l].viewed
           /\ progress'[l].page = progress[l].page
           /\ progress'[l].completed = TRUE
           /\ progress'[l].number = req[s].number
           /\ progress'[l].of = req[s].module
           /\ progress'[l].superseded = FALSE
           /\ Started(l) => progress'[l].module = progress[l].module
           /\ req[s].module \in Variants
           /\ req[s].number \in 1..Latest(req[s].module)
           /\ Text(req[s].module, req[s].number) \subseteq progress[l].viewed
  <1>1. pc[s] = "claimed" /\ OwnerOf[s] = l
    BY DEF Completes, Claimed
  <1>2. Text(req[s].module, req[s].number) \subseteq req[s].row.viewed
    BY DEF Completes, Outstanding
  <1>3. /\ req[s].row.viewed = progress[l].viewed
        /\ req[s].row.page = progress[l].page
        /\ Started(l) => req[s].row.module = progress[l].module
        /\ req[s].module \in Variants
        /\ req[s].number \in 1..Latest(req[s].module)
    BY <1>1, ClaimedRow
  <1>4. progress'[l] = Completed(s)
    BY DEF Completes
  <1>5. /\ progress'[l] \in Row
        /\ progress'[l].viewed = req[s].row.viewed
        /\ progress'[l].page = req[s].row.page
        /\ progress'[l].number = req[s].number
        /\ progress'[l].of = req[s].module
        /\ progress'[l].module = req[s].row.module
    BY <1>4, CompletedRow
  <1>6. progress'[l].completed = TRUE /\ progress'[l].superseded = FALSE
    BY <1>4, CompletedRow, Zenon
  <1>7. QED
    BY <1>2, <1>3, <1>5, <1>6

LEMMA SwitchesRow ==
    ASSUME TypeOK, ClaimInv, ResolvedInv, NEW l \in Learners, NEW s \in Viewers, Switches(l, s)
    PROVE  /\ progress'[l] \in Row
           /\ progress'[l].viewed \in {progress[l].viewed, {}}
           /\ progress'[l].page # None => /\ progress'[l].page = progress[l].page
                                          /\ progress'[l].viewed = progress[l].viewed
           /\ progress'[l].completed = progress[l].completed
           /\ progress'[l].number = progress[l].number
           /\ progress'[l].of = progress[l].of
           /\ progress'[l].superseded = progress[l].superseded
           /\ progress'[l].module = req[s].module
           /\ Started(l) /\ progress'[l].module = progress[l].module =>
                 progress'[l].viewed = progress[l].viewed
  <1>1. pc[s] = "claimed" /\ OwnerOf[s] = l
    BY DEF Switches, Claimed
  <1>2. progress'[l] = Switched(req[s].row, req[s].module)
    BY DEF Switches
  <1>3. QED
    BY <1>1, <1>2, ClaimedRow, SwitchedRow

LEMMA SendsBackRow ==
    ASSUME TypeOK, NEW l \in Learners, SendsBack(l)
    PROVE  /\ progress'[l] \in Row
           /\ progress'[l].viewed = {} /\ progress'[l].page = None
           /\ progress'[l].completed = progress[l].completed
           /\ progress'[l].number = progress[l].number
           /\ progress'[l].of = progress[l].of
           /\ progress'[l].module = progress[l].module
           /\ progress'[l].superseded = progress[l].completed
  <1>1. progress[l] \in Row
    BY DEF TypeOK
  <1>2. QED
    BY <1>1, SentBackRow DEF SendsBack

LEMMA AttestedStep == LearnerInv /\ [Next]_vars => AttestedInv'
  <1> SUFFICES ASSUME LearnerInv, [Next]_vars, NEW l \in Learners
               PROVE  attested'[l] <= resets'[l]
    BY DEF AttestedInv
  <1>1. attested[l] \in Nat /\ resets[l] \in Nat /\ attested[l] <= resets[l]
    BY DEF LearnerInv, TypeOK, AttestedInv
  <1>2. QED
    BY <1>1, RowStep DEF LearnerInv, Keeps, HistoryKept, SendsBack, Views, Completes, Switches

LEMMA ViewsStep == LearnerInv /\ [Next]_vars => ViewsAreRecorded'
  <1> SUFFICES ASSUME LearnerInv, [Next]_vars, NEW l \in Learners,
                      NEW p \in progress'[l].viewed
               PROVE  \E view \in recorded'[l] : view.page = p
    BY DEF ViewsAreRecorded
  <1>0. TypeOK /\ ClaimInv /\ ResolvedInv /\ ViewsAreRecorded
    BY DEF LearnerInv
  <1>1. CASE Keeps(l)
    BY <1>0, <1>1 DEF Keeps, HistoryKept, ViewsAreRecorded
  <1>2. CASE SendsBack(l)
    BY <1>0, <1>2, SendsBackRow
  <1>3. ASSUME NEW s \in Viewers, Views(l, s)
        PROVE  \E view \in recorded'[l] : view.page = p
    <2>1. progress'[l].viewed = progress[l].viewed \cup {req[s].page}
      BY <1>0, <1>3, ViewsRow
    <2>2. recorded'[l] = recorded[l] \cup {[page |-> req[s].page, shown |-> req[s].shown]}
      BY <1>3 DEF Views
    <2>3. CASE p = req[s].page
      <3>1. [page |-> req[s].page, shown |-> req[s].shown].page = p
        BY <2>3
      <3>2. QED
        BY <2>2, <3>1
    <2>4. CASE p \in progress[l].viewed
      BY <1>0, <2>2, <2>4 DEF ViewsAreRecorded
    <2>5. QED
      BY <2>1, <2>3, <2>4
  <1>4. ASSUME NEW s \in Viewers, Completes(l, s)
        PROVE  \E view \in recorded'[l] : view.page = p
    <2>1. progress'[l].viewed = progress[l].viewed /\ recorded'[l] = recorded[l]
      BY <1>0, <1>4, CompletesRow DEF Completes
    <2>2. QED
      BY <1>0, <2>1 DEF ViewsAreRecorded
  <1>5. ASSUME NEW s \in Viewers, Switches(l, s)
        PROVE  \E view \in recorded'[l] : view.page = p
    <2>1. progress'[l].viewed \in {progress[l].viewed, {}} /\ recorded'[l] = recorded[l]
      BY <1>0, <1>5, SwitchesRow DEF Switches, HistoryKept
    <2>2. QED
      BY <1>0, <2>1 DEF ViewsAreRecorded
  <1>6. QED
    BY <1>0, <1>1, <1>2, <1>3, <1>4, <1>5, RowStep

LEMMA BookmarkStep == LearnerInv /\ [Next]_vars => BookmarkWasRead'
  <1> SUFFICES ASSUME LearnerInv, [Next]_vars, NEW l \in Learners,
                      progress'[l].page # None
               PROVE  progress'[l].page \in progress'[l].viewed
    BY DEF BookmarkWasRead
  <1>0. TypeOK /\ ClaimInv /\ ResolvedInv /\ BookmarkWasRead
    BY DEF LearnerInv
  <1>1. CASE Keeps(l)
    BY <1>0, <1>1 DEF Keeps, BookmarkWasRead
  <1>2. CASE SendsBack(l)
    BY <1>0, <1>2, SendsBackRow
  <1>3. ASSUME NEW s \in Viewers, Views(l, s)
        PROVE  progress'[l].page \in progress'[l].viewed
    BY <1>0, <1>3, ViewsRow
  <1>4. ASSUME NEW s \in Viewers, Completes(l, s)
        PROVE  progress'[l].page \in progress'[l].viewed
    <2>1. progress'[l].viewed = progress[l].viewed /\ progress'[l].page = progress[l].page
      BY <1>0, <1>4, CompletesRow
    <2>2. QED
      BY <1>0, <2>1 DEF BookmarkWasRead
  <1>5. ASSUME NEW s \in Viewers, Switches(l, s)
        PROVE  progress'[l].page \in progress'[l].viewed
    <2>1. progress'[l].viewed = progress[l].viewed /\ progress'[l].page = progress[l].page
      BY <1>0, <1>5, SwitchesRow
    <2>2. QED
      BY <1>0, <2>1 DEF BookmarkWasRead
  <1>6. QED
    BY <1>0, <1>1, <1>2, <1>3, <1>4, <1>5, RowStep

LEMMA SupersededStep == LearnerInv /\ [Next]_vars => SupersededExactly'
  <1> SUFFICES ASSUME LearnerInv, [Next]_vars, NEW l \in Learners,
                      progress'[l].completed
               PROVE  progress'[l].superseded <=> attested'[l] < resets'[l]
    BY DEF SupersededExactly
  <1>0. TypeOK /\ ClaimInv /\ ResolvedInv /\ SupersededExactly
    BY DEF LearnerInv
  <1>1. attested[l] \in Nat /\ resets[l] \in Nat /\ attested[l] <= resets[l]
    BY DEF LearnerInv, TypeOK, AttestedInv
  <1>2. CASE Keeps(l)
    BY <1>0, <1>2 DEF Keeps, HistoryKept, SupersededExactly
  <1>3. CASE SendsBack(l)
    <2>1. progress'[l].superseded = progress'[l].completed
      BY <1>0, <1>3, SendsBackRow
    <2>2. attested'[l] < resets'[l]
      BY <1>1, <1>3 DEF SendsBack
    <2>3. QED
      BY <2>1, <2>2, Zenon
  <1>4. ASSUME NEW s \in Viewers, Views(l, s) \/ Switches(l, s)
        PROVE  progress'[l].superseded <=> attested'[l] < resets'[l]
    <2>1. /\ progress'[l].completed = progress[l].completed
          /\ progress'[l].superseded = progress[l].superseded
      BY <1>0, <1>4, ViewsRow, SwitchesRow
    <2>2. attested'[l] = attested[l] /\ resets'[l] = resets[l]
      BY <1>4 DEF Views, Switches, HistoryKept
    <2>3. QED
      BY <1>0, <2>1, <2>2, Zenon DEF SupersededExactly
  <1>5. ASSUME NEW s \in Viewers, Completes(l, s)
        PROVE  progress'[l].superseded <=> attested'[l] < resets'[l]
    <2>1. progress'[l].superseded = FALSE
      BY <1>0, <1>5, CompletesRow
    <2>2. ~(attested'[l] < resets'[l])
      BY <1>1, <1>5 DEF Completes
    <2>3. QED
      BY <2>1, <2>2, Zenon
  <1>6. QED
    BY <1>0, <1>2, <1>3, <1>4, <1>5, RowStep

LEMMA CompletedStep == LearnerInv /\ [Next]_vars => CompletedInv'
  <1> SUFFICES ASSUME LearnerInv, [Next]_vars, NEW l \in Learners,
                      progress'[l].completed
               PROVE  /\ progress'[l].of \in Variants
                      /\ progress'[l].number \in 1..Len(versions'[progress'[l].of])
    BY Zenon DEF CompletedInv, Latest
  <1>0. TypeOK /\ ClaimInv /\ ResolvedInv /\ CompletedInv
    BY DEF LearnerInv
  <1> DEFINE named(v, n) == v \in Variants /\ n \in 1..Latest(v)
  <1>1. \A v, n : named(v, n) => v \in Variants /\ n \in 1..Len(versions'[v])
    BY <1>0, VersionsAccumulate DEF Latest
  <1>2. CASE /\ progress'[l].completed = progress[l].completed
             /\ progress'[l].of = progress[l].of
             /\ progress'[l].number = progress[l].number
    <2>1. named(progress[l].of, progress[l].number)
      BY <1>0, <1>2 DEF CompletedInv
    <2>2. QED
      BY <1>1, <1>2, <2>1
  <1>3. ASSUME NEW s \in Viewers, Completes(l, s)
        PROVE  /\ progress'[l].of \in Variants
               /\ progress'[l].number \in 1..Len(versions'[progress'[l].of])
    <2>1. /\ progress'[l].of = req[s].module /\ progress'[l].number = req[s].number
          /\ named(req[s].module, req[s].number)
      BY <1>0, <1>3, CompletesRow
    <2>2. QED
      BY <1>1, <2>1
  <1>4. CASE Keeps(l) \/ SendsBack(l) \/ \E s \in Viewers : Views(l, s) \/ Switches(l, s)
    BY <1>0, <1>2, <1>4, SendsBackRow, ViewsRow, SwitchesRow DEF Keeps
  <1>5. QED
    BY <1>0, <1>3, <1>4, RowStep

LEMMA GateStep == LearnerInv /\ [Next]_vars => GateIsReal'
  <1> SUFFICES ASSUME LearnerInv, [Next]_vars, NEW l \in Learners,
                      progress'[l].completed, ~progress'[l].superseded,
                      NEW p \in versions'[progress'[l].of][progress'[l].number].pages
               PROVE  \E view \in recorded'[l] : view.page = p
    BY Zenon DEF GateIsReal, Text
  <1>0. TypeOK /\ ClaimInv /\ ResolvedInv /\ CompletedInv /\ ViewsAreRecorded /\ GateIsReal
    BY DEF LearnerInv
  <1>1. \A v \in Variants : \A n \in 1..Latest(v) : versions'[v][n] = versions[v][n]
    BY <1>0, VersionsAccumulate
  <1>3. CASE /\ progress'[l].completed = progress[l].completed
             /\ progress'[l].superseded = progress[l].superseded
             /\ progress'[l].of = progress[l].of
             /\ progress'[l].number = progress[l].number
             /\ recorded[l] \subseteq recorded'[l]
    <2>1. /\ progress[l].completed /\ ~progress[l].superseded
          /\ progress[l].of \in Variants /\ progress[l].number \in 1..Latest(progress[l].of)
      BY <1>0, <1>3 DEF CompletedInv
    <2>2. p \in Text(progress[l].of, progress[l].number)
      BY <1>1, <1>3, <2>1 DEF Text
    <2>3. \E view \in recorded[l] : view.page = p
      BY <1>0, <2>1, <2>2 DEF GateIsReal
    <2>4. QED
      BY <1>3, <2>3
  <1>4. CASE SendsBack(l)
    BY <1>0, <1>4, SendsBackRow
  <1>5. ASSUME NEW s \in Viewers, Completes(l, s)
        PROVE  \E view \in recorded'[l] : view.page = p
    <2>1. /\ progress'[l].of = req[s].module /\ progress'[l].number = req[s].number
          /\ req[s].module \in Variants /\ req[s].number \in 1..Latest(req[s].module)
          /\ Text(req[s].module, req[s].number) \subseteq progress[l].viewed
      BY <1>0, <1>5, CompletesRow
    <2>2. p \in progress[l].viewed
      BY <1>1, <2>1 DEF Text
    <2>3. recorded'[l] = recorded[l]
      BY <1>5 DEF Completes
    <2>4. QED
      BY <1>0, <2>2, <2>3 DEF ViewsAreRecorded
  <1>6. ASSUME NEW s \in Viewers, Views(l, s)
        PROVE  \E view \in recorded'[l] : view.page = p
    <2>1. recorded[l] \subseteq recorded'[l]
      BY <1>6 DEF Views
    <2>2. QED
      BY <1>0, <1>3, <1>6, <2>1, ViewsRow
  <1>7. ASSUME NEW s \in Viewers, Switches(l, s)
        PROVE  \E view \in recorded'[l] : view.page = p
    <2>1. recorded[l] \subseteq recorded'[l]
      BY <1>7 DEF Switches, HistoryKept
    <2>2. QED
      BY <1>0, <1>3, <1>7, <2>1, SwitchesRow
  <1>8. CASE Keeps(l)
    BY <1>3, <1>8 DEF Keeps, HistoryKept
  <1>9. QED
    BY <1>0, <1>4, <1>5, <1>6, <1>7, <1>8, RowStep

-----------------------------------------------------------------------------
(* What a step can do to one tab's request.                                *)

KeepsRequest(s) ==
    /\ pc'[s] = pc[s]
    /\ req'[s] = req[s]
    /\ lock[OwnerOf[s]] = s => lock'[OwnerOf[s]] = s

Sends(s) ==
    /\ pc'[s] = "resolved"
    /\ req'[s].module \in Variants
    /\ req'[s].number \in 1..Latest(req'[s].module)
    /\ req'[s].kind = "view" =>
          req'[s].page \in Pages \cap Text(req'[s].module, req'[s].number)

TabStep(s) ==
    \/ KeepsRequest(s)
    \/ pc'[s] = "idle"
    \/ Sends(s)
    \/ ClaimProgress(s)

\* A request that is sent off resolves a version that exists.
LEMMA SendsStep ==
    ASSUME TypeOK, NEW s \in Viewers,
           \/ \E p \in Pages : ShowPage(s, p)
           \/ Attest(s)
           \/ \E v \in Variants : ChooseLanguage(s, v)
    PROVE  /\ pc' \in [Viewers -> {"idle", "resolved", "claimed"}]
           /\ req' \in [Viewers -> Request]
           /\ Sends(s)
           /\ \A t \in Viewers : t # s => pc'[t] = pc[t] /\ req'[t] = req[t]
           /\ UNCHANGED <<authoring, progress, lock, viewer, history>>
  <1> DEFINE Goal ==
        /\ pc' \in [Viewers -> {"idle", "resolved", "claimed"}]
        /\ req' \in [Viewers -> Request]
        /\ Sends(s)
        /\ \A t \in Viewers : t # s => pc'[t] = pc[t] /\ req'[t] = req[t]
  <1>0. UNCHANGED <<authoring, progress, lock, viewer, history>>
    BY Zenon DEF ShowPage, Attest, ChooseLanguage
  <1>1. ASSUME NEW kind \in {"view", "complete", "switch"}, NEW v \in Readable,
               NEW p \in Pages \cup {None}, Asks(s, kind, v, p),
               kind = "view" => p \in Pages \cap Text(v, Latest(v))
        PROVE  Goal
    <2>1. v \in Variants /\ Latest(v) \in 1..Latest(v)
      BY PickedType
    <2>2. /\ req'[s].module = v /\ req'[s].number = Latest(v)
          /\ req'[s].kind = kind /\ req'[s].page = p
          /\ pc'[s] = "resolved"
      BY <1>1, AsksType
    <2>3. Sends(s)
      BY <1>1, <2>1, <2>2 DEF Sends
    <2>4. /\ pc' \in [Viewers -> {"idle", "resolved", "claimed"}]
          /\ req' \in [Viewers -> Request]
          /\ \A t \in Viewers : t # s => pc'[t] = pc[t] /\ req'[t] = req[t]
      BY <1>1, AsksType
    <2>5. QED
      BY <2>3, <2>4
  <1>2. OwnerOf[s] \in Learners
    BY OwnerAssumption
  <1>3. ASSUME NEW p \in Pages, ShowPage(s, p) PROVE Goal
    <2>1. PICK v \in Picks(OwnerOf[s]) : p \in Text(v, Latest(v)) /\ Asks(s, "view", v, p)
      BY <1>3 DEF ShowPage
    <2>2. v \in Readable
      BY <1>2, PicksReadable
    <2>3. QED
      BY <1>1, <2>1, <2>2
  <1>4. ASSUME Attest(s) PROVE Goal
    <2>1. PICK v \in Picks(OwnerOf[s]) : Asks(s, "complete", v, None)
      BY <1>4 DEF Attest
    <2>2. v \in Readable
      BY <1>2, PicksReadable
    <2>3. QED
      BY <1>1, <2>1, <2>2
  <1>5. ASSUME NEW v \in Variants, ChooseLanguage(s, v) PROVE Goal
    BY <1>1, <1>5 DEF ChooseLanguage
  <1>6. QED
    BY <1>0, <1>3, <1>4, <1>5

\* The author's steps leave the tabs alone.
AuthorStep(v) ==
    \/ Publishes(v) \/ AbandonPublish(v) \/ UnpublishModule(v) \/ DeleteModule(v)

LEMMA AuthorLeavesTabs ==
    ASSUME NEW v \in Variants, AuthorStep(v)
    PROVE  UNCHANGED <<lock, viewer, pc, req, attested>>
  BY Zenon DEF AuthorStep, Publishes, PublishModule, StartReset, AbandonPublish,
     UnpublishModule, DeleteModule, learning, history

\* A claim reads the row, or the one it inserts, and keeps what was asked.
LEMMA ClaimReads ==
    ASSUME TypeOK, NEW s \in Viewers, ClaimProgress(s)
    PROVE  /\ req'[s].module = req[s].module
           /\ req'[s].row = IF Started(OwnerOf[s]) THEN progress[OwnerOf[s]]
                            ELSE [NoRow EXCEPT !.module = req[s].module]
  <1> DEFINE row == IF Started(OwnerOf[s]) THEN progress[OwnerOf[s]]
                    ELSE [NoRow EXCEPT !.module = req[s].module]
  <1>1. req' = [req EXCEPT ![s].row = row]
    BY Zenon DEF ClaimProgress
  <1>2. req \in [Viewers -> Request]
    BY DEF TypeOK
  <1> HIDE DEF row
  <1>3. req'[s] = [req[s] EXCEPT !.row = row]
    BY <1>1, <1>2, Zenon
  <1>4. req[s] \in Request
    BY <1>2
  <1>5. req'[s].module = req[s].module /\ req'[s].row = row
    BY <1>3, <1>4 DEF Request
  <1>6. QED
    BY <1>5 DEF row

\* Committing and rolling back end the request.
LEMMA CommitEnds ==
    ASSUME NEW s \in Viewers,
           RecordPageView(s) \/ CompleteModule(s) \/ SwitchVariant(s) \/ RollBack(s)
    PROVE  Ends(s)
  BY Zenon DEF RecordPageView, CompleteModule, SwitchVariant, RollBack

LEMMA EveryTabStep ==
    ASSUME TypeOK, [Next]_vars, NEW s \in Viewers
    PROVE  TabStep(s)
  <1>1. CASE UNCHANGED <<lock, pc, req>>
    BY <1>1 DEF TabStep, KeepsRequest
  <1>2. CASE vars' = vars
    BY <1>1, <1>2 DEF vars, learning
  <1>3. ASSUME NEW v \in Variants, AuthorStep(v) PROVE TabStep(s)
    BY <1>1, <1>3, AuthorLeavesTabs
  <1>4. ASSUME NEW t \in Viewers, Others(t) PROVE TabStep(s)
    <2>1. CASE OpenViewer(t)
      BY <1>1, <2>1 DEF OpenViewer
    <2>2. CASE \/ \E p \in Pages : ShowPage(t, p)
               \/ Attest(t)
               \/ \E v \in Variants : ChooseLanguage(t, v)
      <3>1. /\ Sends(t)
            /\ t # s => pc'[s] = pc[s] /\ req'[s] = req[s]
            /\ lock' = lock
        BY <2>2, SendsStep
      <3>2. QED
        BY <3>1 DEF TabStep, KeepsRequest
    <2>3. CASE ClaimProgress(t)
      <3>1. CASE t = s
        BY <2>3, <3>1 DEF TabStep
      <3>2. CASE t # s
        <4>1. pc'[s] = pc[s] /\ req'[s] = req[s]
          BY <2>3, <3>2, Zenon DEF ClaimProgress, TypeOK
        <4>2. lock' = [lock EXCEPT ![OwnerOf[t]] = t] /\ lock[OwnerOf[t]] = None
          BY <2>3 DEF ClaimProgress, RowIsFree
        <4>3. lock[OwnerOf[s]] = s => lock'[OwnerOf[s]] = s
          BY <4>2, OwnerAssumption, NoneAssumption DEF TypeOK
        <4>4. QED
          BY <4>1, <4>3 DEF TabStep, KeepsRequest
      <3>3. QED
        BY <3>1, <3>2
    <2>4. CASE RecordPageView(t) \/ CompleteModule(t) \/ SwitchVariant(t) \/ RollBack(t)
      <3>1. Ends(t)
        BY <2>4, CommitEnds
      <3>2. CASE t = s
        BY <3>1, <3>2, EndsType DEF TabStep
      <3>3. CASE t # s
        <4>1. pc'[s] = pc[s] /\ req'[s] = req[s]
          BY <3>1, <3>3, EndsType
        <4>2. lock[OwnerOf[s]] = s => lock'[OwnerOf[s]] = s
          BY <3>1, <3>3, EndsType, OwnerAssumption
        <4>3. QED
          BY <4>1, <4>2 DEF TabStep, KeepsRequest
      <3>4. QED
        BY <3>2, <3>3
    <2>5. QED
      BY <1>4, <2>1, <2>2, <2>3, <2>4 DEF Others
  <1>5. CASE Next
    BY <1>3, <1>4, <1>5, Zenon DEF Next, AuthorStep, Others
  <1>6. QED
    BY <1>2, <1>5

LEMMA ResolvedStep == LearnerInv /\ [Next]_vars => ResolvedInv'
  <1> SUFFICES ASSUME LearnerInv, [Next]_vars, NEW s \in Viewers, pc'[s] # "idle"
               PROVE  /\ req'[s].module \in Variants
                      /\ req'[s].number \in 1..Len(versions'[req'[s].module])
                      /\ req'[s].kind = "view" =>
                            req'[s].page \in Pages \cap versions'[req'[s].module][req'[s].number].pages
    BY Zenon DEF ResolvedInv, Latest, Text
  <1>0. TypeOK /\ ResolvedInv
    BY DEF LearnerInv
  <1> DEFINE about(v, n) == v \in Variants /\ n \in 1..Latest(v)
  <1>1. \A v, n : about(v, n) => /\ v \in Variants /\ n \in 1..Len(versions'[v])
                                /\ versions'[v][n].pages = Text(v, n)
    BY <1>0, VersionsAccumulate DEF Latest, Text
  <1>2. CASE KeepsRequest(s)
    <2>1. /\ about(req[s].module, req[s].number)
          /\ req[s].kind = "view" =>
                req[s].page \in Pages \cap Text(req[s].module, req[s].number)
      BY <1>0, <1>2 DEF KeepsRequest, ResolvedInv
    <2>2. QED
      BY <1>1, <1>2, <2>1 DEF KeepsRequest
  <1>3. CASE Sends(s)
    <2>1. about(req'[s].module, req'[s].number)
      BY <1>3 DEF Sends
    <2>2. QED
      BY <1>1, <1>3, <2>1 DEF Sends
  <1>4. CASE ClaimProgress(s)
    <2>1. /\ req'[s].module = req[s].module /\ req'[s].number = req[s].number
          /\ req'[s].kind = req[s].kind /\ req'[s].page = req[s].page
          /\ pc[s] = "resolved"
      BY <1>0, <1>4, Zenon DEF ClaimProgress, TypeOK, Request
    <2>2. /\ about(req[s].module, req[s].number)
          /\ req[s].kind = "view" =>
                req[s].page \in Pages \cap Text(req[s].module, req[s].number)
      BY <1>0, <2>1 DEF ResolvedInv
    <2>3. QED
      BY <1>1, <2>1, <2>2
  <1>5. QED
    BY <1>0, <1>2, <1>3, <1>4, EveryTabStep DEF TabStep

LEMMA ClaimStep == LearnerInv /\ [Next]_vars => ClaimInv'
  <1> DEFINE claim(s, row, now, owner, started) ==
        /\ owner = s
        /\ row.viewed = now.viewed
        /\ row.page = now.page
        /\ row.completed = now.completed
        /\ row.number = now.number
        /\ row.of = now.of
        /\ row.superseded = now.superseded
        /\ started => row.module = now.module
  <1> SUFFICES ASSUME LearnerInv, [Next]_vars, NEW s \in Viewers, pc'[s] = "claimed"
               PROVE  claim(s, req'[s].row, progress'[OwnerOf[s]], lock'[OwnerOf[s]],
                            progress'[OwnerOf[s]] # NoRow)
    BY Zenon DEF ClaimInv, Started
  <1>0. TypeOK /\ ClaimInv /\ OwnerOf[s] \in Learners
    BY OwnerAssumption DEF LearnerInv
  <1>1. CASE KeepsRequest(s)
    <2>1. pc[s] = "claimed" /\ req'[s] = req[s]
      BY <1>1 DEF KeepsRequest
    <2>2. lock[OwnerOf[s]] = s /\ lock'[OwnerOf[s]] = s
      BY <1>0, <1>1, <2>1 DEF ClaimInv, KeepsRequest
    <2>3. ~SendsBack(OwnerOf[s])
      BY <2>2, NoneAssumption DEF SendsBack
    <2>4. ASSUME NEW t \in Viewers, pc[t] = "claimed", OwnerOf[t] = OwnerOf[s],
                 pc'[t] = "idle"
          PROVE  FALSE
      BY <1>0, <2>2, <2>4 DEF ClaimInv
    <2>5. Keeps(OwnerOf[s])
      BY <1>0, <2>3, <2>4, RowStep DEF Views, Completes, Switches, Claimed
    <2>6. progress'[OwnerOf[s]] = progress[OwnerOf[s]]
      BY <2>5 DEF Keeps
    <2>7. claim(s, req[s].row, progress[OwnerOf[s]], lock[OwnerOf[s]],
                progress[OwnerOf[s]] # NoRow)
      BY <1>0, <2>1, Zenon DEF ClaimInv, Started
    <2>8. QED
      BY <2>1, <2>2, <2>6, <2>7
  <1>2. CASE ClaimProgress(s)
    <2>1. progress' = progress /\ lock' = [lock EXCEPT ![OwnerOf[s]] = s]
      BY <1>2 DEF ClaimProgress
    <2>2. lock'[OwnerOf[s]] = s
      BY <1>0, <2>1 DEF TypeOK
    <2>3. req'[s].row = IF Started(OwnerOf[s]) THEN progress[OwnerOf[s]]
                        ELSE [NoRow EXCEPT !.module = req[s].module]
      BY <1>0, <1>2, Zenon DEF ClaimProgress, TypeOK, Request
    <2>4. CASE Started(OwnerOf[s])
      BY <2>1, <2>2, <2>3, <2>4
    <2>5. CASE ~Started(OwnerOf[s])
      <3>1. progress'[OwnerOf[s]] = NoRow
        BY <2>1, <2>5 DEF Started
      <3>2. req'[s].row = [NoRow EXCEPT !.module = req[s].module]
        BY <2>3, <2>5
      <3>3. QED
        BY <2>2, <3>1, <3>2 DEF NoRow
    <2>6. QED
      BY <2>4, <2>5
  <1>3. CASE Sends(s)
    BY <1>3 DEF Sends
  <1>4. QED
    BY <1>0, <1>1, <1>2, <1>3, EveryTabStep DEF TabStep

-----------------------------------------------------------------------------
(* Types.                                                                  *)

LEMMA PublishType ==
    ASSUME TypeOK, NEW v \in Variants, NEW text \in Drafts(v), NEW kind \in Kinds,
           PublishModule(v, text, kind)
    PROVE  TypeOK'
  <1>1. text \in SUBSET Pages
    BY DraftType
  <1>2. Frozen(v, text, kind) \in Seq(Version) /\ Frozen(v, text, kind) # <<>>
    BY <1>1, FrozenType
  <1>3. versions' = [versions EXCEPT ![v] = Frozen(v, text, kind)]
    BY DEF PublishModule
  <1>4. /\ versions' \in [Variants -> Seq(Version)]
        /\ versions'[v] # <<>>
        /\ \A w \in Variants : w # v => versions'[w] = versions[w]
    BY <1>2, <1>3 DEF TypeOK, Version
  <1>5. status' = [status EXCEPT ![v] = "published"]
    BY DEF PublishModule
  <1>6. /\ status' \in [Variants -> {"draft", "published", "deleted"}]
        /\ \A w \in Variants : status'[w] = "published" => versions'[w] # <<>>
    BY <1>4, <1>5 DEF TypeOK
  <1>7. reach' \in [Variants -> (SUBSET Learners) \cup {None}]
    BY DEF TypeOK, PublishModule
  <1>8. /\ progress' \in [Learners -> Row]
        /\ resets' \in [Learners -> Nat]
        /\ recorded' \in [Learners -> SUBSET [page : Pages \cup {None}, shown : Nat]]
    <2>1. CASE UNCHANGED <<progress, resets, recorded>>
      BY <2>1 DEF TypeOK
    <2>2. CASE /\ progress' = [m \in Learners |->
                     IF m \in reach[v] THEN SentBack(progress[m]) ELSE progress[m]]
               /\ resets' = [m \in Learners |->
                     IF m \in reach[v] THEN resets[m] + 1 ELSE resets[m]]
               /\ recorded' = [m \in Learners |->
                     IF m \in reach[v] THEN {} ELSE recorded[m]]
      <3>1. \A m \in Learners : progress[m] \in Row /\ SentBack(progress[m]) \in Row
        BY SentBackRow DEF TypeOK
      <3>2. QED
        BY <2>2, <3>1 DEF TypeOK
    <2>3. QED
      BY <2>1, <2>2 DEF PublishModule
  <1>9. UNCHANGED <<lock, viewer, pc, req, attested>>
    BY DEF PublishModule
  <1>10. QED
    BY <1>4, <1>6, <1>7, <1>8, <1>9 DEF TypeOK, Version

LEMMA AuthorType ==
    ASSUME TypeOK, NEW v \in Variants, AuthorStep(v)
    PROVE  TypeOK'
  <1>1. CASE Publishes(v)
    <2>1. CASE StartReset(v)
      BY <2>1 DEF StartReset, TypeOK, learning, history
    <2>2. QED
      BY <1>1, <2>1, PublishType DEF Publishes
  <1>2. CASE AbandonPublish(v)
    BY <1>2 DEF AbandonPublish, TypeOK, learning, history
  <1>3. CASE UnpublishModule(v)
    BY <1>3 DEF UnpublishModule, TypeOK, learning, history
  <1>4. CASE DeleteModule(v)
    BY <1>4 DEF DeleteModule, TypeOK, learning, history
  <1>5. QED
    BY <1>1, <1>2, <1>3, <1>4 DEF AuthorStep

\* A commit that ends a request, given what it leaves in the row, the record
\* and the viewer.
LEMMA CommitType ==
    ASSUME TypeOK, NEW s \in Viewers, Ends(s),
           progress' \in [Learners -> Row],
           recorded' \in [Learners -> SUBSET [page : Pages \cup {None}, shown : Nat]],
           attested' \in [Learners -> Nat],
           viewer' \in [Viewers -> [module : Variants \cup {None}, number : Nat,
                                    viewed : SUBSET Pages]]
    PROVE  TypeOK'
  <1>1. /\ lock' \in [Learners -> Viewers \cup {None}]
        /\ pc' \in [Viewers -> {"idle", "resolved", "claimed"}]
        /\ req' \in [Viewers -> Request]
        /\ resets' = resets
        /\ status' = status /\ versions' = versions /\ reach' = reach
    BY EndsType
  <1>2. QED
    BY <1>1 DEF TypeOK

Screen == [module : Variants \cup {None}, number : Nat, viewed : SUBSET Pages]

LEMMA AnswersType ==
    ASSUME TypeOK, NEW s \in Viewers, NEW row \in Row, Answers(s, row)
    PROVE  viewer' \in [Viewers -> Screen]
  <1>1. row.viewed \in SUBSET Pages
    BY DEF Row
  <1>2. viewer[s] \in Screen
    BY DEF TypeOK, Screen
  <1>3. [viewer[s] EXCEPT !.viewed = row.viewed] \in Screen
    BY <1>1, <1>2 DEF Screen
  <1>4. CASE viewer' = [viewer EXCEPT ![s].viewed = row.viewed]
    <2>1. viewer' = [viewer EXCEPT ![s] = [viewer[s] EXCEPT !.viewed = row.viewed]]
      BY <1>4, Zenon
    <2>2. QED
      BY <1>3, <2>1 DEF TypeOK, Screen
  <1>5. CASE UNCHANGED viewer
    BY <1>5 DEF TypeOK, Screen
  <1>6. QED
    BY <1>4, <1>5 DEF Answers

LEMMA TabType ==
    ASSUME LearnerInv, NEW s \in Viewers, Others(s)
    PROVE  TypeOK'
  <1>0. TypeOK /\ ClaimInv /\ ResolvedInv /\ OwnerOf[s] \in Learners
    BY OwnerAssumption DEF LearnerInv
  <1>1. CASE OpenViewer(s)
    <2>1. PICK v \in Picks(OwnerOf[s]) :
            viewer' = [viewer EXCEPT ![s] = [module |-> v, number |-> Latest(v),
                                             viewed |-> progress[OwnerOf[s]].viewed]]
      BY <1>1 DEF OpenViewer
    <2>2. v \in Variants /\ Latest(v) \in Nat
      BY <1>0, PicksReadable, PickedType
    <2>3. progress[OwnerOf[s]].viewed \in SUBSET Pages
      BY <1>0 DEF TypeOK, Row
    <2>4. viewer' \in [Viewers -> Screen]
      BY <1>0, <2>1, <2>2, <2>3 DEF TypeOK, Screen
    <2>5. QED
      BY <1>0, <1>1, <2>4 DEF OpenViewer, TypeOK, Screen, authoring, history
  <1>2. CASE \/ \E p \in Pages : ShowPage(s, p)
             \/ Attest(s)
             \/ \E v \in Variants : ChooseLanguage(s, v)
    BY <1>0, <1>2, SendsStep DEF TypeOK, authoring, history
  <1>3. CASE ClaimProgress(s)
    <2>1. /\ lock' = [lock EXCEPT ![OwnerOf[s]] = s]
          /\ pc' = [pc EXCEPT ![s] = "claimed"]
          /\ UNCHANGED <<authoring, progress, viewer, history>>
      BY <1>3 DEF ClaimProgress
    <2> DEFINE row == IF Started(OwnerOf[s]) THEN progress[OwnerOf[s]]
                      ELSE [NoRow EXCEPT !.module = req[s].module]
    <2>2. req' = [req EXCEPT ![s].row = row]
      BY <1>3, Zenon DEF ClaimProgress
    <2>3. req[s] \in Request /\ req[s].module \in Variants \cup {None}
      BY <1>0 DEF TypeOK, Request
    <2>4. [NoRow EXCEPT !.module = req[s].module] \in Row
      BY <2>3, EmptyType DEF Row
    <2>5. row \in Row
      BY <1>0, <2>4 DEF TypeOK
    <2>6. [req[s] EXCEPT !.row = row] \in Request
      BY <2>3, <2>5 DEF Request
    <2>7. req' = [req EXCEPT ![s] = [req[s] EXCEPT !.row = row]]
      BY <2>2, Zenon
    <2>8. req' \in [Viewers -> Request]
      BY <1>0, <2>6, <2>7 DEF TypeOK
    <2>9. QED
      BY <1>0, <2>1, <2>8 DEF TypeOK, authoring, history
  <1>4. CASE RecordPageView(s)
    <2>1. pc[s] = "claimed" /\ req[s].kind = "view" /\ Ends(s)
      BY <1>4 DEF RecordPageView, Claimed
    <2>2. req[s].row \in Row /\ req[s].page \in Pages
      BY <1>0, <2>1, ClaimedRow
    <2>3. Viewed(s, req[s].row) \in Row
      BY <2>2, ViewedRow
    <2>4. progress' = [progress EXCEPT ![OwnerOf[s]] = Viewed(s, req[s].row)]
      BY <1>4 DEF RecordPageView
    <2>5. progress' \in [Learners -> Row]
      BY <1>0, <2>3, <2>4 DEF TypeOK
    <2>6. [page |-> req[s].page, shown |-> req[s].shown]
            \in [page : Pages \cup {None}, shown : Nat]
      BY <1>0, <2>2 DEF TypeOK, Request
    <2>7. recorded' \in [Learners -> SUBSET [page : Pages \cup {None}, shown : Nat]]
      BY <1>0, <1>4, <2>6 DEF RecordPageView, TypeOK
    <2>8. viewer' \in [Viewers -> Screen]
      BY <1>0, <1>4, <2>3, AnswersType DEF RecordPageView
    <2>9. attested' \in [Learners -> Nat]
      BY <1>0, <1>4 DEF RecordPageView, TypeOK
    <2>10. QED
      BY <1>0, <2>1, <2>5, <2>7, <2>8, <2>9, CommitType DEF Screen
  <1>5. CASE CompleteModule(s)
    <2>1. Ends(s) /\ viewer' = viewer /\ recorded' = recorded
      BY <1>5 DEF CompleteModule
    <2>2. progress' = [progress EXCEPT ![OwnerOf[s]] = Completed(s)]
      BY <1>5, Zenon DEF CompleteModule, Completed
    <2>3. progress' \in [Learners -> Row]
      BY <1>0, <2>2, CompletedRow DEF TypeOK
    <2>4. attested' \in [Learners -> Nat]
      BY <1>0, <1>5 DEF CompleteModule, TypeOK
    <2>5. QED
      BY <1>0, <2>1, <2>3, <2>4, CommitType DEF TypeOK
  <1>6. CASE SwitchVariant(s)
    <2> DEFINE row == Switched(req[s].row, req[s].module)
    <2>1. pc[s] = "claimed" /\ Ends(s) /\ recorded' = recorded /\ attested' = attested
      BY <1>6 DEF SwitchVariant, Claimed
    <2>2. /\ req[s].row \in Row /\ req[s].module \in Variants
          /\ req[s].number \in Nat
      BY <1>0, <2>1, ClaimedRow DEF TypeOK, Request
    <2>3. row \in Row
      BY <2>2, SwitchedRow
    <2>4. progress' = [progress EXCEPT ![OwnerOf[s]] = row]
      BY <1>6 DEF SwitchVariant
    <2>5. progress' \in [Learners -> Row]
      BY <1>0, <2>3, <2>4 DEF TypeOK
    <2>6. row.viewed \in SUBSET Pages
      BY <2>3 DEF Row
    <2>7. [module |-> req[s].module, number |-> req[s].number, viewed |-> row.viewed] \in Screen
      BY <2>2, <2>6 DEF Screen
    <2>8. \/ viewer' = [viewer EXCEPT ![s] = [module |-> req[s].module,
                                              number |-> req[s].number,
                                              viewed |-> row.viewed]]
          \/ viewer' = viewer
      BY <1>6 DEF SwitchVariant
    <2>9. viewer' \in [Viewers -> Screen]
      BY <1>0, <2>7, <2>8 DEF TypeOK, Screen
    <2>10. QED
      BY <1>0, <2>1, <2>5, <2>9, CommitType DEF TypeOK, Screen
  <1>7. CASE RollBack(s)
    BY <1>0, <1>7, CommitType DEF RollBack, TypeOK
  <1>8. QED
    BY <1>1, <1>2, <1>3, <1>4, <1>5, <1>6, <1>7 DEF Others

LEMMA TypeStep == LearnerInv /\ [Next]_vars => TypeOK'
  <1> SUFFICES ASSUME LearnerInv, [Next]_vars PROVE TypeOK'
    OBVIOUS
  <1>1. CASE vars' = vars
    BY <1>1 DEF LearnerInv, TypeOK, vars, authoring, learning, history
  <1>2. CASE \E v \in Variants : AuthorStep(v)
    BY <1>2, AuthorType DEF LearnerInv
  <1>3. CASE \E s \in Viewers : Others(s)
    BY <1>3, TabType
  <1>4. CASE Next
    BY <1>2, <1>3, <1>4, Zenon DEF Next, AuthorStep, Others
  <1>5. QED
    BY <1>1, <1>4

-----------------------------------------------------------------------------
(* The theorems.                                                           *)

LEMMA InitInv == Init => LearnerInv
  <1> SUFFICES ASSUME Init PROVE LearnerInv
    OBVIOUS
  <1>1. TypeOK
    BY EmptyType DEF Init, TypeOK, Closed
  <1>2. \A l \in Learners : progress[l].completed = FALSE /\ progress[l].viewed = {}
                            /\ progress[l].page = None
    BY DEF Init, NoRow
  <1>3. ClaimInv /\ ResolvedInv /\ AttestedInv
    BY DEF Init, ClaimInv, ResolvedInv, AttestedInv
  <1>4. CompletedInv /\ GateIsReal /\ SupersededExactly
    BY <1>2, Zenon DEF CompletedInv, GateIsReal, SupersededExactly
  <1>5. ViewsAreRecorded /\ BookmarkWasRead
    BY <1>2 DEF ViewsAreRecorded, BookmarkWasRead
  <1>6. QED
    BY <1>1, <1>3, <1>4, <1>5 DEF LearnerInv

LEMMA StepInv == LearnerInv /\ [Next]_vars => LearnerInv'
  BY TypeStep, ClaimStep, ResolvedStep, CompletedStep, ViewsStep, AttestedStep,
     GateStep, SupersededStep, BookmarkStep DEF LearnerInv

\* The strengthened invariant holds of every reachable state.
THEOREM LearnerInvariant == Spec => []LearnerInv
  BY InitInv, StepInv, PTL DEF Spec

\* Every row, request and screen keeps its shape, and what is published has a
\* version to be read.
THEOREM LearnerTypeCorrect == Spec => []TypeOK
  BY LearnerInvariant, PTL DEF LearnerInv

\* complete_module's check of `pages_viewed` is a gate: a completion that counts
\* rests on a view of each page, recorded since the learner was last sent back.
THEOREM CompletionIsGated == Spec => []GateIsReal
  BY LearnerInvariant, PTL DEF LearnerInv

\* _send_learners_back and complete_module agree on which completions count.
THEOREM SupersededIsExact == Spec => []SupersededExactly
  BY LearnerInvariant, PTL DEF LearnerInv

\* A bookmark never points at a page the row does not count as read.
THEOREM BookmarkIsRead == Spec => []BookmarkWasRead
  BY LearnerInvariant, PTL DEF LearnerInv

-----------------------------------------------------------------------------
(* What a step may never do.                                               *)

NoViewLostStep ==
    \A l \in Learners :
        progress[l].viewed \subseteq progress'[l].viewed
           \/ resets'[l] # resets[l]
           \/ progress'[l].module # progress[l].module

LEMMA NoViewLostInStep == LearnerInv /\ [Next]_vars => NoViewLostStep
  <1> SUFFICES ASSUME LearnerInv, [Next]_vars, NEW l \in Learners
               PROVE  \/ progress[l].viewed \subseteq progress'[l].viewed
                      \/ resets'[l] # resets[l]
                      \/ progress'[l].module # progress[l].module
    BY DEF NoViewLostStep
  <1>0. TypeOK /\ ClaimInv /\ ResolvedInv
    BY DEF LearnerInv
  <1>1. CASE Keeps(l)
    BY <1>1 DEF Keeps
  <1>2. CASE SendsBack(l)
    BY <1>0, <1>2 DEF SendsBack, TypeOK
  <1>3. ASSUME NEW s \in Viewers, Views(l, s)
        PROVE  progress[l].viewed \subseteq progress'[l].viewed
    BY <1>0, <1>3, ViewsRow
  <1>4. ASSUME NEW s \in Viewers, Completes(l, s)
        PROVE  progress[l].viewed \subseteq progress'[l].viewed
    BY <1>0, <1>4, CompletesRow
  <1>5. ASSUME NEW s \in Viewers, Switches(l, s)
        PROVE  \/ progress[l].viewed \subseteq progress'[l].viewed
               \/ progress'[l].module # progress[l].module
    <2>1. CASE Started(l)
      BY <1>0, <1>5, <2>1, SwitchesRow
    <2>2. CASE ~Started(l)
      BY <2>2 DEF Started, NoRow
    <2>3. QED
      BY <2>1, <2>2
  <1>6. QED
    BY <1>0, <1>1, <1>2, <1>3, <1>4, <1>5, RowStep

\* Two tabs that report at once do not un-view each other's pages: the claim
\* reads the row under its lock.
THEOREM ViewsAreKept == Spec => NoViewLost
  <1>1. LearnerInv /\ [Next]_vars => [NoViewLostStep]_vars
    BY NoViewLostInStep
  <1>2. QED
    BY <1>1, LearnerInvariant, PTL DEF Spec, NoViewLost, NoViewLostStep

EvidenceKeptStep ==
    \A l \in Learners :
        progress[l].completed =>
           /\ progress'[l].completed
           /\ \/ /\ progress'[l].of = progress[l].of
                 /\ progress'[l].number = progress[l].number
              \/ \E s \in Viewers : OwnerOf[s] = l /\ Claimed(s, "complete")

LEMMA EvidenceKeptInStep == LearnerInv /\ [Next]_vars => EvidenceKeptStep
  <1> SUFFICES ASSUME LearnerInv, [Next]_vars, NEW l \in Learners, progress[l].completed
               PROVE  /\ progress'[l].completed
                      /\ \/ /\ progress'[l].of = progress[l].of
                            /\ progress'[l].number = progress[l].number
                         \/ \E s \in Viewers : OwnerOf[s] = l /\ Claimed(s, "complete")
    BY DEF EvidenceKeptStep
  <1>0. TypeOK /\ ClaimInv /\ ResolvedInv
    BY DEF LearnerInv
  <1>1. CASE Keeps(l) \/ SendsBack(l) \/ \E s \in Viewers : Views(l, s) \/ Switches(l, s)
    <2>1. /\ progress'[l].completed = progress[l].completed
          /\ progress'[l].of = progress[l].of
          /\ progress'[l].number = progress[l].number
      BY <1>0, <1>1, SendsBackRow, ViewsRow, SwitchesRow DEF Keeps
    <2>2. QED
      BY <2>1
  <1>2. ASSUME NEW s \in Viewers, Completes(l, s)
        PROVE  /\ progress'[l].completed
               /\ OwnerOf[s] = l /\ Claimed(s, "complete")
    <2>1. progress'[l].completed = TRUE
      BY <1>0, <1>2, CompletesRow
    <2>2. QED
      BY <1>2, <2>1 DEF Completes
  <1>3. QED
    BY <1>0, <1>1, <1>2, RowStep

\* What a learner completed is never unsaid: only another completion of theirs
\* changes which text the record names.
THEOREM EvidenceIsKept == Spec => EvidenceKept
  <1>1. LearnerInv /\ [Next]_vars => [EvidenceKeptStep]_vars
    BY EvidenceKeptInStep
  <1>2. QED
    BY <1>1, LearnerInvariant, PTL DEF Spec, EvidenceKept, EvidenceKeptStep

VariantStep ==
    \A l \in Learners :
        Started(l) /\ progress'[l].module # progress[l].module =>
           \E s \in Viewers : /\ OwnerOf[s] = l
                              /\ Claimed(s, "switch")
                              /\ progress'[l].module = req[s].module

LEMMA VariantMovesInStep == LearnerInv /\ [Next]_vars => VariantStep
  <1> SUFFICES ASSUME LearnerInv, [Next]_vars, NEW l \in Learners, Started(l),
                      progress'[l].module # progress[l].module
               PROVE  \E s \in Viewers : /\ OwnerOf[s] = l
                                         /\ Claimed(s, "switch")
                                         /\ progress'[l].module = req[s].module
    BY DEF VariantStep
  <1>0. TypeOK /\ ClaimInv /\ ResolvedInv
    BY DEF LearnerInv
  <1>1. ~Keeps(l) /\ ~SendsBack(l)
    BY <1>0, SendsBackRow DEF Keeps
  <1>2. \A s \in Viewers : ~Views(l, s) /\ ~Completes(l, s)
    BY <1>0, ViewsRow, CompletesRow
  <1>3. PICK s \in Viewers : Switches(l, s)
    BY <1>0, <1>1, <1>2, RowStep
  <1>4. progress'[l].module = req[s].module
    BY <1>0, <1>3, SwitchesRow
  <1>5. QED
    BY <1>3, <1>4 DEF Switches

\* Only an explicit switch moves a learner to another text.
THEOREM VariantIsSticky == Spec => VariantMovesOnlyOnSwitch
  <1>1. LearnerInv /\ [Next]_vars => [VariantStep]_vars
    BY VariantMovesInStep
  <1>2. QED
    BY <1>1, LearnerInvariant, PTL DEF Spec, VariantMovesOnlyOnSwitch, VariantStep

-----------------------------------------------------------------------------
(* A reset finds every reader of the variant.  Nothing in the code says so *)
(* but a foreign key: a first read of the variant, or a switch to it,      *)
(* cannot commit while its modules row is locked (FoundInv), and the row   *)
(* is not locked while a first read of it is under way (InsertInv).        *)

InsertInv ==
    \A s \in Viewers : Inserting(s) =>
        /\ req[s].row.module = req[s].module
        /\ \A v \in Variants : reach[v] # None => req[s].module # v

FoundInv ==
    \A v \in Variants, l \in Learners :
        reach[v] # None /\ progress[l].module = v => l \in reach[v]

\* What a step does to the rows a reset of v has found.
LEMMA ReachStep ==
    ASSUME TypeOK, [Next]_vars, NEW v \in Variants
    PROVE  \/ reach'[v] = reach[v]
           \/ reach'[v] = None
           \/ /\ reach'[v] = {l \in Learners : Started(l)}
              /\ ModuleIsFree(v)
              /\ UNCHANGED <<progress, pc, req>>
  <1> DEFINE Goal == \/ reach'[v] = reach[v]
                     \/ reach'[v] = None
                     \/ /\ reach'[v] = {l \in Learners : Started(l)}
                        /\ ModuleIsFree(v)
                        /\ UNCHANGED <<progress, pc, req>>
  <1>1. CASE reach' = reach
    BY <1>1
  <1>2. CASE vars' = vars
    BY <1>1, <1>2 DEF vars, authoring
  <1>3. ASSUME NEW w \in Variants, AuthorStep(w) PROVE Goal
    <2>1. CASE StartReset(w)
      <3>1. reach' = [reach EXCEPT ![w] = {l \in Learners : Started(l)}]
        BY <2>1 DEF StartReset
      <3>2. ModuleIsFree(w) /\ UNCHANGED <<progress, pc, req>>
        BY <2>1 DEF StartReset, learning
      <3>3. QED
        BY <3>1, <3>2 DEF TypeOK
    <2>2. CASE AbandonPublish(w) \/ \E text \in Drafts(w), kind \in Kinds :
                                        PublishModule(w, text, kind)
      <3>1. reach' = [reach EXCEPT ![w] = None]
        BY <2>2 DEF AbandonPublish, PublishModule
      <3>2. QED
        BY <3>1 DEF TypeOK
    <2>3. CASE UnpublishModule(w) \/ DeleteModule(w)
      BY <1>1, <2>3 DEF UnpublishModule, DeleteModule
    <2>4. QED
      BY <1>3, <2>1, <2>2, <2>3 DEF AuthorStep, Publishes
  <1>4. ASSUME NEW s \in Viewers, Others(s) PROVE Goal
    BY <1>1, <1>4, OthersLeaveVersions
  <1>5. CASE Next
    BY <1>3, <1>4, <1>5, Zenon DEF Next, AuthorStep, Others
  <1>6. QED
    BY <1>2, <1>5

\* While a request holds the row, no other step touches it.
LEMMA HeldRowKept ==
    ASSUME LearnerInv, [Next]_vars, NEW s \in Viewers, KeepsRequest(s),
           pc'[s] = "claimed"
    PROVE  /\ pc[s] = "claimed" /\ req'[s] = req[s]
           /\ progress'[OwnerOf[s]] = progress[OwnerOf[s]]
  <1>0. TypeOK /\ ClaimInv /\ OwnerOf[s] \in Learners
    BY OwnerAssumption DEF LearnerInv
  <1>1. pc[s] = "claimed" /\ req'[s] = req[s]
    BY DEF KeepsRequest
  <1>2. lock[OwnerOf[s]] = s
    BY <1>0, <1>1 DEF ClaimInv
  <1>3. ~SendsBack(OwnerOf[s])
    BY <1>2, NoneAssumption DEF SendsBack
  <1>4. ASSUME NEW t \in Viewers, pc[t] = "claimed", OwnerOf[t] = OwnerOf[s],
               pc'[t] = "idle"
        PROVE  FALSE
    BY <1>0, <1>2, <1>4 DEF ClaimInv
  <1>5. Keeps(OwnerOf[s])
    BY <1>0, <1>3, <1>4, RowStep DEF Views, Completes, Switches, Claimed
  <1>6. QED
    BY <1>1, <1>5 DEF Keeps

LEMMA InsertStep == LearnerInv /\ InsertInv /\ [Next]_vars => InsertInv'
  <1> SUFFICES ASSUME LearnerInv, InsertInv, [Next]_vars, NEW s \in Viewers,
                      pc'[s] = "claimed", progress'[OwnerOf[s]] = NoRow
               PROVE  /\ req'[s].row.module = req'[s].module
                      /\ \A v \in Variants : reach'[v] # None => req'[s].module # v
    BY Zenon DEF InsertInv, Inserting, Started
  <1>0. TypeOK
    BY DEF LearnerInv
  <1>1. CASE KeepsRequest(s)
    <2>1. /\ pc[s] = "claimed" /\ req'[s] = req[s]
          /\ progress'[OwnerOf[s]] = progress[OwnerOf[s]]
      BY <1>1, HeldRowKept
    <2>2. Inserting(s)
      BY <2>1 DEF Inserting, Started
    <2>3. req[s].row.module = req[s].module
      BY <2>2 DEF InsertInv
    <2>4. ASSUME NEW v \in Variants, reach'[v] # None PROVE req[s].module # v
      <3>1. CASE reach[v] # None
        BY <2>2, <3>1 DEF InsertInv
      <3>2. CASE ModuleIsFree(v)
        BY <2>2, <3>2 DEF ModuleIsFree
      <3>3. QED
        BY <1>0, <2>4, <3>1, <3>2, ReachStep
    <2>5. QED
      BY <2>1, <2>3, <2>4
  <1>2. CASE ClaimProgress(s)
    <2>1. progress' = progress /\ reach' = reach
      BY <1>2 DEF ClaimProgress, authoring
    <2>2. ~Started(OwnerOf[s]) /\ KeyIsFree(req[s].module)
      BY <1>2, <2>1 DEF ClaimProgress, Started
    <2>3. /\ req'[s].module = req[s].module
          /\ req'[s].row = IF Started(OwnerOf[s]) THEN progress[OwnerOf[s]]
                           ELSE [NoRow EXCEPT !.module = req[s].module]
      BY <1>0, <1>2, ClaimReads
    <2>4. req'[s].row = [NoRow EXCEPT !.module = req[s].module]
      BY <2>2, <2>3
    <2>5. req'[s].row.module = req[s].module
      BY <2>2, <2>4 DEF NoRow
    <2>6. QED
      BY <2>1, <2>2, <2>3, <2>5 DEF KeyIsFree
  <1>3. CASE Sends(s)
    BY <1>3 DEF Sends
  <1>4. QED
    BY <1>0, <1>1, <1>2, <1>3, EveryTabStep DEF TabStep

\* A request that commits a row naming v while v's reset runs did not bring the
\* row there.
LEMMA CommitsFound ==
    ASSUME LearnerInv, InsertInv, NEW s \in Viewers, pc[s] = "claimed",
           NEW v \in Variants, reach[v] # None, req[s].row.module = v
    PROVE  progress[OwnerOf[s]].module = v
  <1>1. ~Inserting(s)
    BY DEF InsertInv
  <1>2. Started(OwnerOf[s])
    BY <1>1 DEF Inserting
  <1>3. QED
    BY <1>2 DEF LearnerInv, ClaimInv

LEMMA FoundStep == LearnerInv /\ InsertInv /\ FoundInv /\ [Next]_vars => FoundInv'
  <1> SUFFICES ASSUME LearnerInv, InsertInv, FoundInv, [Next]_vars,
                      NEW v \in Variants, NEW l \in Learners,
                      reach'[v] # None, progress'[l].module = v
               PROVE  l \in reach'[v]
    BY Zenon DEF FoundInv
  <1>0. TypeOK /\ ClaimInv /\ ResolvedInv
    BY DEF LearnerInv
  <1>1. CASE reach'[v] = {m \in Learners : Started(m)} /\ progress' = progress
    <2>1. progress[l].module # None
      BY <1>1, NoneAssumption
    <2>2. Started(l)
      BY <2>1 DEF Started, NoRow
    <2>3. QED
      BY <1>1, <2>2
  <1>2. CASE reach'[v] = reach[v]
    <2>0. reach[v] # None
      BY <1>2
    <2>1. ASSUME progress[l].module = v PROVE l \in reach'[v]
      BY <1>2, <2>0, <2>1 DEF FoundInv
    <2>2. CASE Keeps(l)
      BY <2>1, <2>2 DEF Keeps
    <2>3. CASE SendsBack(l)
      <3>1. progress'[l].module = progress[l].module
        BY <1>0, <2>3, SendsBackRow
      <3>2. QED
        BY <2>1, <3>1
    <2>4. ASSUME NEW s \in Viewers, Views(l, s) PROVE l \in reach'[v]
      <3>1. /\ req[s].row \in Row /\ OwnerOf[s] = l /\ pc[s] = "claimed"
            /\ req[s].page \in Pages
        BY <1>0, <2>4 DEF TypeOK, Request, Views, Claimed, ResolvedInv
      <3>2. req[s].row.module = v
        BY <2>4, <3>1, ViewedRow DEF Views
      <3>3. QED
        BY <2>0, <2>1, <3>1, <3>2, CommitsFound
    <2>5. ASSUME NEW s \in Viewers, Completes(l, s) PROVE l \in reach'[v]
      <3>1. OwnerOf[s] = l /\ pc[s] = "claimed"
        BY <2>5 DEF Completes, Claimed
      <3>2. req[s].row.module = v
        BY <1>0, <2>5, CompletedRow DEF Completes
      <3>3. QED
        BY <2>0, <2>1, <3>1, <3>2, CommitsFound
    <2>6. ASSUME NEW s \in Viewers, Switches(l, s) PROVE l \in reach'[v]
      <3>1. /\ req[s].row \in Row /\ OwnerOf[s] = l /\ pc[s] = "claimed"
            /\ req[s].module \in Variants
        BY <1>0, <2>6 DEF TypeOK, Request, Switches, Claimed, ResolvedInv
      <3>2. req[s].module = v
        BY <2>6, <3>1, SwitchedRow DEF Switches
      <3>3. req[s].row.module = v
        BY <2>0, <2>6, <3>2 DEF Switches, KeyIsFree
      <3>4. QED
        BY <2>0, <2>1, <3>1, <3>3, CommitsFound
    <2>7. QED
      BY <1>0, <2>2, <2>3, <2>4, <2>5, <2>6, RowStep
  <1>3. QED
    BY <1>0, <1>1, <1>2, ReachStep

SendsReadersBack ==
    \A v \in Variants, l \in Learners :
        /\ versions'[v] # versions[v]
        /\ versions'[v][Len(versions'[v])].kind = "substantive"
        /\ progress[l].module = v
        => resets'[l] = resets[l] + 1

LEMMA SendsReadersBackInStep == LearnerInv /\ FoundInv /\ [Next]_vars => SendsReadersBack
  <1> SUFFICES ASSUME LearnerInv, FoundInv, [Next]_vars,
                      NEW v \in Variants, NEW l \in Learners,
                      versions'[v] # versions[v],
                      versions'[v][Len(versions'[v])].kind = "substantive",
                      progress[l].module = v
               PROVE  resets'[l] = resets[l] + 1
    BY DEF SendsReadersBack
  <1>0. TypeOK
    BY DEF LearnerInv
  <1>1. vars' # vars
    BY DEF vars, authoring
  <1>2. \A s \in Viewers : ~Others(s)
    BY OthersLeaveVersions
  <1>3. \A w \in Variants : /\ ~StartReset(w) /\ ~AbandonPublish(w)
                            /\ ~UnpublishModule(w) /\ ~DeleteModule(w)
    BY DEF StartReset, AbandonPublish, UnpublishModule, DeleteModule
  <1>11. PICK w \in Variants :
            \E text \in Drafts(w), kind \in Kinds : PublishModule(w, text, kind)
    BY <1>1, <1>2, <1>3, Zenon DEF Next, Publishes, Others
  <1>4. PICK text \in Drafts(w), kind \in Kinds : PublishModule(w, text, kind)
    BY <1>11
  <1>5. versions' = [versions EXCEPT ![w] = Frozen(w, text, kind)]
    BY <1>4 DEF PublishModule
  <1>6. w = v
    BY <1>0, <1>5 DEF TypeOK
  <1>7. kind = "substantive"
    <2>1. versions[v] \in Seq(Version)
      BY <1>0 DEF TypeOK, Version
    <2>2. versions'[v] = Append(versions[v], [pages |-> text, kind |-> kind])
      BY <1>0, <1>5, <1>6 DEF TypeOK, Frozen
    <2>3. [pages |-> text, kind |-> kind] \in Version
      BY <1>0, <1>4, DraftType DEF Version
    <2>4. /\ Len(versions'[v]) = Len(versions[v]) + 1
          /\ Append(versions[v], [pages |-> text, kind |-> kind])[Len(versions[v]) + 1]
               = [pages |-> text, kind |-> kind]
      BY <2>1, <2>2, <2>3
    <2>5. QED
      BY <2>2, <2>4
  <1>8. /\ reach[v] # None
        /\ resets' = [m \in Learners |->
              IF m \in reach[v] THEN resets[m] + 1 ELSE resets[m]]
    BY <1>4, <1>6, <1>7 DEF PublishModule
  <1>9. l \in reach[v]
    BY <1>8 DEF FoundInv
  <1>10. QED
    BY <1>8, <1>9

\* A substantive publish reaches everybody who is reading the variant, however
\* their first read, their switch and the publish interleave.
THEOREM ReadersAreSentBack == Spec => EveryReaderIsSentBack
  <1>1. Init => InsertInv /\ FoundInv
    BY DEF Init, InsertInv, FoundInv, Inserting
  <1>2. LearnerInv /\ LearnerInv' /\ (InsertInv /\ FoundInv) /\ [Next]_vars
          => (InsertInv /\ FoundInv)'
    BY InsertStep, FoundStep
  <1>3. LearnerInv /\ FoundInv /\ [Next]_vars => [SendsReadersBack]_vars
    BY SendsReadersBackInStep
  <1>4. QED
    BY <1>1, <1>2, <1>3, LearnerInvariant, PTL
    DEF Spec, EveryReaderIsSentBack, SendsReadersBack

-----------------------------------------------------------------------------
(* The refinement: every commit is a step on the record as it is.          *)

\* A row that was committed names the variant being read.
RowInv == \A l \in Learners : Started(l) => progress[l].module \in Variants

\* The variant of a row that is held, the one inserted included.
LEMMA HeldModule ==
    ASSUME LearnerInv, InsertInv, RowInv, NEW s \in Viewers, pc[s] = "claimed"
    PROVE  /\ req[s].row.module \in Variants
           /\ Started(OwnerOf[s]) => req[s].row.module = progress[OwnerOf[s]].module
           /\ ~Started(OwnerOf[s]) => req[s].row.module = req[s].module
  <1>0. TypeOK /\ ClaimInv /\ ResolvedInv /\ OwnerOf[s] \in Learners
    BY OwnerAssumption DEF LearnerInv
  <1>1. req[s].module \in Variants
    BY <1>0, ClaimedRow
  <1>2. CASE Started(OwnerOf[s])
    BY <1>0, <1>2, ClaimedRow DEF RowInv
  <1>3. CASE ~Started(OwnerOf[s])
    BY <1>1, <1>3 DEF InsertInv, Inserting
  <1>4. QED
    BY <1>2, <1>3

RowParts == {"module", "viewed", "page", "completed", "number", "of", "superseded"}

\* Writing into a row what it has is no change.
LEMMA SameRow ==
    ASSUME NEW row, row = [k \in RowParts |-> row[k]],
           row.viewed = {}, row.page = None, row.superseded = row.completed
    PROVE  SentBack(row) = row
  <1> DEFINE q == SentBack(row)
  <1>1. q = [k \in RowParts |-> q[k]]
    BY DEF SentBack, RowParts
  <1>2. \A k \in RowParts : q[k] = row[k]
    BY DEF SentBack, RowParts
  <1> HIDE DEF q
  <1>3. q = row
    BY <1>1, <1>2
  <1>4. QED
    BY <1>3 DEF q

\* Sending back a learner who has not begun changes nothing.
LEMMA NobodySentBack == SentBack(NoRow) = NoRow
  <1>1. NoRow \in Row
    BY DEF NoRow, Row
  <1>2. NoRow = [k \in RowParts |-> NoRow[k]]
    BY <1>1 DEF Row, RowParts
  <1>3. NoRow.viewed = {} /\ NoRow.page = None
    BY DEF NoRow
  <1>4. NoRow.superseded = NoRow.completed
    BY Zenon DEF NoRow
  <1>5. QED
    BY <1>2, <1>3, <1>4, SameRow

LEMMA RowInvStep == LearnerInv /\ InsertInv /\ RowInv /\ [Next]_vars => RowInv'
  <1> SUFFICES ASSUME LearnerInv, InsertInv, RowInv, [Next]_vars,
                      NEW l \in Learners, progress'[l] # NoRow
               PROVE  progress'[l].module \in Variants
    BY Zenon DEF RowInv, Started
  <1>0. TypeOK /\ ClaimInv /\ ResolvedInv
    BY DEF LearnerInv
  <1>1. CASE Keeps(l)
    BY <1>1 DEF Keeps, RowInv, Started
  <1>2. CASE SendsBack(l)
    <2>1. Started(l)
      BY <1>2, NobodySentBack DEF SendsBack, Started
    <2>2. QED
      BY <1>0, <1>2, <2>1, SendsBackRow DEF RowInv
  <1>3. ASSUME NEW s \in Viewers, Views(l, s) \/ Completes(l, s)
        PROVE  progress'[l].module \in Variants
    <2>1. pc[s] = "claimed" /\ req[s].row \in Row
      BY <1>0, <1>3 DEF Views, Completes, Claimed, TypeOK, Request
    <2>2. req[s].row.module \in Variants
      BY <2>1, HeldModule
    <2>3. CASE Views(l, s)
      <3>1. req[s].page \in Pages
        BY <1>0, <2>3, ViewsRow
      <3>2. progress'[l].module = req[s].row.module
        BY <2>1, <2>3, <3>1, ViewedRow DEF Views
      <3>3. QED
        BY <2>2, <3>2
    <2>4. CASE Completes(l, s)
      BY <1>0, <2>2, <2>4, CompletedRow DEF Completes
    <2>5. QED
      BY <1>3, <2>3, <2>4
  <1>4. ASSUME NEW s \in Viewers, Switches(l, s)
        PROVE  progress'[l].module \in Variants
    <2>1. pc[s] = "claimed"
      BY <1>4 DEF Switches, Claimed
    <2>2. req[s].module \in Variants
      BY <1>0, <2>1, ClaimedRow
    <2>3. QED
      BY <1>0, <1>4, <2>2, SwitchesRow
  <1>5. QED
    BY <1>0, <1>1, <1>2, <1>3, <1>4, RowStep

Records == [l \in Learners |-> RecordOf(progress[l])]

\* Changes of a record, by its parts.
Parts == {"reading", "seen", "done", "counted"}
IsRecord(r) == r = [k \in Parts |-> r[k]]

\* A record is what its parts are.
LEMMA ByParts ==
    ASSUME NEW a, NEW b, IsRecord(a), IsRecord(b),
           a.reading = b.reading, a.seen = b.seen, a.done = b.done, a.counted = b.counted
    PROVE  a = b
  <1>1. \A k \in Parts : a[k] = b[k]
    BY DEF Parts
  <1>2. QED
    BY <1>1 DEF IsRecord

\* A page read.
LEMMA RecordRead ==
    ASSUME NEW a, NEW b, IsRecord(a), IsRecord(b),
           b.reading = a.reading, b.done = a.done, b.counted = a.counted
    PROVE  b = [a EXCEPT !.seen = b.seen]
  <1> DEFINE q == [a EXCEPT !.seen = b.seen]
  <1>1. IsRecord(q)
    BY DEF IsRecord, Parts
  <1>2. /\ q.reading = b.reading /\ q.seen = b.seen
        /\ q.done = b.done /\ q.counted = b.counted
    BY DEF IsRecord, Parts
  <1> HIDE DEF q
  <1>3. q = b
    BY <1>1, <1>2, ByParts
  <1>4. QED
    BY <1>3 DEF q

\* A variant taken up.
LEMMA RecordBegun ==
    ASSUME NEW a, NEW b, IsRecord(a), IsRecord(b),
           b.seen = a.seen, b.done = a.done, b.counted = a.counted
    PROVE  b = [a EXCEPT !.reading = b.reading]
  <1> DEFINE q == [a EXCEPT !.reading = b.reading]
  <1>1. IsRecord(q)
    BY DEF IsRecord, Parts
  <1>2. /\ q.reading = b.reading /\ q.seen = b.seen
        /\ q.done = b.done /\ q.counted = b.counted
    BY DEF IsRecord, Parts
  <1> HIDE DEF q
  <1>3. q = b
    BY <1>1, <1>2, ByParts
  <1>4. QED
    BY <1>3 DEF q

\* A variant taken up in the place of another.
LEMMA RecordMoved ==
    ASSUME NEW a, NEW b, IsRecord(a), IsRecord(b), b.done = a.done, b.counted = a.counted
    PROVE  b = [a EXCEPT !.reading = b.reading, !.seen = b.seen]
  <1> DEFINE q == [a EXCEPT !.reading = b.reading, !.seen = b.seen]
  <1>1. IsRecord(q)
    BY DEF IsRecord, Parts
  <1>2. /\ q.reading = b.reading /\ q.seen = b.seen
        /\ q.done = b.done /\ q.counted = b.counted
    BY DEF IsRecord, Parts
  <1> HIDE DEF q
  <1>3. q = b
    BY <1>1, <1>2, ByParts
  <1>4. QED
    BY <1>3 DEF q

\* A text attested to.
LEMMA RecordAttested ==
    ASSUME NEW a, NEW b, IsRecord(a), IsRecord(b), b.reading = a.reading, b.seen = a.seen
    PROVE  b = [a EXCEPT !.done = b.done, !.counted = b.counted]
  <1> DEFINE q == [a EXCEPT !.done = b.done, !.counted = b.counted]
  <1>1. IsRecord(q)
    BY DEF IsRecord, Parts
  <1>2. /\ q.reading = b.reading /\ q.seen = b.seen
        /\ q.done = b.done /\ q.counted = b.counted
    BY DEF IsRecord, Parts
  <1> HIDE DEF q
  <1>3. q = b
    BY <1>1, <1>2, ByParts
  <1>4. QED
    BY <1>3 DEF q

\* A learner sent back.
LEMMA RecordSentBack ==
    ASSUME NEW a, NEW b, IsRecord(a), IsRecord(b), b.reading = a.reading, b.done = a.done
    PROVE  b = [a EXCEPT !.seen = b.seen, !.counted = b.counted]
  <1> DEFINE q == [a EXCEPT !.seen = b.seen, !.counted = b.counted]
  <1>1. IsRecord(q)
    BY DEF IsRecord, Parts
  <1>2. /\ q.reading = b.reading /\ q.seen = b.seen
        /\ q.done = b.done /\ q.counted = b.counted
    BY DEF IsRecord, Parts
  <1> HIDE DEF q
  <1>3. q = b
    BY <1>1, <1>2, ByParts
  <1>4. QED
    BY <1>3 DEF q

LEMMA RecordFields ==
    ASSUME NEW row
    PROVE  /\ RecordOf(row).reading = row.module
           /\ RecordOf(row).seen = row.viewed
           /\ RecordOf(row).done = Done(row)
           /\ RecordOf(row).counted = Counted(row)
           /\ IsRecord(RecordOf(row))
  BY DEF RecordOf, IsRecord, Parts

\* What a row says of its completion rests on four of its fields.
LEMMA SameCompletion ==
    ASSUME NEW a, NEW b, a.completed = b.completed, a.number = b.number, a.of = b.of,
           a.superseded = b.superseded
    PROVE  Done(a) = Done(b) /\ Counted(a) = Counted(b)
  <1>1. Done(a) = Done(b)
    BY Zenon DEF Done
  <1>2. Counted(a) = Counted(b)
    BY <1>1, Zenon DEF Counted
  <1>3. QED
    BY <1>1, <1>2

\* The row a request holds is the record as it is, begun if need be.
LEMMA BegunIs ==
    ASSUME LearnerInv, InsertInv, RowInv, NEW s \in Viewers, pc[s] = "claimed"
    PROVE  Record!Begun(OwnerOf[s], req[s].module) = RecordOf(req[s].row)
  <1> DEFINE l == OwnerOf[s]
             row == req[s].row
  <1>0. TypeOK /\ ClaimInv /\ ResolvedInv /\ l \in Learners
    BY OwnerAssumption DEF LearnerInv
  <1>1. /\ row.viewed = progress[l].viewed
        /\ row.completed = progress[l].completed
        /\ row.number = progress[l].number
        /\ row.of = progress[l].of
        /\ row.superseded = progress[l].superseded
    BY <1>0, ClaimedRow
  <1>2. Done(row) = Done(progress[l]) /\ Counted(row) = Counted(progress[l])
    BY <1>1, SameCompletion
  <1>3. Record!Begun(l, req[s].module) =
          IF progress[l].module = None
          THEN [RecordOf(progress[l]) EXCEPT !.reading = req[s].module]
          ELSE RecordOf(progress[l])
    BY <1>0, RecordFields DEF Record!Begun
  <1>4. CASE Started(l)
    <2>1. progress[l].module \in Variants /\ row.module = progress[l].module
      BY <1>0, <1>4, HeldModule DEF RowInv
    <2>2. progress[l].module # None
      BY <2>1, NoneAssumption
    <2>3. RecordOf(row) = RecordOf(progress[l])
      BY <1>1, <1>2, <2>1, RecordFields, ByParts
    <2>4. QED
      BY <1>3, <2>2, <2>3
  <1>5. CASE ~Started(l)
    <2>1. progress[l].module = None
      BY <1>5 DEF Started, NoRow
    <2>2. row.module = req[s].module
      BY <1>5, HeldModule
    <2>3. RecordOf(row) = [RecordOf(progress[l]) EXCEPT !.reading = req[s].module]
      <3> DEFINE a == RecordOf(progress[l])
                 b == RecordOf(row)
      <3>1. /\ IsRecord(a) /\ IsRecord(b) /\ b.reading = req[s].module
            /\ b.seen = a.seen /\ b.done = a.done /\ b.counted = a.counted
        BY <1>1, <1>2, <2>2, RecordFields
      <3> HIDE DEF a, b
      <3>2. b = [a EXCEPT !.reading = b.reading]
        BY <3>1, RecordBegun
      <3>3. QED
        BY <3>1, <3>2 DEF a, b
    <2>4. QED
      BY <1>3, <2>1, <2>3
  <1>6. QED
    BY <1>4, <1>5

\* A commit changes the record of one learner.
LEMMA OneRecord ==
    ASSUME TypeOK, NEW l \in Learners, NEW row, progress' = [progress EXCEPT ![l] = row]
    PROVE  Records' = [Records EXCEPT ![l] = RecordOf(row)]
  <1>1. \A m \in Learners : progress'[m] = IF m = l THEN row ELSE progress[m]
    BY DEF TypeOK
  <1>2. Records' = [m \in Learners |-> RecordOf(progress'[m])]
    BY DEF Records, RecordOf
  <1>3. Records' = [m \in Learners |-> IF m = l THEN RecordOf(row) ELSE RecordOf(progress[m])]
    BY <1>1, <1>2
  <1>4. QED
    BY <1>3 DEF Records

\* record_page_view reads a page.
LEMMA ReadsPage ==
    ASSUME LearnerInv, InsertInv, RowInv, NEW s \in Viewers, RecordPageView(s)
    PROVE  Record!Read(OwnerOf[s], req[s].module, req[s].page) /\ req[s].page \in Pages
           /\ req[s].module \in Variants /\ OwnerOf[s] \in Learners
  <1>0. TypeOK /\ ClaimInv /\ ResolvedInv /\ OwnerOf[s] \in Learners
    BY OwnerAssumption DEF LearnerInv
  <1>1. pc[s] = "claimed" /\ req[s].kind = "view"
        /\ progress' = [progress EXCEPT ![OwnerOf[s]] = Viewed(s, req[s].row)]
    BY DEF RecordPageView, Claimed
  <1>2. /\ req[s].module \in Variants
        /\ req[s].number \in 1..Latest(req[s].module)
        /\ req[s].page \in Pages \cap Text(req[s].module, req[s].number)
        /\ req[s].row \in Row
    BY <1>0, <1>1 DEF ResolvedInv, TypeOK, Request
  <1>3. \E n \in DOMAIN versions[req[s].module] : req[s].page \in versions[req[s].module][n].pages
    <2>1. versions[req[s].module] \in Seq(Version)
      BY <1>0, <1>2 DEF TypeOK, Version
    <2>2. QED
      BY <1>2, <2>1 DEF Text, Latest
  <1>4. RecordOf(Viewed(s, req[s].row))
          = [RecordOf(req[s].row) EXCEPT !.seen = @ \cup {req[s].page}]
    <2> DEFINE row == req[s].row
    <2>1. /\ Viewed(s, row).viewed = row.viewed \cup {req[s].page}
          /\ Viewed(s, row).module = row.module
      BY <1>2, ViewedRow
    <2>2. Done(Viewed(s, row)) = Done(row) /\ Counted(Viewed(s, row)) = Counted(row)
      BY <1>2, ViewedRow, SameCompletion
    <2> HIDE DEF row
    <2>3. RecordOf(Viewed(s, row)) = [RecordOf(row) EXCEPT !.seen = row.viewed \cup {req[s].page}]
      <3> DEFINE a == RecordOf(row)
                 b == RecordOf(Viewed(s, row))
      <3>1. /\ IsRecord(a) /\ IsRecord(b)
            /\ b.reading = a.reading /\ b.done = a.done /\ b.counted = a.counted
            /\ b.seen = row.viewed \cup {req[s].page}
        BY <2>1, <2>2, RecordFields
      <3> HIDE DEF a, b
      <3>2. b = [a EXCEPT !.seen = b.seen]
        BY <3>1, RecordRead
      <3>3. QED
        BY <3>1, <3>2 DEF a, b
    <2>4. RecordOf(row).seen = row.viewed
      BY RecordFields
    <2>5. QED
      BY <2>3, <2>4 DEF row
  <1>5. Records' = [Records EXCEPT ![OwnerOf[s]] =
            [Record!Begun(OwnerOf[s], req[s].module) EXCEPT !.seen = @ \cup {req[s].page}]]
    BY <1>0, <1>1, <1>4, BegunIs, OneRecord
  <1>6. versions' = versions
    BY OthersLeaveVersions DEF Others
  <1>7. QED
    BY <1>0, <1>2, <1>3, <1>5, <1>6 DEF Record!Read, Records

\* complete_module attests to a text that was read.
LEMMA AttestsText ==
    ASSUME LearnerInv, InsertInv, RowInv, NEW s \in Viewers, CompleteModule(s)
    PROVE  /\ Record!Attest(OwnerOf[s], req[s].module, req[s].number)
           /\ req[s].module \in Variants /\ OwnerOf[s] \in Learners
           /\ req[s].number \in DOMAIN versions[req[s].module]
  <1>0. TypeOK /\ ClaimInv /\ ResolvedInv /\ OwnerOf[s] \in Learners
    BY OwnerAssumption DEF LearnerInv
  <1>1. /\ pc[s] = "claimed" /\ Outstanding(s) = {}
        /\ progress' = [progress EXCEPT ![OwnerOf[s]] = Completed(s)]
    BY Zenon DEF CompleteModule, Claimed, Completed
  <1>2. /\ req[s].module \in Variants
        /\ req[s].number \in 1..Latest(req[s].module)
        /\ req[s].row.viewed = progress[OwnerOf[s]].viewed
    BY <1>0, <1>1, ClaimedRow
  <1>3. req[s].number \in DOMAIN versions[req[s].module]
    <2>1. versions[req[s].module] \in Seq(Version)
      BY <1>0, <1>2 DEF TypeOK, Version
    <2>2. QED
      BY <1>2, <2>1 DEF Latest
  <1>4. versions[req[s].module][req[s].number].pages \subseteq Records[OwnerOf[s]].seen
    <2>1. Text(req[s].module, req[s].number) \subseteq req[s].row.viewed
      BY <1>1 DEF Outstanding
    <2>2. Records[OwnerOf[s]].seen = progress[OwnerOf[s]].viewed
      BY <1>0, RecordFields DEF Records
    <2>3. QED
      BY <1>2, <2>1, <2>2 DEF Text
  <1>5. RecordOf(Completed(s))
          = [RecordOf(req[s].row) EXCEPT !.done = <<req[s].module, req[s].number>>,
                                         !.counted = <<req[s].module, req[s].number>>]
    <2>1. /\ Completed(s).viewed = req[s].row.viewed
          /\ Completed(s).module = req[s].row.module
          /\ Completed(s).number = req[s].number /\ Completed(s).of = req[s].module
      BY <1>0, CompletedRow
    <2>2. Completed(s).completed = TRUE /\ Completed(s).superseded = FALSE
      BY <1>0, CompletedRow, Zenon
    <2>3. Done(Completed(s)) = <<req[s].module, req[s].number>>
      <3>1. Done(Completed(s)) = <<Completed(s).of, Completed(s).number>>
        BY <2>2, Zenon DEF Done
      <3>2. QED
        BY <2>1, <3>1
    <2>4. Counted(Completed(s)) = <<req[s].module, req[s].number>>
      BY <2>2, <2>3, Zenon DEF Counted
    <2>5. QED
      <3> DEFINE a == RecordOf(req[s].row)
                 b == RecordOf(Completed(s))
      <3>1. /\ IsRecord(a) /\ IsRecord(b) /\ b.reading = a.reading /\ b.seen = a.seen
            /\ b.done = <<req[s].module, req[s].number>>
            /\ b.counted = <<req[s].module, req[s].number>>
        BY <2>1, <2>3, <2>4, RecordFields
      <3> HIDE DEF a, b
      <3>2. b = [a EXCEPT !.done = b.done, !.counted = b.counted]
        BY <3>1, RecordAttested
      <3>3. QED
        BY <3>1, <3>2 DEF a, b
  <1>6. Records' = [Records EXCEPT ![OwnerOf[s]] =
            [Record!Begun(OwnerOf[s], req[s].module) EXCEPT
                !.done = <<req[s].module, req[s].number>>,
                !.counted = <<req[s].module, req[s].number>>]]
    BY <1>0, <1>1, <1>5, BegunIs, OneRecord
  <1>7. versions' = versions
    BY OthersLeaveVersions DEF Others
  <1>8. QED
    BY <1>0, <1>2, <1>3, <1>4, <1>6, <1>7 DEF Record!Attest, Records

\* switch_variant_language moves the record.
LEMMA SwitchesText ==
    ASSUME LearnerInv, InsertInv, RowInv, NEW s \in Viewers, SwitchVariant(s)
    PROVE  /\ Record!Switch(OwnerOf[s], req[s].module)
           /\ req[s].module \in Variants /\ OwnerOf[s] \in Learners
  <1> DEFINE v == req[s].module
             row == req[s].row
  <1>0. TypeOK /\ ClaimInv /\ ResolvedInv /\ OwnerOf[s] \in Learners
    BY OwnerAssumption DEF LearnerInv
  <1>1. /\ pc[s] = "claimed"
        /\ progress' = [progress EXCEPT ![OwnerOf[s]] = Switched(row, v)]
    BY DEF SwitchVariant, Claimed
  <1>2. v \in Variants /\ req[s].number \in 1..Latest(v) /\ row \in Row
    BY <1>0, <1>1, ClaimedRow
  <1>3. versions[v] # <<>>
    BY <1>2 DEF Latest
  <1>4. RecordOf(Switched(row, v))
          = IF RecordOf(row).reading = v THEN RecordOf(row)
            ELSE [RecordOf(row) EXCEPT !.reading = v, !.seen = {}]
    <2>1. Done(Switched(row, v)) = Done(row) /\ Counted(Switched(row, v)) = Counted(row)
      BY <1>2, SwitchedRow, SameCompletion
    <2>2. /\ Switched(row, v).module = v
          /\ Switched(row, v).viewed = IF row.module = v THEN row.viewed ELSE {}
      BY <1>2, SwitchedRow
    <2> HIDE DEF row, v
    <2>3. CASE row.module = v
      BY <2>1, <2>2, <2>3, RecordFields, ByParts
    <2>4. CASE row.module # v
      <3> DEFINE a == RecordOf(row)
                 b == RecordOf(Switched(row, v))
      <3>1. /\ IsRecord(a) /\ IsRecord(b) /\ b.done = a.done /\ b.counted = a.counted
            /\ b.reading = v /\ b.seen = {} /\ a.reading # v
        BY <2>1, <2>2, <2>4, RecordFields
      <3> HIDE DEF a, b
      <3>2. b = [a EXCEPT !.reading = b.reading, !.seen = b.seen]
        BY <3>1, RecordMoved
      <3>3. QED
        BY <3>1, <3>2 DEF a, b
    <2>5. QED
      BY <2>3, <2>4, RecordFields
  <1>5. Record!Begun(OwnerOf[s], v) = RecordOf(row)
    BY <1>1, BegunIs
  <1>6. Records' = [Records EXCEPT ![OwnerOf[s]] =
            IF Record!Begun(OwnerOf[s], v).reading = v THEN Record!Begun(OwnerOf[s], v)
            ELSE [Record!Begun(OwnerOf[s], v) EXCEPT !.reading = v, !.seen = {}]]
    <2>1. Records' = [Records EXCEPT ![OwnerOf[s]] = RecordOf(Switched(row, v))]
      BY <1>0, <1>1, OneRecord
    <2> HIDE DEF row, v
    <2>2. QED
      BY <1>4, <1>5, <2>1
  <1>7. versions' = versions
    BY OthersLeaveVersions DEF Others
  <1>8. QED
    BY <1>0, <1>2, <1>3, <1>6, <1>7 DEF Record!Switch, Records

\* publish_module adds a text and sends its readers back at once.
LEMMA PublishesText ==
    ASSUME LearnerInv, FoundInv, RowInv, NEW v \in Variants, NEW text \in Drafts(v),
           NEW kind \in Kinds, PublishModule(v, text, kind)
    PROVE  Record!Publish(v, text, kind)
  <1>0. TypeOK
    BY DEF LearnerInv
  <1>1. versions' = [versions EXCEPT ![v] = Append(@, [pages |-> text, kind |-> kind])]
    BY DEF PublishModule, Frozen
  <1>2. CASE kind = "minor" /\ progress' = progress
    <2>1. Records' = Records
      BY <1>2 DEF Records, RecordOf
    <2>2. QED
      BY <1>1, <1>2, <2>1 DEF Record!Publish, Records
  <1>3. CASE /\ kind = "substantive" /\ reach[v] # None
             /\ progress' = [l \in Learners |->
                   IF l \in reach[v] THEN SentBack(progress[l]) ELSE progress[l]]
    <2> DEFINE sent == {l \in Learners : l \in reach[v] /\ Started(l)}
    <2>1. sent \in SUBSET (Learners \ Record!Reading(None))
      <3>1. ASSUME NEW l \in sent PROVE l \notin Record!Reading(None)
        <4>1. progress[l].module # None
          BY <3>1, NoneAssumption DEF RowInv
        <4>2. QED
          BY <4>1, RecordFields DEF Record!Reading
      <3>2. QED
        BY <3>1
    <2>2. Record!Reading(v) \subseteq sent
      <3>1. ASSUME NEW l \in Record!Reading(v) PROVE l \in sent
        <4>1. l \in Learners /\ progress[l].module = v
          BY <3>1, RecordFields DEF Record!Reading
        <4>2. l \in reach[v]
          BY <1>3, <4>1 DEF FoundInv
        <4>3. Started(l)
          BY <4>1, NoneAssumption DEF Started, NoRow
        <4>4. QED
          BY <4>1, <4>2, <4>3
      <3>2. QED
        BY <3>1
    <2>3. ASSUME NEW l \in Learners
          PROVE  RecordOf(progress'[l]) =
                    IF l \in sent THEN [RecordOf(progress[l]) EXCEPT !.seen = {}, !.counted = None]
                    ELSE RecordOf(progress[l])
      <3>1. progress[l] \in Row
        BY <1>0 DEF TypeOK
      <3>2. CASE l \in sent
        <4>1. progress'[l] = SentBack(progress[l])
          BY <1>3, <3>2
        <4> DEFINE row == progress[l]
        <4>2. /\ SentBack(row).viewed = {} /\ SentBack(row).module = row.module
              /\ SentBack(row).completed = row.completed
              /\ SentBack(row).number = row.number /\ SentBack(row).of = row.of
          BY <3>1, SentBackRow
        <4>3. Done(SentBack(row)) = Done(row)
          BY <4>2, Zenon DEF Done
        <4>4. Counted(SentBack(row)) = None
          <5>1. SentBack(row).completed = row.completed
                /\ SentBack(row).superseded = row.completed
            BY <3>1, SentBackRow
          <5>2. QED
            BY <5>1, Zenon DEF Counted, Done
        <4> HIDE DEF row
        <4>5. RecordOf(SentBack(row)) = [RecordOf(row) EXCEPT !.seen = {}, !.counted = None]
          <5> DEFINE a == RecordOf(row)
                     b == RecordOf(SentBack(row))
          <5>1. /\ IsRecord(a) /\ IsRecord(b) /\ b.reading = a.reading /\ b.done = a.done
                /\ b.seen = {} /\ b.counted = None
            BY <4>2, <4>3, <4>4, RecordFields
          <5> HIDE DEF a, b
          <5>2. b = [a EXCEPT !.seen = b.seen, !.counted = b.counted]
            BY <5>1, RecordSentBack
          <5>3. QED
            BY <5>1, <5>2 DEF a, b
        <4>6. QED
          BY <3>2, <4>1, <4>5 DEF row
      <3>3. CASE l \notin sent
        <4>1. progress'[l] = progress[l]
          BY <1>3, <3>3, NobodySentBack DEF Started
        <4>2. QED
          BY <3>3, <4>1
      <3>4. QED
        BY <3>2, <3>3
    <2>4. Records' = [l \in Learners |->
              IF l \in sent THEN [Records[l] EXCEPT !.seen = {}, !.counted = None] ELSE Records[l]]
      <3>1. Records' = [l \in Learners |-> RecordOf(progress'[l])]
        BY DEF Records, RecordOf
      <3>2. \A l \in Learners : Records[l] = RecordOf(progress[l])
        BY DEF Records
      <3> HIDE DEF sent
      <3>3. QED
        BY <2>3, <3>1, <3>2
    <2> HIDE DEF sent
    <2>5. QED
      BY <1>1, <1>3, <2>1, <2>2, <2>4 DEF Record!Publish, Records
  <1>4. QED
    BY <1>2, <1>3 DEF PublishModule, Kinds

\* One learner's requests and the author's publishes interleave as if each were
\* one step on the record: whatever a request resolved and however long it waits,
\* its commit is a view of a published page, an attestation of a published text
\* that was read, or a switch, applied to the record as it is, and a substantive
\* publish counts for all of its readers at once.
THEOREM RequestsImplementRecord == Spec => ImplementsRecord
  <1>1. Init => Record!Init
    <2>1. NoRow.module = None /\ NoRow.viewed = {}
      BY DEF NoRow
    <2>2. NoRow.completed = FALSE
      BY Zenon DEF NoRow
    <2>3. Done(NoRow) = None
      BY <2>2, Zenon DEF Done
    <2>4. Counted(NoRow) = None
      BY <2>3, Zenon DEF Counted
    <2>5. RecordOf(NoRow) = Record!Unwritten
      BY <2>1, <2>3, <2>4 DEF RecordOf, Record!Unwritten
    <2>6. QED
      BY <2>5 DEF Init, Record!Init
  <1>2. Init => InsertInv /\ FoundInv /\ RowInv
    BY DEF Init, InsertInv, FoundInv, RowInv, Inserting, Started
  <1>3. LearnerInv /\ LearnerInv' /\ (InsertInv /\ FoundInv /\ RowInv) /\ [Next]_vars
          => (InsertInv /\ FoundInv /\ RowInv)'
    BY InsertStep, FoundStep, RowInvStep
  <1>4. LearnerInv /\ (InsertInv /\ FoundInv /\ RowInv) /\ [Next]_vars
          => [Record!Next]_Record!vars
    <2> SUFFICES ASSUME LearnerInv, InsertInv, FoundInv, RowInv, [Next]_vars
                 PROVE  Record!Next \/ UNCHANGED Record!vars
      OBVIOUS
    <2>1. CASE UNCHANGED <<versions, progress>>
      BY <2>1 DEF Record!vars, RecordOf
    <2>2. ASSUME NEW v \in Variants, NEW text \in Drafts(v), NEW kind \in Kinds,
                 PublishModule(v, text, kind)
          PROVE  Record!Next
      <3>1. text \in SUBSET Pages /\ kind \in Record!Kinds
        BY DraftType DEF LearnerInv, Kinds, Record!Kinds
      <3>2. QED
        BY <2>2, <3>1, PublishesText DEF Record!Next
    <2>3. ASSUME NEW v \in Variants,
                 StartReset(v) \/ AbandonPublish(v) \/ UnpublishModule(v) \/ DeleteModule(v)
          PROVE  UNCHANGED <<versions, progress>>
      BY <2>3 DEF StartReset, AbandonPublish, UnpublishModule, DeleteModule, learning
    <2>4. ASSUME NEW s \in Viewers, RecordPageView(s)
          PROVE  Record!Next
      BY <2>4, ReadsPage DEF Record!Next
    <2>5. ASSUME NEW s \in Viewers, CompleteModule(s)
          PROVE  Record!Next
      BY <2>5, AttestsText DEF Record!Next
    <2>6. ASSUME NEW s \in Viewers, SwitchVariant(s)
          PROVE  Record!Next
      BY <2>6, SwitchesText DEF Record!Next
    <2>7. ASSUME NEW s \in Viewers,
                 \/ OpenViewer(s) \/ Attest(s) \/ ClaimProgress(s) \/ RollBack(s)
                 \/ \E p \in Pages : ShowPage(s, p)
                 \/ \E v \in Variants : ChooseLanguage(s, v)
          PROVE  UNCHANGED <<versions, progress>>
      <3>1. versions' = versions
        BY <2>7, OthersLeaveVersions DEF Others
      <3>2. progress' = progress
        BY <2>7, Zenon DEF OpenViewer, Attest, ClaimProgress, RollBack, ShowPage, ChooseLanguage
      <3>3. QED
        BY <3>1, <3>2
    <2>8. CASE vars' = vars
      BY <2>1, <2>8 DEF vars, authoring, learning
    <2>9. CASE Next
      <3>1. CASE \E v \in Variants : \/ Publishes(v) \/ AbandonPublish(v)
                                     \/ UnpublishModule(v) \/ DeleteModule(v)
        BY <3>1, <2>1, <2>2, <2>3 DEF Publishes
      <3>2. CASE \E s \in Viewers : Others(s)
        BY <3>2, <2>1, <2>4, <2>5, <2>6, <2>7 DEF Others
      <3>3. QED
        BY <2>9, <3>1, <3>2, Zenon DEF Next, Others
    <2>10. QED
      BY <2>8, <2>9
  <1>5. QED
    BY <1>1, <1>2, <1>3, <1>4, LearnerInvariant, PTL DEF Spec, Record!Spec, ImplementsRecord
=============================================================================
