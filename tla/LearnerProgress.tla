--------------------------- MODULE LearnerProgress ---------------------------
(***************************************************************************)
(* One translation group as its learners meet it: the language variants    *)
(* and their published versions (routes/content.py), the learners'         *)
(* `module_progress` rows (routes/learning.py) and the viewers open in     *)
(* their browsers (ModuleViewerPage.tsx).                                  *)
(*                                                                         *)
(* A learner request resolves which version it is about from unlocked      *)
(* reads, then claims the progress row under its lock, then commits or     *)
(* refuses: three steps, between which publishes and the learner's other   *)
(* viewers go on.  PageDraft has the inside of the author's handlers; here *)
(* each is one step, but for the reset of a substantive publish: its       *)
(* UPDATE sees the rows committed when it starts (READ COMMITTED) and      *)
(* waits for those that are locked.                                        *)
(*                                                                         *)
(* An author's handler holds the lock of the modules row (FOR UPDATE).  No *)
(* learner request asks for that row, but PostgreSQL does on its behalf: a *)
(* write of a foreign key into `modules` (module_id, completed_module_id)  *)
(* locks the row it names FOR KEY SHARE until the commit, and the two      *)
(* exclude each other.                                                     *)
(*                                                                         *)
(* Every learner here may read the group (an assignment or the open        *)
(* catalog), so a variant is readable while it is published.               *)
(***************************************************************************)
EXTENDS Naturals, Sequences

CONSTANTS
    Learners,
    Viewers,       \* browser tabs, each with one request at a time
    OwnerOf,       \* whose each viewer is
    Variants,      \* the group's modules, one per language
    PagesOf,       \* the page ids each variant's draft may ever use
    MaxVersions,   \* model bound on the versions of each variant, by variant
    None

ASSUME OwnerAssumption == OwnerOf \in [Viewers -> Learners]
ASSUME NoneAssumption ==
    /\ None \notin Viewers
    /\ None \notin Variants
    /\ \A v \in Variants : None \notin PagesOf[v]

VARIABLES
    status,    \* of each variant
    versions,  \* of each variant, in publishing order, kept as what was published
    progress,  \* each learner's module_progress row, or NoRow
    reach,     \* the learners whose rows a variant's running reset found, or
               \* None; the modules row is locked for as long
    lock,      \* the viewer whose transaction holds the learner's row, or None
    viewer,    \* what each browser tab shows
    pc,        \* where each viewer's request is
    req,       \* what each viewer's request asks for, resolved and has read
    resets,    \* history: how often each learner's row was sent back
    recorded,  \* history: of every view committed since the row was sent back,
               \* the page and the version the viewer showed it in
    attested   \* history: `resets` at each learner's last completion

learning == <<progress, lock, viewer, pc, req>>
history == <<resets, recorded, attested>>
authoring == <<status, versions, reach>>
vars == <<authoring, learning, history>>

Kinds == {"minor", "substantive"}
Pages == UNION {PagesOf[v] : v \in Variants}

NoRow == [module |-> None, viewed |-> {}, page |-> None, completed |-> FALSE,
          number |-> 0, of |-> None, superseded |-> FALSE]
NoRequest == [kind |-> None, module |-> None, number |-> 0, page |-> None,
              shown |-> 0, row |-> NoRow]
Closed == [module |-> None, number |-> 0, viewed |-> {}]

Init ==
    /\ status = [v \in Variants |-> "draft"]
    /\ versions = [v \in Variants |-> <<>>]
    /\ progress = [l \in Learners |-> NoRow]
    /\ reach = [v \in Variants |-> None]
    /\ lock = [l \in Learners |-> None]
    /\ viewer = [s \in Viewers |-> Closed]
    /\ pc = [s \in Viewers |-> "idle"]
    /\ req = [s \in Viewers |-> NoRequest]
    /\ resets = [l \in Learners |-> 0]
    /\ recorded = [l \in Learners |-> {}]
    /\ attested = [l \in Learners |-> 0]

Started(l) == progress[l] # NoRow

\* A transaction has inserted its learner's row, and not committed it.
Inserting(s) == pc[s] = "claimed" /\ ~Started(OwnerOf[s])

Text(v, n) == versions[v][n].pages
Latest(v) == Len(versions[v])

-----------------------------------------------------------------------------
(* The author.                                                             *)

\* The drafts an author can have by the next publish: pages of the latest
\* version, edited or not, and pages whose ids were never published before.
Drafts(v) ==
    LET everPublished == UNION {versions[v][n].pages : n \in 1..Latest(v)}
        kept == IF Latest(v) = 0 THEN {} ELSE Text(v, Latest(v))
    IN  (SUBSET (kept \cup (PagesOf[v] \ everPublished))) \ {{}}

\* Mutants of SentBack, of RowIsFree and of KeyIsFree.
SentBackWithViews(row) == [row EXCEPT !.page = None, !.superseded = row.completed]
NoRowLock(l) == TRUE
NoKeyLock(v) == TRUE

\* No author's transaction keeps a learner's from naming the variant ...
KeyIsFree(v) == reach[v] = None

\* ... and no learner's keeps the author's from the variant's row.
ModuleIsFree(v) == \A s \in Viewers : Inserting(s) => req[s].module # v

\* No transaction holds the learner's row.
RowIsFree(l) == lock[l] = None

\* _send_learners_back: views and bookmark go, a completion is superseded.
SentBack(row) ==
    [row EXCEPT !.viewed = {}, !.page = None, !.superseded = row.completed]

\* The statement's snapshot: a row not committed by now, the first read of a
\* learner who has just begun, is not among those it updates.
StartReset(v) ==
    /\ status[v] # "deleted"
    /\ KeyIsFree(v)
    /\ ModuleIsFree(v)
    /\ reach' = [reach EXCEPT ![v] = {l \in Learners : Started(l)}]
    /\ UNCHANGED <<status, versions, learning, history>>

Frozen(v, text, kind) == Append(versions[v], [pages |-> text, kind |-> kind])

\* publish_module, to its commit.  The rows found are all locked by then, and
\* each is sent back as it stands, not as it stood at the start.
PublishModule(v, text, kind) ==
    /\ status[v] # "deleted"
    /\ status' = [status EXCEPT ![v] = "published"]
    /\ versions' = [versions EXCEPT ![v] = Frozen(v, text, kind)]
    /\ reach' = [reach EXCEPT ![v] = None]
    /\ \/ /\ kind = "minor"
          /\ reach[v] = None
          /\ ModuleIsFree(v)
          /\ UNCHANGED <<progress, resets, recorded>>
       \/ /\ kind = "substantive"
          /\ reach[v] # None
          /\ \A l \in reach[v] : RowIsFree(l)
          /\ progress' = [l \in Learners |->
                IF l \in reach[v] THEN SentBack(progress[l]) ELSE progress[l]]
          /\ resets' = [l \in Learners |->
                IF l \in reach[v] THEN resets[l] + 1 ELSE resets[l]]
          /\ recorded' = [l \in Learners |->
                IF l \in reach[v] THEN {} ELSE recorded[l]]
    /\ UNCHANGED <<lock, viewer, pc, req, attested>>

\* The publish fails or its process dies: rolled back.
AbandonPublish(v) ==
    /\ reach[v] # None
    /\ reach' = [reach EXCEPT ![v] = None]
    /\ UNCHANGED <<status, versions, learning, history>>

\* unpublish_module
UnpublishModule(v) ==
    /\ reach[v] = None
    /\ ModuleIsFree(v)
    /\ status[v] = "published"
    /\ status' = [status EXCEPT ![v] = "draft"]
    /\ UNCHANGED <<versions, reach, learning, history>>

\* delete_module, as far as learners go: their progress is left untouched.
DeleteModule(v) ==
    /\ reach[v] = None
    /\ ModuleIsFree(v)
    /\ status[v] # "deleted"
    /\ status' = [status EXCEPT ![v] = "deleted"]
    /\ UNCHANGED <<versions, reach, learning, history>>

-----------------------------------------------------------------------------
(* Resolving, before the lock.                                             *)

\* _published_variants, may_read_module
Readable == {v \in Variants : status[v] = "published"}

\* _pick_variant: the variant being read while it is readable, else any
\* readable one: the profile language and the group's primary variant may be
\* any of them by the time of the request.
Picks(l) ==
    IF Started(l) /\ progress[l].module \in Readable
    THEN {progress[l].module} ELSE Readable

Asks(s, kind, v, p) ==
    /\ pc' = [pc EXCEPT ![s] = "resolved"]
    /\ req' = [req EXCEPT ![s] = [kind |-> kind, module |-> v, number |-> Latest(v),
                                  page |-> p, shown |-> viewer[s].number,
                                  row |-> NoRow]]

\* get_my_module and the viewer's applyModule: a read, and only a read.
OpenViewer(s) ==
    /\ pc[s] = "idle"
    /\ \E v \in Picks(OwnerOf[s]) :
        viewer' = [viewer EXCEPT ![s] =
                     [module |-> v, number |-> Latest(v),
                      viewed |-> progress[OwnerOf[s]].viewed]]
    /\ UNCHANGED <<authoring, progress, lock, pc, req, history>>

\* The viewer displays a page of the version it loaded and reports it;
\* record_page_view resolves its own version and finds the page in it.
ShowPage(s, p) ==
    LET l == OwnerOf[s]
        at == viewer[s]
    IN  /\ pc[s] = "idle"
        /\ at.module # None
        /\ p \in Text(at.module, at.number)
        /\ \E v \in Picks(l) :
            /\ p \in Text(v, Latest(v))
            /\ Asks(s, "view", v, p)
        /\ UNCHANGED <<authoring, progress, lock, viewer, history>>

\* The viewer offers the attestation once it knows all its pages viewed;
\* complete_module resolves its own version.
Attest(s) ==
    LET at == viewer[s]
    IN  /\ pc[s] = "idle"
        /\ at.module # None
        /\ Text(at.module, at.number) \subseteq at.viewed
        /\ \E v \in Picks(OwnerOf[s]) : Asks(s, "complete", v, None)
        /\ UNCHANGED <<authoring, progress, lock, viewer, history>>

\* switch_variant_language: the variant is the one asked for.
ChooseLanguage(s, v) ==
    /\ pc[s] = "idle"
    /\ viewer[s].module \notin {None, v}
    /\ v \in Readable
    /\ Asks(s, "switch", v, None)
    /\ UNCHANGED <<authoring, progress, lock, viewer, history>>

-----------------------------------------------------------------------------
(* Claiming, under the lock.                                               *)

\* _claim_progress: the row, inserted if this is the first read, and its lock.
\* The insert names the variant; a row that is there already is left alone.
ClaimProgress(s) ==
    LET l == OwnerOf[s]
    IN  /\ pc[s] = "resolved"
        /\ RowIsFree(l)
        /\ Started(l) \/ KeyIsFree(req[s].module)
        /\ lock' = [lock EXCEPT ![l] = s]
        /\ req' = [req EXCEPT ![s].row =
                     IF Started(l) THEN progress[l]
                     ELSE [NoRow EXCEPT !.module = req[s].module]]
        /\ pc' = [pc EXCEPT ![s] = "claimed"]
        /\ UNCHANGED <<authoring, progress, viewer, history>>

\* The transaction ends, and its lock with it.
Ends(s) ==
    /\ lock' = [lock EXCEPT ![OwnerOf[s]] = IF @ = s THEN None ELSE @]
    /\ pc' = [pc EXCEPT ![s] = "idle"]
    /\ req' = [req EXCEPT ![s] = NoRequest]
    /\ UNCHANGED <<authoring, resets>>

Claimed(s, kind) == pc[s] = "claimed" /\ req[s].kind = kind

\* The answer brings the viewer's list of viewed pages up to date, or is lost.
Answers(s, row) ==
    \/ viewer' = [viewer EXCEPT ![s].viewed = row.viewed]
    \/ UNCHANGED viewer

\* Mutant of Viewed: the row follows the resolved variant.
ViewedElsewhere(s, row) ==
    [row EXCEPT !.viewed = @ \cup {req[s].page}, !.page = req[s].page, !.module = req[s].module]

Viewed(s, row) == [row EXCEPT !.viewed = @ \cup {req[s].page}, !.page = req[s].page]

\* record_page_view, from the claim to the commit
RecordPageView(s) ==
    LET l == OwnerOf[s]
        row == Viewed(s, req[s].row)
    IN  /\ Claimed(s, "view")
        /\ progress' = [progress EXCEPT ![l] = row]
        /\ recorded' = [recorded EXCEPT ![l] = @ \cup {[page |-> req[s].page,
                                                 shown |-> req[s].shown]}]
        /\ Answers(s, row)
        /\ Ends(s)
        /\ UNCHANGED attested

Outstanding(s) == Text(req[s].module, req[s].number) \ req[s].row.viewed

\* complete_module, past the check for outstanding pages
CompleteModule(s) ==
    LET l == OwnerOf[s]
    IN  /\ Claimed(s, "complete")
        /\ Outstanding(s) = {}
        /\ req[s].row.of = req[s].module \/ KeyIsFree(req[s].module)
        /\ progress' = [progress EXCEPT ![l] =
                          [req[s].row EXCEPT !.completed = TRUE,
                                             !.number = req[s].number,
                                             !.of = req[s].module,
                                             !.superseded = FALSE]]
        /\ attested' = [attested EXCEPT ![l] = resets[l]]
        /\ Ends(s)
        /\ UNCHANGED <<viewer, recorded>>

\* Mutant of Switched: the completion goes.
SwitchedStartingOver(row, v) == [NoRow EXCEPT !.module = v]

Switched(row, v) ==
    IF row.module = v THEN row
    ELSE [row EXCEPT !.module = v, !.viewed = {}, !.page = None]

\* switch_variant_language, from the claim to the commit; the answer is the
\* chosen text, which the viewer then shows.
SwitchVariant(s) ==
    LET l == OwnerOf[s]
        v == req[s].module
        row == Switched(req[s].row, v)
    IN  /\ Claimed(s, "switch")
        /\ req[s].row.module = v \/ KeyIsFree(v)
        /\ progress' = [progress EXCEPT ![l] = row]
        /\ \/ viewer' = [viewer EXCEPT ![s] = [module |-> v, number |-> req[s].number,
                                               viewed |-> row.viewed]]
           \/ UNCHANGED viewer
        /\ Ends(s)
        /\ UNCHANGED <<recorded, attested>>

\* Pages outstanding, a lost connection or a dead process: rolled back, an
\* inserted row included.
RollBack(s) ==
    /\ pc[s] \in {"resolved", "claimed"}
    /\ Ends(s)
    /\ UNCHANGED <<progress, viewer, recorded, attested>>

-----------------------------------------------------------------------------

Publishes(v) ==
    /\ Latest(v) < MaxVersions[v]
    /\ \/ StartReset(v)
       \/ \E text \in Drafts(v), kind \in Kinds : PublishModule(v, text, kind)

Next ==
    \/ \E v \in Variants :
        \/ Publishes(v)
        \/ AbandonPublish(v)
        \/ UnpublishModule(v)
        \/ DeleteModule(v)
    \/ \E s \in Viewers :
        \/ OpenViewer(s)
        \/ \E p \in Pages : ShowPage(s, p)
        \/ Attest(s)
        \/ \E v \in Variants : ChooseLanguage(s, v)
        \/ ClaimProgress(s)
        \/ RecordPageView(s)
        \/ CompleteModule(s)
        \/ SwitchVariant(s)
        \/ RollBack(s)

Spec == Init /\ [][Next]_vars

-----------------------------------------------------------------------------
(* Properties.                                                             *)

\* The shape of every variant, row, request and viewer; what is published has
\* a version.
Row == [module : Variants \cup {None}, viewed : SUBSET Pages,
        page : Pages \cup {None}, completed : BOOLEAN, number : Nat,
        of : Variants \cup {None}, superseded : BOOLEAN]
Request == [kind : {None, "view", "complete", "switch"},
            module : Variants \cup {None}, number : Nat,
            page : Pages \cup {None}, shown : Nat, row : Row]

TypeOK ==
    /\ status \in [Variants -> {"draft", "published", "deleted"}]
    /\ versions \in [Variants -> Seq([pages : SUBSET Pages, kind : Kinds])]
    /\ \A v \in Variants : status[v] = "published" => versions[v] # <<>>
    /\ reach \in [Variants -> (SUBSET Learners) \cup {None}]
    /\ progress \in [Learners -> Row]
    /\ lock \in [Learners -> Viewers \cup {None}]
    /\ viewer \in [Viewers -> [module : Variants \cup {None}, number : Nat,
                               viewed : SUBSET Pages]]
    /\ pc \in [Viewers -> {"idle", "resolved", "claimed"}]
    /\ req \in [Viewers -> Request]
    /\ resets \in [Learners -> Nat]
    /\ recorded \in [Learners -> SUBSET [page : Pages \cup {None}, shown : Nat]]
    /\ attested \in [Learners -> Nat]

\* A completion that counts rests on views recorded since the learner was last
\* sent back, one for every page of the version it names (complete_module with
\* _send_learners_back): clicking once on the last page is not enough.
GateIsReal ==
    \A l \in Learners :
        progress[l].completed /\ ~progress[l].superseded =>
            \A p \in Text(progress[l].of, progress[l].number) :
                \E view \in recorded[l] : view.page = p

\* A completion is superseded exactly when the learner was sent back since,
\* by a publish in whichever language, however the two interleave.
SupersededExactly ==
    \A l \in Learners :
        progress[l].completed =>
            (progress[l].superseded <=> attested[l] < resets[l])

\* The bookmark is a page the row still counts as read, so resuming never
\* lands on text the learner was sent back to (current_page_id).
BookmarkWasRead ==
    \A l \in Learners : progress[l].page # None => progress[l].page \in progress[l].viewed

\* Opening, viewing and attesting never pull a learner onto another variant:
\* only switch_variant_language moves a row's module (_claim_progress, whose
\* insert yields to the row that exists).
VariantMovesOnlyOnSwitch ==
    [][\A l \in Learners :
         Started(l) /\ progress'[l].module # progress[l].module =>
            \E s \in Viewers : /\ OwnerOf[s] = l
                               /\ Claimed(s, "switch")
                               /\ progress'[l].module = req[s].module]_vars

\* A substantive publish sends back every learner who is reading that variant,
\* those included whose first read or whose switch to it was under way: the
\* foreign key makes them wait (_send_learners_back, "every learner of the group
\* is reset").  A first read of another variant may be missed.
EveryReaderIsSentBack ==
    [][\A v \in Variants, l \in Learners :
         /\ versions'[v] # versions[v]
         /\ versions'[v][Len(versions'[v])].kind = "substantive"
         /\ progress[l].module = v
         => resets'[l] = resets[l] + 1]_vars

\* What a learner completed is never unsaid: no publish, unpublish, delete,
\* view or switch erases a completion or changes which text it names.
EvidenceKept ==
    [][\A l \in Learners :
         progress[l].completed =>
            /\ progress'[l].completed
            /\ \/ /\ progress'[l].of = progress[l].of
                  /\ progress'[l].number = progress[l].number
               \/ \E s \in Viewers : OwnerOf[s] = l /\ Claimed(s, "complete")]_vars

\* No page quietly un-views itself when two viewers report at once: views go
\* only with a substantive publish or a switch (_claim_progress's row lock).
NoViewLost ==
    [][\A l \in Learners :
         progress[l].viewed \subseteq progress'[l].viewed
            \/ resets'[l] # resets[l]
            \/ progress'[l].module # progress[l].module]_vars

\* routes/learning.py complete_module: "the check above is a real gate on the
\* new text rather than a formality satisfied by the old one".  The text a
\* completion rests on was on screen no earlier than the last substantive
\* version the completion covers.
LastRewrite(v, n) ==
    CHOOSE k \in 0..n :
        /\ k > 0 => versions[v][k].kind = "substantive"
        /\ \A m \in (k + 1)..n : versions[v][m].kind # "substantive"

NewTextWasShown ==
    \A l \in Learners :
        progress[l].completed /\ ~progress[l].superseded =>
            LET v == progress[l].of
                n == progress[l].number
            IN  \A p \in Text(v, n) :
                  \E view \in recorded[l] :
                    view.page = p /\ view.shown >= LastRewrite(v, n)

\* routes/content.py publish_module: "a learner whose attestation is racing this
\* publish takes the progress row's lock either before this runs (...) or after
\* it".  Neither waits for the other for ever: no attestation holds the row a
\* reset waits for while it waits for the modules row the publish holds.
NoDeadlock ==
    \A s \in Viewers, v \in Variants :
        ~ /\ Claimed(s, "complete")
          /\ Outstanding(s) = {}
          /\ req[s].module = v
          /\ req[s].row.of # v
          /\ reach[v] # None
          /\ OwnerOf[s] \in reach[v]
=============================================================================
