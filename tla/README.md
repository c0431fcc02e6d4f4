# TrainDrain, verified

TrainDrain is a learning platform: Content Managers write modules (pages,
language variants, files), publish frozen versions of them and assign them;
learners read them page by page and attest that they have; administrators manage
accounts. A FastAPI backend (`src/src/backend/app`) keeps everything in
PostgreSQL (READ COMMITTED, one session and one transaction per request) and the
files in S3; a React frontend (`src/src/frontend/src`) talks to it. There is no
other process but a daily reminder job.

This directory models the parts of it whose correctness depends on the order in
which requests interleave, fail and retry. TLC checks small instances; TLAPS
proves every safety property the passing runs check for any number of tabs, pages,
learners, variants, versions, requests, files and blocks of a document.

## Inventory

| Component | State | Operations | What is hard | What makes it correct |
|---|---|---|---|---|
| Working draft and versions (`routes/content.py`, `ModulePagesPanel.tsx`) | `modules`, `module_pages`, `module_versions` rows; the token each screen holds | create, update, delete, reorder pages; publish, unpublish, delete a module; list pages | several authors; row lock and optimistic token together; reads of two statements; lost answers | no blind write, contiguous positions, version numbering, learners served only what was published, `deleted` is terminal |
| Learner progress (`routes/learning.py`, `ModuleViewerPage.tsx`) | `module_progress` rows; what each viewer shows | open, view a page, attest, switch language; the reset of a substantive publish | versions resolved before the row is locked; two tabs; publishes in between; foreign-key locks | completions rest on views of the text they name; a reset reaches everybody; no view is lost; evidence is kept |
| Asset store (`routes/assets.py`, `_duplicate_assets`, `routes/transfer.py`, `routes/document_import.py`) | `module_assets` rows, S3 objects | upload, delete, delete with the module, duplicate, both imports | rows roll back, objects do not; the store fails or is unsure; crashes | rows keep their objects, objects do not slip away, the quota, deletes leave nothing |
| Files in texts (`_reference_counts`, `_rewrite_asset_references`, `useModuleAssets.ts`, `PageEditor.tsx`) | the URLs in page bodies and snapshots; the list and counts on a screen | insert, save, publish, delete a file, duplicate, export | nothing ties a text to its files; counts are as old as the screen; two statements | who makes a gap has been told; a copy loses no file |
| Translation groups (`link_variant`, `set_primary_variant`) | `module_translation_groups`, and what names them | create, duplicate, link, nominate, delete; assign and read against them | no lock on a group; the group left behind is deleted by cascade | groups are whole, nothing refers to a group its module has left, no progress lost |
| Assignments and reminders (`routes/assignments.py`, `reminders.py`, `jobs/send_reminders.py`) | `assignments`, `module_reminders`, mail sent | assign, unassign, nudge, the daily job | mail cannot be rolled back; the cap is read, then acted on | at most one mail a day, everybody reached |
| Accounts (`routes/auth.py`, `two_factor.py`, `invites.py`, `profile.py`, `admin.py`, `security/*`) | `users`, sessions, second factor, challenges, links, recovery codes, roles | log in and out, reset, enrol, disable, erase, invite | no row is locked by what reads it: single use and every check are a read and then a write; commits in the middle of a handler | single use, ended sessions stay ended, changes end sessions, erasure lasts |
| Conversion and validation (`content/document_import.py`, `content/validation.py`, `routes/document_import.py`) | none but what one import collects | Markdown, Word, PDF to pages and a report; limits on images; the verdict | lists, page breaks, images and dropped sections in any order | text is shown or reported, but for known silent losses, and in order; a refusal has a reason |
| Editing presence | `module_edit_sessions` | heartbeat, stop | reordered beats | advisory only |
| Search, reports, mail text, audit | none, or append-only | | | pure functions and queries |

Components interact through the database: an author's publish writes learners'
rows, a module's delete writes the asset store and the assignments, a learner's
foreign keys lock authors' rows.

## Modules

| Module | Role |
|---|---|
| `PageDraft` | the working draft of one module, its handlers, their row lock and the screens |
| `DraftRegister` | what the token promises, with no rows, locks or requests: a compare-and-swap register |
| `PageDraftRefinement` | the refinement mapping between the two |
| `PageDraftProofs` | theorems about `PageDraft` and the refinement, and what its rows keep |
| `LearnerProgress`, `LearnerProgressProofs` | one translation group, its learners' rows and their viewers; theorems, the refinement among them |
| `LearnerRecord` | what a learner's record promises, with no requests, locks or tabs: each commit one step on the record as it is |
| `LearnerProgressRefinement` | the refinement mapping from the rows to the records |
| `AssetStore`, `AssetStoreProofs` | the files of modules: rows, objects, and the requests between them |
| `EmbeddedFiles`, `EmbeddedFilesProofs` | which files drafts, versions, screens, duplicates and exports name |
| `Translations`, `TranslationsProofs` | translation groups, and the assignments and progress that hang on them |
| `Outreach`, `OutreachProofs` | assignments, the reminder job, the nudge, and the mail they send |
| `Accounts`, `AccountsProofs` | one account and every request that opens, secures or closes it |
| `DocumentImport`, `DocumentImportProofs` | the converters, the limits on images and the validator, one file at a time |
| `MC*` | values of the constants for TLC |

The modules meet at the rows they share, each modelling in full what another takes
as one step: `PageDraft` the inside of the author's handlers that `LearnerProgress`,
`EmbeddedFiles` and `Outreach` see as a publish or a delete, `AssetStore` the store
behind an upload of `EmbeddedFiles` and behind an import of `DocumentImport`,
`Translations` the group that `LearnerProgress` holds constant.

### PageDraft

State: the committed rows (`module`, `pages`, `versions`), who holds the row lock
(`lock`), where each screen's request is (`pc`, `op`, `read`) and what the screen
shows (`tab`: a token and pages). A mutating handler is two steps: `Lock` is
`get_module_or_404(for_update=True)` with the reads made under it, and one of
`CreatePage ... DeleteModule` is everything up to the commit; `Refuse` is every
4xx after the lock, `Abort` a lost connection or a dead process. Reads are two
steps because the code makes them with two statements: `LoadModule`, `LoadPages`,
and `Answer` after a commit. An answer may be lost (`LoseAnswer`).

A page body is reduced to the revision that wrote it, a title, schema and search
text are dropped, and validation is a free choice of refusing. The screen sends
what its buttons can send: its own token, the pages it shows, two neighbours
swapped. `update_module` (metadata) and presence touch none of this state.

`ImplementsRegister` says that all of it is a register written only by somebody
who is looking at what it holds.

### LearnerProgress

State: the variants' `status` and `versions`, each learner's row (`progress`, with
its `lock`), each viewer (`viewer`, `pc`, `req`), the resets running (`reach`),
and three history variables that the properties need: how often each row was sent
back, what was on screen for each view recorded since, and the reset count at the
last attestation.

A learner's request is three steps: it resolves the variant and version from
unlocked reads (`ShowPage`, `Attest`, `ChooseLanguage`), claims the row
(`ClaimProgress`: `INSERT ... ON CONFLICT DO NOTHING`, `SELECT ... FOR UPDATE`),
then commits or rolls back. A substantive publish is two: `StartReset` is when its
`UPDATE` takes its snapshot, `PublishModule` when it has every row it found and
commits. Other author handlers are one step, their inside being `PageDraft`'s.

PostgreSQL's own locks are in the guards, because they decide which interleavings
exist: a handler holding a modules row `FOR UPDATE` excludes the `FOR KEY SHARE`
that inserting or repointing a foreign key to it takes (`KeyIsFree`,
`ModuleIsFree`). `EveryReaderIsSentBack` depends on that and on nothing in the
application's own code.

What is assumed:

- `SELECT ... FOR UPDATE` in `_claim_progress` returns the row as it is. With
  SQLAlchemy that holds because nothing keeps the row object read while resolving
  alive (the identity map is weak).
- The publisher's lock counts from `StartReset`; earlier it reads and writes
  nothing a learner's request can see. Likewise the row locks the reset takes one
  by one are all taken at its commit: what happens in between to a row it has not
  reached is possible in the model, and a row it has reached cannot change.
- One viewer has one request at a time. A browser tab that flips pages quickly
  has two; two viewers of one learner cover that.
- Preferred language and primary variant may change at any time, so a learner who
  has not started is given any readable variant. Every learner may read the group:
  access by assignment or catalogue is not the subject here.
- A viewer may attest again after completing (the page's own button needs a reload
  for that).

`LearnerRecord` has the same without requests: the texts published of each variant
and each learner's record (the variant being read, the pages of it read, the text
attested to last, and the one that counts). `LearnerProgressRefinement` maps a row to
its record: a completion counts until it is superseded, and the bookmark is left out.
A request that resolves, waits or rolls back is a stutter; a first read is a step at
its commit, when the inserted row is there for others; `StartReset` is a stutter, so
that a substantive publish sends its readers back in the one step of its commit. The
record takes a page of any published version and an attestation to any: a view may
commit after the next version, and it names the text it was resolved to.

### AssetStore

State: committed rows and module statuses, the objects in the store, and per
request the rows it has inserted or deleted and not committed (`new`, `gone`),
what it has still to do (`todo`) and what it has written (`stored`). Every handler
is a sequence of steps ending in `FinishStoring`, `FinishDeleting`, `GiveUp`,
`RejectPages`, or `Die` (crash, or a commit that fails). Each store call may
succeed, fail, or do what it was asked and report failure.

`stranded` and `destroyed` are history: objects given up with the reason, and
objects taken out. Files have one size, so the quota counts files. A row of an
import and its object are inserted and written one by one in the code; here all
rows come first, which nobody can see before the commit. Deleting a row that
another request has just deleted is a no-op with a warning in SQLAlchemy.

### Outreach

State: the committed assignments (`rows`) with their `terms`, the requests making
them (`making`, `told`), each run of the job or of the nudge (`pc`, `run`: what it
has read and written and not committed), the committed evidence (`reminders`,
`nudged`), and who is in the group, enabled, and done. Mail sent is a set nothing
is ever taken out of; `newcomers`, `steady` and `caught` are history.

One body of material, one group and one learner at a time: the cap, the audience
and the completion of one learner do not look at another's. A request or a run
happens once. A run is `Begin` (which dates its evidence), `AllowNudge` for the
nudge, `ReadClock` (which fixes its day and its assignments), then `Resolve`,
`Consider` and `Send` for each assignment and learner, and `FinishRun`, the commit.
`Consider` and `Send` are two steps because the mail server is between them; `Fail`
is any failure, the mail delivered or not. A key-share lock keeps an assignment
from being removed while evidence for it is uncommitted (`Free`).

What is left out: which text and language the mail has; the requirement and the
reminder switch of an assignment, which with a missing date are one thing, "not
chased"; learners whose account object the session happens to remember from the
previous assignment; other material, except that it may make the session forget
the module it has in hand (`FindsModule`). The timezone is constant. Deleting the
group is everybody leaving it, erasing an account is disabling it for good.

### EmbeddedFiles

State: what the pages (`body`) and each published version name, the committed files
with the order their uploads began in (`dated`), each author's screen (`panel`: the
list and the counts of the last answer; `editor`: what is inserted and not saved),
its request about files, and what each duplicate or export has read (`made`).
`intact`, `removal` and `late` are history: what a version named of the files there
were, what whoever deleted a file had been shown, which files were added after a
duplicate had read them.

A text is the set of files it names. A page write is one step, its token and lock
being `PageDraft`'s, and so is the store behind a file, being `AssetStore`'s. An
answer about files is two statements, `ListFiles` and `CountUses`; a duplicate reads
the files and then the pages, an export the pages and then the files, and an import
of the archive may follow at any time. Left out: the URL of another module's file,
which the validator accepts; a screen whose first list has not been answered when
its author already uploads.

### Translations

State: the rows of modules (group, language, status), the groups and their
primaries, which assignments and progress rows there are, and each request with the
group it has read. `LinkVariant` is three steps, because `link_variant` checks under
the lock of the module only, writes the module, and then deletes the group left
behind; a first read and an assignment insert and commit in two, a nomination in
two, the rest in one. Guards say which row locks PostgreSQL waits for: the lock of
`get_module_or_404`, and the key-share lock of every foreign key being written.
The status of a module goes draft, published, deleted; unpublishing changes nothing
here.

### Accounts

State: the row of the account, its sessions, its second factor, every one-time thing
(reset links, challenges, recovery codes, invitations), and where each request is.
`before`, `during` and `late` are history: what had acted when a request read, what
acted between its reading and its acting, and what acted between its look at the
sessions and its acting. A request is: through the gate (`get_valid_session`, which
commits), the read with its checks, the write and its commit. What administrators do is
audited in one commit more, of a table that is only added to: it is left out, and with
it the crash that leaves an act unaudited.

`revoke_other_sessions` is two steps, as there are two awaits in it. `LookForSessions`
is its query: what is committed then is `found`, and the query flushes what the handler
has written so far, so that from here to the commit its rows are locked and others who
write them wait (`Held`; a login, which inserts a session, does not). The act itself is
the commit, and ends the sessions in `found` and no other: a login that answers
between the two keeps its session.

Only the columns a handler changes are written, as SQLAlchemy does, and changed means
not what it has read. An account starts without a name (`accept_invite`), so an
`erase_user` that has read none (`named` of the request) writes none, and a first name
committed in between stays; `update_name` writes none if it is the one it has read.
`named` stands for either name.

Left out: passwords and `must_change_password`, rate limits, the language
preference. That a link runs out only turns a step into a refusal (`Fail`). The
address of an erased account is not invited again. The administrator's own session
is taken as given, except when they change their own roles. A code is valid for the
secret that was read.

### DocumentImport

State: the file read so far, block by block, and what the converter holds: events,
the Word list being collected, issues, images; then the images kept against the
limits, and the pages. One action per kind of block and converter, then
`EndOfDocument` (the sections and pages), `WeighImage` for each image, `Assemble`
(drop or rewrite the images, validate). A block's content is pieces with addresses,
so that losing, doubling or moving any shows. Blocks within blocks are kept flat: a
tree is a function from the numbers of its nodes, in the order a reader meets them,
to nodes that name what they lie within, so that `_convert_markdown_children`, which
calls itself, is one set of what it keeps (`Kept`: whatever a heading, text, code, a
rule or an item stands in). `MarkdownGrammar` and `WordGrammar` say what a parser's
tree can be; `DepthSuffices` is the one thing asked of a limit.

What a Word file loses without an issue is in the grammar and named in the property.
In the body: whatever is neither a paragraph nor a table, a content control with all
its text for one (`ReadOther`, `:741`). In a paragraph (`Silent`): whatever is neither a
run nor a link, tracked insertions and fields for example, and what of a run is neither
text nor a picture, notes and charts for example ("passed over"); a link without text,
as one around a picture is ("pictured link", `:825`); an image that is linked to and
not embedded ("linked image", `:783`); and the text of a run that also holds a drawing
("captioned image" shows as its image, `:844`). Headers, footers and text boxes are not
in what is read at all. The formatting and the address of a link in a title are not
pieces: titles are plain text.

The validator (`ValidPage`) is all of `validate_document` that a converter's output can
fail: depth, heading levels, the start of a list, the length of a code language and of
an address, image sources, the same mark twice (which `Node.check` refuses; no mark of
the schema excludes another), the content of nodes, and for a page the number of nodes
and of bytes (`TooLarge`). Bytes are counted as one for every node and `LongText` more
for a long text; a PDF page is one paragraph, however many its text is split into.

Left out: the length of titles (shortening one is reported), the HTML sanitiser (no
converter lets HTML through to it), the byte sniffing, and text that cannot be stored
(lone surrogates, NUL). Hard breaks count as text. Rows and objects of the import are
`AssetStore`'s.

## Runs

| Run | Constants | What it shows |
|---|---|---|
| `draft` | 2 screens, 3 page ids, at most 2 pages, 5 changes, with fairness | type, token, numbering and position invariants; no blind write; every edit claimed; served only by publish; `deleted` terminal; refinement of the register; every request ends |
| `learner_tabs` | 1 learner, 2 viewers, 1 variant, 2 page ids, 2 versions | gate, supersession, no view lost, every reader sent back |
| `learner_variants` | 1 learner, 2 viewers, 2 variants of one page and one version | only a switch moves a learner; evidence is kept over switches; every commit is a step of `LearnerRecord` |
| `learner_stale_text` | as `learner_tabs` | violated: see Findings |
| `learner_deadlock` | as `learner_tabs` | violated |
| `assets` | 2 requests, a module and a copy, 4 asset ids, quota 2 | rows have objects, objects accounted for, quota overshoot, delete empties |
| `files` | 2 authors, 1 file, 2 versions, 1 duplicate or export | gaps in published versions have the reasons the property names, and so has what a copy still names of the original |
| `upload_gives_its_own` | 2 authors, 2 files, 1 version | violated |
| `translations` | 2 given modules, 3 requests, 2 languages | groups are whole, records follow their module, no progress lost |
| `outreach` | 1 learner, a standing assignment and one being made, 2 runs, days 0 and 1, 1 change of the world | second mails and their reasons, nobody missed, nudges in turn, everyone told, no assignment of deleted material but in flight |
| `accounts` | 3 requests of any kind | sessions and their reasons, single use, confirmed secrets, lasting erasure, ended sessions |
| `content` | files of up to 3 blocks, 2 pages, depth 6, 12 nodes and 14 bytes a page, long texts of 10, images of 1 to 3 against limits of 2 and 3 | nothing of a document is moved, or lost but what the property names; refusals have the reasons named |

Why these are enough to be interesting. Two screens and three page ids with a limit
of two reach the limit, a delete in the middle with renumbering, a reorder against a
delete, two publishes racing, and a delete of the module with a request waiting;
three ids because a deleted id is never used again. `MaxChanges` bounds revisions
and versions together with the requests in flight. Two viewers and two versions
reach a publish between resolving and claiming with another tab reading in between;
a learner's rows are independent of other learners' but for the reset, which the
proofs cover for any number. The properties of `learner_tabs` over two variants, too
large to check, are covered by the proofs. Two assignments are what a group and a
person in it need to oblige one learner twice; two runs and a midnight reach a rerun
after a failure, a nudge during the job, and a run whose day, evidence and mail have
different dates. The due date is the second day, so that both days are checkpoints.
Two requests over assets reach every pair of an upload, a delete, a delete of the
module, a copy and an import; four ids allow a module at its quota to be copied, and
one over it is left to the proof (`OvershootIsBounded`). One
file is enough for a gap and for a copy without it, two authors for one to upload,
publish or delete behind the other's counts or the copy, two versions for counts
that are ahead of one and behind the next. Three link, read, assign or delete
requests over two modules reach two links crossing each other or meeting in one
group, with a third request between their checks and their writes. Three requests on
an account are any two that race with a third that shows the effect. Three blocks
reach a list before and after an image or a page break, a title taken from the first
heading and a page left empty; the third page is one too many, and the limits on
images are each passed and missed. Two lists with an item
of two blocks each are one node too many for a page, a long text and a paragraph one
byte.

Deadlock is checked in the `draft` run. It is switched off where the model may
stop for good reason: version bounds reached and everything deleted in
`LearnerProgress`, asset ids used up in `AssetStore`, the module deleted and every
copy made in `EmbeddedFiles`, every run or request made in `Outreach`, `Translations`
and `Accounts`, the import answered in `DocumentImport`. The one deadlock of
`LearnerProgress` is stated as a property of its own, `NoDeadlock`: `RollBack`
and `AbandonPublish`, which PostgreSQL's deadlock detector also causes, would
otherwise hide it.

Symmetry: tabs, page ids, requests, authors, files and asset ids are interchangeable
and never chosen by `CHOOSE`, and so are the given modules of `translations` and the
two variants of `learner_variants` together with their pages. In `draft`, which has
a liveness property, only page ids are permuted: neither the fairness nor
`RequestsEnd` names one. The property was also checked without any symmetry at 4
changes.

Fairness (`draft`): weak fairness on finishing a load, on ending a
transaction and on answering, because the server and the database keep going;
strong fairness on `Lock`, because PostgreSQL grants a row lock in arrival order.
Authors are under no obligation.

## Findings

- `NewTextWasShown`: `record_page_view` records a page against the version
  current on arrival, whatever the viewer shows. A viewer left open over a
  substantive publish refills `pages_viewed` with old pages, and the learner
  attests to a text never shown to them.
- `NoDeadlock`: a first attestation holds the progress row and needs a key-share
  lock of the modules row; a substantive publish holds that row and waits for the
  progress row. PostgreSQL aborts one of them.
- `UploadGivesItsOwn`: the editor takes the first of the list for the file just
  uploaded. Files are dated by the start of their transaction, so it may be another
  author's.

More that the documents promise and the code does not keep is in properties that
hold, because they name each way it happens:

- Not one mail a day (`tickets.md`: "a hard cap"): the cap counts committed
  evidence, and a run commits all of its evidence at its end, so that a nudge during
  the job mails the same learner again. `OneMailADay` names every way to a second
  mail.
- Objects outlive their rows (`routes/assets.py:336`: "never allowed"):
  `import_document` validates pages after storing images, outside its clean-up, and
  `ObjectsAreAccountedFor` has "rejected" among its reasons.
- Files are deleted in the dark (`module-publishing.md:150` says no longer): the
  counts that warn are read when the screen opens and after uploads and deletes of
  files, not after a save or a publish. One author uploads, inserts, saves, publishes
  and deletes, and is asked the plain question. `GapsAreExplained` allows for counts
  older than the version.
- A copy can share files with the original (`module-publishing.md:118`: "shares
  nothing"): a duplicate reads the files before the pages, so a file uploaded and
  saved into a page in between is not copied, and the copy names the original's.
  `CopiesAreExplained` allows for `late` files only.

Met on the way, in no property:

- The comment at `routes/content.py:734` counts two orders of a publish and an
  attestation. With two tabs there is a third, and it ends with a completion of the
  old version that counts.
- `upload_asset` checks the status without the lock and inserts after a delete has
  committed, against `access.py:77`. A request making an assignment while its
  material is deleted leaves one of deleted material (`caught` in
  `AssignedOnlyInFlight`). A delete of a module that fails half-way leaves rows
  without objects, which `RowsHaveObjects` excuses by name. A duplicate overtaken by
  the delete of its source can come out with files and no pages.
- A view in flight while another tab switches language records a page of the variant
  left behind (`routes/learning.py:695`, against `models/module.py:261`);
  `models/module.py:86` calls republishing a status change while `publish_module`
  writes a new version.
- Linking a module deletes, by cascade and unannounced, the assignments of the group
  it leaves: only progress is looked at first. Material of a deleted variant can
  still be assigned by the id of a sibling, which the comment at
  `routes/content.py:864` says it cannot. An assignment whose group vanished is
  answered with "already assigned" (`routes/assignments.py:177`). The flush at
  `routes/content.py:1303` is outside the `try`, and a conflict there is a 500.
- `enable_user` and `update_name` that read before an erasure and write after it undo
  part of it (against `routes/admin.py:252`); so does a first name given between an
  erasure's read and its commit, which the assignment of `None` at `:257` does not reach.
  A login that answers between the query and the commit of `revoke_other_sessions`
  keeps its session (`security/sessions.py:75`: "every active session"). An enrolment that overlaps the
  confirmation of another enables a secret nobody confirmed (against
  `models/two_factor.py:12`): all are reasons the properties name. A crash between
  the commit that ends the sessions and the one of the audit entry leaves the act
  unaudited, and the retry is a 409.
- The docstring of `content/document_import.py` (lines 4 to 7) promises an issue for
  anything dropped, "rather than losing it silently". The losses listed under
  DocumentImport above have none. A list item that does not start with a paragraph, a
  Markdown list that starts at 0, a code language or an address of more than 2048
  characters, emphasis within emphasis of the same kind, nesting too deep and a page with
  too many nodes or bytes make the validator refuse the whole import, after its images
  were stored, though the comment at line 167 says every helper returns a valid node. A fence with only blanks after it is an
  `IndexError`. An image over the module's limit still counts against it, so that
  smaller ones after it are dropped. A numbered Word list that an image interrupts
  starts again at 1; nested Word lists are flattened without an issue.

## Proofs

Everything below is proved with TLAPS for every value of the constants, from the
named assumptions only: `None` and `First` are none of the names they stand beside;
bounds and days are numbers; the sets that are counted (page ids, files, requests
over assets) are finite; `OwnerOf` maps viewers to learners; given modules are not
requests; blocks of a document are trees a parser gives, and the validator allows at
least five levels (it allows 20).

`PageDraftProofs`. The inductive invariant `DraftInvariant` adds to `TypeOK` that
at most the lock's holder is past `Lock`, that what it has read is what is
committed (so deciding on `read` is deciding on the database), that no token, read
revision or answer is ahead of the revision, and that one equal to it goes with
the pages themselves. Without the last two, `TokenVouchesForView` is not
inductive: a load under way would bring in a revision nobody has vouched for.
`TokenVouches`, `NoLostUpdate` and the refinement `DraftRefinesRegister` follow
from it.

Its second part goes on from `DraftInvariant`: what a handler decides is now
the subject. `ContentsInv` adds that a deleted module has no pages or versions, that
there are finitely many versions, and that a reorder in flight swaps two neighbours
of what its screen shows; counting lemmas (`NoRepeat`, `Before`, `Renumbers`) turn
"no gap and no repetition" into cardinalities and back, over a delete in the middle.
From it: `PagesAreContiguous`, `VersionsAreNumbered`, `EditsAreClaimed`,
`DeletedIsFinal`, `ServingIsPublishing`.

`LearnerProgressProofs`. The invariant says that a claimed request's copy of the
row is the row (or a new one), that viewed pages were recorded since the last
reset, that versions only grow, so what was resolved stays readable, and that a
request that is inserting a row is not in front of a reset of the same variant.
From it: `CompletionIsGated`, `SupersededIsExact`, `BookmarkIsRead`,
`ViewsAreKept`, `EvidenceIsKept`, `VariantIsSticky`, `ReadersAreSentBack`.
`RequestsImplementRecord` is the refinement of `LearnerRecord`, for any number of
learners, tabs, variants and versions: the invariant makes the claimed copy the record
as it is (`BegunIs`), and then each commit is one step of the record by its parts
(`ReadsPage`, `AttestsText`, `SwitchesText`). It needs two facts more: a page that is
being recorded belongs to the text it was resolved to (`ResolvedInv`), and a committed
row names a variant (`RowInv`), without which a record that reads nothing could be
taken for one that has not begun. That a publish is one step for everybody
(`PublishesText`) rests on `FoundInv`: whoever reads the variant when the publish
commits was found by its reset.

`AssetStoreProofs`. The argument is ownership. An id is given to one row, once
(`used`), so the rows a request has inserted and not committed are its own
(`NewInv`): no other request deletes them, and no clean-up but its own touches
their objects. A row a request has deleted, uncommitted, has no object but the one
it is about to erase (`GoneInv`), which makes the commit of a delete leave nothing
unaccounted. The locks of the modules row keep every row of a module being deleted
on the delete's list (`LockInv`). From it: `AssetTypeCorrect`, `RowsKeepObjects`,
`NoObjectUnaccounted`, `DeleteEmpties`. `QuotaInv` counts a module's files and the
uploads past their check together: a check that passes adds one of at most all
requests to less than a quota of files, a commit turns one upload into one file, and
a duplicate starts from no more than its source has. From it: `OvershootIsBounded`,
for any number of requests but none.

`EmbeddedFilesProofs`. No text, list or version names a file whose upload is still
under way (`Settled`), so a file that is named somewhere and is not there was deleted
and does not come back. With it, a screen has counted no version that is to come
(`NoneCountedAhead`) and tells of every version it has counted that names a file there
is (`PanelsTell`), and a copy has every file it names but those its history names
(`CopyInv`). From it: `GapsHaveReasons`, `CopiesHaveTheirFiles`, `FilesTypeCorrect`.

`TranslationsProofs`. Nobody locks a group, so the invariant is about what a request
still knows when it writes: one request holds a module (`Exclusive`); a link that has
passed its checks has a module without progress, and nobody brings its new group the
same language or takes the group away (`Linking`); what is being filed under a group
is filed under its module's (`Filing`). From it: `GroupsStayWhole`, `RecordsFollow`,
`NoProgressIsLost`, `TranslationsTypeCorrect`.

`OutreachProofs`. The steps of a sender are reduced to a few shapes, and everybody
else's to one that leaves runs alone. `NudgeInv`: what a run finds of earlier nudges
and when it was dated. `MailInv`: a mail belongs to a run, is noted by it, and leaves
evidence if the run commits. `DiligenceInv`: whoever is obliged all along is either
served or still to be considered. From them: `AudiencesAreTold`, `OnlyInFlight`,
`NudgesAlternate`, `OnlySoManyMails`, `EverybodyIsReached`, `OutreachTypeCorrect`.

`AccountsProofs`. Every step is reduced to its shape (a reading, an act, an end of a
session) and the invariants are proved from the shapes and the histories: what acted
before a request read stays before it, what acted since is in `during` when it acts,
and what acted since it looked for sessions is in `late`: a live session is one it has
found or one of those. While it holds its rows nobody else has written them, which is
why `found` and the rows flushed are still right at the commit. From it: `RevokedForGood`, `ChangesEndSessions`, `LinksWorkOnce`,
`FactorsAreConfirmed`, `ErasureStays`, `AccountsTypeCorrect`. The proof found that
with four requests an erasure can be undone by an `enable` in a way three do not
show; `ErasedStaysErased` names it.

`DocumentImportProofs`. `NothingIsLost` and `RefusalIsExplained` speak of a file that
has been imported; the invariant, `ImportInv`, says what is true of one half read. With
`All`, the events there would be if the file ended now (the open list included), it
says: `Sound`, every event has its pieces in order, every piece comes from a block that
was read, and what stands earlier comes from earlier; `TitleFirst`, the title comes
from the first block that is not passed over, and before everything; `Accounted`, each piece written is in the
title, in an event, told of by an issue or `Silent`; `FromMarkdown` and `FromWord`, an event is
what `Convert` makes of some block, or one of the three forms a Word file has (a line,
a list, images), and an objectionable block has left an event. `Judged` ties the pages
to the events once the file has ended. Without `Flushed` in `All` a list that is open
would count as lost; without the forms of `FromWord` nothing would be known of a list
that grew over several paragraphs when the validator looks at it. A converted tree
conforms exactly if its block is fit (`ConvertConforms`): by well-founded choice of the
first child where `StartsOtherwise` speaks of one, and by counting what a node lies
within. From it: `ImportSound`, `ImportLosesNothing`, `ImportRefusesForAReason`, for
files of any length, blocks nested in any way, and any limits. The invariant was
checked on the files of run `content` before it was proved.

The type invariants of `Accounts`, `Translations`, `EmbeddedFiles` and
`LearnerProgress` are proved and not checked in a run: a proof needs each of them at
every step anyway.

Only model-checked: the findings, which are violations, and `RequestsEnd` (liveness
under fairness is beyond this prover). That `Convert`, which states the result,
is what the recursion of `_convert_markdown_children` comes to is an assumption of
`MCDocumentImport` that TLC evaluates (`ConvertIsTheRecursion`), on the blocks of the
run and on those two levels further in: induction over trees is beyond the prover.

## Not modelled

Search, reports, the text of mails: functions and queries. Byte sniffing and the
`.zip` format of exports: parsing. Presence: advisory, and nothing reads it but a
list. Infrastructure, migrations and presentation. Metadata edits, the CRUD of user
groups and the two settings: single rows written whole, last write wins. Two hazards in `PROJECT.json`
have no property, and say why: a view recorded for a variant left behind, and a
change of the timezone setting.

## Plan

1. The pure functions: due dates and the outcome of assignments that overlap, reports,
   search filters.
2. The archive of an export, from `build_export_archive` to `parse_export_archive`.
3. Metadata edits and the timezone setting, if they come to carry a token or a lock.
