---------------------------- MODULE EmbeddedFiles ----------------------------
(***************************************************************************)
(* Which files the texts of a module name: what its pages embed or link,   *)
(* what its published versions do, what an author is told before deleting  *)
(* a file, and what a duplicate or an import of an export ends up naming.  *)
(*                                                                         *)
(* A text is the set of files it names (`src` and `href`).  One module is  *)
(* being worked on, by authors each of whom has it open on a screen        *)
(* (useModuleAssets.ts, PageEditor.tsx).  Its pages change one write at a  *)
(* time: PageDraft is about that; AssetStore is about the store.  No       *)
(* foreign key and no lock ties a text to the files it names.              *)
(*                                                                         *)
(* Every upload has a file of its own.  A file is dated by the start of    *)
(* its transaction (created_at is now()), not by its commit.               *)
(***************************************************************************)
EXTENDS Naturals, FiniteSets, Sequences

CONSTANTS
    Authors,
    Makers,         \* requests to duplicate or export, with the import after it
    Files,
    MaxVersions,
    None

ASSUME FilesAssumption == IsFiniteSet(Files)
ASSUME VersionsAssumption == MaxVersions \in Nat
ASSUME NoneAssumption == None \notin Files

VARIABLES
    status,
    files,      \* the committed rows of module_assets
    dated,      \* the order in which uploads began, 0 for none yet
    body,       \* what the pages of the draft name
    versions,   \* what each published version names
    panel,      \* what a screen has of the files, by its last answer
    editor,     \* the files put into a page on the screen and not saved
    pc, req,    \* the request of a screen about its files
    made,       \* what a maker has read
    \* History:
    intact,     \* what a version named of the files there were
    removal,    \* what whoever deleted a file had been told
    late        \* files added after a duplicate had read them

vars == <<status, files, dated, body, versions, panel, editor, pc, req, made,
          intact, removal, late>>
module == <<status, body, versions, intact>>
makers == <<made, late>>

Uses == {"none", "page", "version"}
Blank == [listed |-> {}, use |-> [f \in Files |-> "none"], seen |-> 0]
NoRequest == [op |-> None, file |-> None, listed |-> {}]
Unread == [op |-> None, at |-> "unasked", files |-> {}, text |-> {}]

Init ==
    /\ status = "live"
    /\ files = {} /\ body = {} /\ versions = <<>>
    /\ dated = [f \in Files |-> 0]
    /\ panel = [t \in Authors |-> Blank]
    /\ editor = [t \in Authors |-> {}]
    /\ pc = [t \in Authors |-> "idle"]
    /\ req = [t \in Authors |-> NoRequest]
    /\ made = [m \in Makers |-> Unread]
    /\ intact = <<>>
    /\ removal = [f \in Files |-> [use |-> "none", seen |-> 0]]
    /\ late = [m \in Makers |-> {}]

---------------------------------------------------------------------------
(* The draft and its versions, a write at a time. *)

\* An image picked from the list, or the address of a file put into a link.
InsertFile(t) ==
    /\ \E f \in panel[t].listed : editor' = [editor EXCEPT ![t] = @ \cup {f}]
    /\ UNCHANGED <<status, files, dated, body, versions, panel, pc, req, intact, removal, makers>>

\* The validator looks at the form of an address, not at whether it is there.
SavePage(t) ==
    /\ status = "live"
    /\ editor[t] # {}
    /\ body' = body \cup editor[t]
    /\ editor' = [editor EXCEPT ![t] = {}]
    /\ UNCHANGED <<status, files, dated, versions, panel, pc, req, intact, removal, makers>>

\* A page is saved without a file, or deleted.
TakeOut ==
    /\ status = "live"
    /\ \E f \in body : body' = body \ {f}
    /\ UNCHANGED <<status, files, dated, versions, panel, editor, pc, req, intact, removal, makers>>

PublishModule ==
    /\ status = "live"
    /\ Len(versions) < MaxVersions
    /\ versions' = Append(versions, body)
    /\ intact' = Append(intact, body \cap files)
    /\ UNCHANGED <<status, files, dated, body, panel, editor, pc, req, removal, makers>>

\* Files, pages and versions go together.
DeleteModule ==
    /\ status = "live"
    /\ status' = "deleted"
    /\ files' = {} /\ body' = {} /\ versions' = <<>> /\ intact' = <<>>
    /\ UNCHANGED <<dated, panel, editor, pc, req, removal, makers>>

---------------------------------------------------------------------------
(* The files on a screen.  While a request is out, the screen makes no     *)
(* other (`busy`).                                                         *)

OpenScreen(t) ==
    /\ pc[t] = "idle"
    /\ pc' = [pc EXCEPT ![t] = "listing"]
    /\ req' = [req EXCEPT ![t] = [NoRequest EXCEPT !.op = "open"]]
    /\ panel' = [panel EXCEPT ![t] = Blank]
    /\ editor' = [editor EXCEPT ![t] = {}]
    /\ UNCHANGED <<module, files, dated, removal, makers>>

Begun == {f \in Files : dated[f] > 0}

Upload(t) ==
    /\ pc[t] = "idle"
    /\ status = "live"
    /\ \E f \in Files \ Begun :
          /\ dated' = [dated EXCEPT ![f] = Cardinality(Begun) + 1]
          /\ req' = [req EXCEPT ![t] = [NoRequest EXCEPT !.op = "upload", !.file = f]]
    /\ pc' = [pc EXCEPT ![t] = "writing"]
    /\ UNCHANGED <<module, files, panel, editor, removal, makers>>

\* The status is not looked at again.
StoreFile(t) ==
    /\ pc[t] = "writing"
    /\ req[t].op = "upload"
    /\ files' = files \cup {req[t].file}
    /\ late' = [m \in Makers |->
                  IF made[m].op = "duplicate" /\ made[m].at = "text"
                  THEN late[m] \cup {req[t].file} ELSE late[m]]
    /\ pc' = [pc EXCEPT ![t] = "listing"]
    /\ UNCHANGED <<module, dated, panel, editor, req, made, removal>>

\* Asked for on the line that says how the file is used.
AskRemove(t) ==
    /\ pc[t] = "idle"
    /\ \E f \in panel[t].listed :
          req' = [req EXCEPT ![t] = [NoRequest EXCEPT !.op = "remove", !.file = f]]
    /\ pc' = [pc EXCEPT ![t] = "writing"]
    /\ UNCHANGED <<module, files, dated, panel, editor, removal, makers>>

RemoveFile(t) ==
    /\ pc[t] = "writing"
    /\ req[t].op = "remove"
    /\ req[t].file \in files
    /\ files' = files \ {req[t].file}
    /\ removal' = [removal EXCEPT ![req[t].file] =
                     [use |-> panel[t].use[req[t].file], seen |-> panel[t].seen]]
    /\ pc' = [pc EXCEPT ![t] = "listing"]
    /\ UNCHANGED <<module, dated, panel, editor, req, makers>>

\* Refused, failed or not found: nothing is written.  Or the answer is lost.
NoAnswer(t) ==
    /\ pc[t] # "idle"
    /\ pc' = [pc EXCEPT ![t] = "idle"]
    /\ req' = [req EXCEPT ![t] = NoRequest]
    /\ UNCHANGED <<module, files, dated, panel, editor, removal, makers>>

\* The answer lists the rows with one statement and
ListFiles(t) ==
    /\ pc[t] = "listing"
    /\ req' = [req EXCEPT ![t].listed = files]
    /\ pc' = [pc EXCEPT ![t] = "counting"]
    /\ UNCHANGED <<module, files, dated, panel, editor, removal, makers>>

InVersion(f) == \E n \in 1..Len(versions) : f \in versions[n]

\* Mutant: a page's use comes before a version's.
PagesFirst(f) ==
    CASE f \in files /\ f \in body -> "page"
      [] f \in files /\ f \notin body /\ InVersion(f) -> "version"
      [] OTHER -> "none"

\* counts what names them with the next: _reference_counts, and the order in
\* which the panel words its warning.
UseOf(f) ==
    CASE f \in files /\ InVersion(f) -> "version"
      [] f \in files /\ ~InVersion(f) /\ f \in body -> "page"
      [] OTHER -> "none"

Newest(listed) == {f \in listed : \A g \in listed : dated[g] <= dated[f]}

\* An upload from within the editor puts the first of the list into the page.
CountUses(t) ==
    /\ pc[t] = "counting"
    /\ panel' = [panel EXCEPT ![t] =
                   [listed |-> req[t].listed, use |-> [f \in Files |-> UseOf(f)],
                    seen |-> Len(versions)]]
    /\ \/ UNCHANGED editor
       \/ /\ req[t].op = "upload"
          /\ \E f \in Newest(req[t].listed) : editor' = [editor EXCEPT ![t] = @ \cup {f}]
    /\ pc' = [pc EXCEPT ![t] = "idle"]
    /\ req' = [req EXCEPT ![t] = NoRequest]
    /\ UNCHANGED <<module, files, dated, removal, makers>>

---------------------------------------------------------------------------
(* Duplicates, and exports with the import that may follow.                *)

At(m, op, at) == made[m].op = op /\ made[m].at = at

\* Mutant: an export that reads as a duplicate does.
FilesFirst(op) == <<"files", "text", IF op = "duplicate" THEN "made" ELSE "packed">>

\* A duplicate reads the files, copies them, reads the pages and commits; an
\* export reads the pages and then the files, and is an archive.
Order(op) ==
    IF op = "duplicate" THEN <<"files", "text", "made">> ELSE <<"text", "files", "packed">>
After(m, step) ==
    IF step = Order(made[m].op)[1] THEN Order(made[m].op)[2] ELSE Order(made[m].op)[3]

BeginDuplicate(m) ==
    /\ made[m].at = "unasked"
    /\ status = "live"
    /\ made' = [made EXCEPT ![m].op = "duplicate", ![m].at = Order("duplicate")[1]]
    /\ UNCHANGED <<module, files, dated, panel, editor, pc, req, removal, late>>

BeginExport(m) ==
    /\ made[m].at = "unasked"
    /\ made' = [made EXCEPT ![m].op = "export", ![m].at = Order("export")[1]]
    /\ UNCHANGED <<module, files, dated, panel, editor, pc, req, removal, late>>

ReadFiles(m) ==
    /\ made[m].at = "files"
    /\ made' = [made EXCEPT ![m].files = files, ![m].at = After(m, "files")]
    /\ UNCHANGED <<module, files, dated, panel, editor, pc, req, removal, late>>

ReadPages(m) ==
    /\ made[m].at = "text"
    /\ made' = [made EXCEPT ![m].text = body, ![m].at = After(m, "text")]
    /\ UNCHANGED <<module, files, dated, panel, editor, pc, req, removal, late>>

\* The archive becomes a module, at any time.
ImportModule(m) ==
    /\ At(m, "export", "packed")
    /\ made' = [made EXCEPT ![m].at = "made"]
    /\ UNCHANGED <<module, files, dated, panel, editor, pc, req, removal, late>>

\* An object is gone before it is copied, or anything else goes wrong.
GiveUp(m) ==
    /\ made[m].at \in {"files", "text", "packed"}
    /\ made' = [made EXCEPT ![m].at = "failed"]
    /\ UNCHANGED <<module, files, dated, panel, editor, pc, req, removal, late>>

\* The addresses of files that came along are rewritten to the copies of them;
\* every other one is left as it is, and names a file of the original.
LeftAlone(m) == made[m].text \ made[m].files

Next ==
    \/ TakeOut \/ PublishModule \/ DeleteModule
    \/ \E t \in Authors :
          \/ InsertFile(t) \/ SavePage(t) \/ OpenScreen(t) \/ Upload(t) \/ StoreFile(t)
          \/ AskRemove(t) \/ RemoveFile(t) \/ NoAnswer(t) \/ ListFiles(t) \/ CountUses(t)
    \/ \E m \in Makers :
          \/ BeginDuplicate(m) \/ BeginExport(m) \/ ReadFiles(m) \/ ReadPages(m)
          \/ ImportModule(m) \/ GiveUp(m)

Spec == Init /\ [][Next]_vars
---------------------------------------------------------------------------
Use == [Files -> Uses]
Panel == [listed : SUBSET Files, use : Use, seen : Nat]
Request == [op : {None, "open", "upload", "remove"}, file : Files \cup {None}, listed : SUBSET Files]
Making == [op : {None, "duplicate", "export"},
           at : {"unasked", "files", "text", "packed", "made", "failed"},
           files : SUBSET Files, text : SUBSET Files]

\* The shape of rows, screens and requests.
TypeOK ==
    /\ status \in {"live", "deleted"}
    /\ files \subseteq Files /\ body \subseteq Files
    /\ dated \in [Files -> Nat]
    /\ versions \in Seq(SUBSET Files) /\ Len(versions) <= MaxVersions
    /\ intact \in Seq(SUBSET Files) /\ Len(intact) = Len(versions)
    /\ panel \in [Authors -> Panel]
    /\ editor \in [Authors -> SUBSET Files]
    /\ pc \in [Authors -> {"idle", "writing", "listing", "counting"}]
    /\ req \in [Authors -> Request]
    /\ made \in [Makers -> Making]
    /\ removal \in [Files -> [use : Uses, seen : Nat]]
    /\ late \in [Makers -> SUBSET Files]

\* A file that a published version had and has no longer was deleted by an
\* author who had been told of a version naming it, or whose screen had
\* counted before that version was published: delete_module_asset refuses
\* nothing, so the count is all that stands between a learner and the gap.  It
\* is not always there: docs/references/module-publishing.md's "no longer done in
\* the dark", but for counts that are old.
GapsAreExplained ==
    \A n \in 1..Len(versions) : \A f \in intact[n] \ files :
        removal[f].use = "version" \/ removal[f].seen < n

\* What a copy still names of the original is a file that had been deleted or,
\* for a duplicate, one that was added while it was being made: neither the
\* duplicate nor the import of an export loses a file there was all along.
\* It is docs/references/module-publishing.md's "the copy shares nothing with the
\* original", but for what is added meanwhile.
CopiesAreExplained ==
    \A m \in Makers : made[m].at = "made" =>
        \A f \in LeftAlone(m) :
            f \in files => At(m, "duplicate", "made") /\ f \in late[m]

\* What useModuleAssets.ts says of the first of the list: it is "the asset
\* just added".
UploadGivesItsOwn ==
    [][\A t \in Authors : pc[t] = "counting" =>
          editor'[t] \subseteq editor[t] \cup {req[t].file}]_vars
=============================================================================
