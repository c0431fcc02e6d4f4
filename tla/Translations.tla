----------------------------- MODULE Translations -----------------------------
(***************************************************************************)
(* Which modules are translations of one another: the translation groups   *)
(* of routes/content.py, and what hangs on them by foreign key,            *)
(* assignments and learners' progress.                                     *)
(*                                                                         *)
(* Linking a module moves it to another group and deletes the one it       *)
(* leaves, with everything that names it (ON DELETE CASCADE).  Its checks  *)
(* are made under a lock of the module's row and of nothing else: not of   *)
(* the group it joins, nor of the one it leaves.  The guards say which     *)
(* PostgreSQL locks a step waits for: a foreign key that is being written  *)
(* holds a key-share lock on the row it names.                             *)
(*                                                                         *)
(* A request happens once; the module it creates, the assignment or the    *)
(* progress row it inserts is named after it, and a group after the module *)
(* it was created for.                                                     *)
(***************************************************************************)
EXTENDS FiniteSets

CONSTANTS
    Given,      \* the modules there are at the start
    Requests,
    Languages,
    None

ASSUME NameAssumption == Given \cap Requests = {} /\ None \notin Given \cup Requests \cup Languages

VARIABLES
    row,        \* the committed rows of `modules`
    groups,     \* the committed rows of `module_translation_groups`
    primary,    \* the primary of each
    assigned,   \* the assignments, and
    progress,   \* the progress rows there are, by the request that made them
    pc,
    req         \* what each request was asked, and the group it has read

vars == <<row, groups, primary, assigned, progress, pc, req>>

Modules == Given \cup Requests
Groups == Modules
Statuses == {"none", "draft", "published", "deleted"}
Ops == {"create", "duplicate", "link", "primary", "assign", "read", "delete"}

Row == [group : Groups \cup {None}, language : Languages \cup {None}, status : Statuses]
NoRow == [group |-> None, language |-> None, status |-> "none"]

Request == [op : Ops \cup {None}, module : Modules \cup {None}, group : Groups \cup {None},
            language : Languages \cup {None}]
NoRequest == [op |-> None, module |-> None, group |-> None, language |-> None]

Exists(m) == row[m].status # "none"
\* ensure_module_editable, or module_is_assignable
Editable(m) == row[m].status \in {"draft", "published"}
\* _group_variants: the tombstones of deleted modules included.
Variants(g) == {m \in Modules : Exists(m) /\ row[m].group = g}
Spoken(g) == {row[m].language : m \in Variants(g)}
\* What is filed under a group, among these requests.
Under(g, records) == {r \in records : req[r].group = g}

\* Modules of their own, and perhaps one that already is a translation.
Init ==
    /\ \E given \in [Given -> [group : Given, language : Languages, status : {"draft", "published"}]] :
          /\ \A m \in Given : given[given[m].group].group = given[m].group
          /\ \A m, n \in Given :
                m # n /\ given[m].group = given[n].group => given[m].language # given[n].language
          /\ row = [m \in Modules |-> IF m \in Given THEN given[m] ELSE NoRow]
    /\ groups = {row[m].group : m \in Given}
    /\ primary = [g \in Groups |-> IF g \in groups THEN g ELSE None]
    /\ assigned = {}
    /\ progress = {}
    /\ pc = [r \in Requests |-> "new"]
    /\ req = [r \in Requests |-> NoRequest]

-----------------------------------------------------------------------------
(* Locks                                                                   *)

Op(r) == req[r].op
At(r, op, place) == pc[r] = place /\ Op(r) = op
Moves(r, place) == pc' = [pc EXCEPT ![r] = place]

\* get_module_or_404(for_update=True), until the end of the request.
Locked(m) ==
    \E r \in Requests : pc[r] \in {"checked", "moved"} /\ req[r].module = m
\* A progress row that names the module is being written.
Named(m) == \E r \in Requests : At(r, "read", "inserted") /\ req[r].module = m

\* Mutant of Free: the row is read without its lock.
Unlocked(m) == TRUE
Free(m) == ~Locked(m) /\ ~Named(m)

\* A row that names the group is being written.
Held(g) ==
    \E r \in Requests : req[r].group = g /\ (At(r, "link", "moved") \/ pc[r] = "inserted")

-----------------------------------------------------------------------------
(* What each handler reads first, with no lock                             *)

\* Mutant of MayBePrimary: any module will do.
MayBeAnything(m, g) == Exists(m) /\ g \in groups
\* set_primary_variant
MayBePrimary(m, g) == m \in Variants(g) /\ g \in groups

\* What a request names, and the group it reads there.
Asks(op, m, g, l) ==
    \/ op = "duplicate" /\ Editable(m) /\ g = None /\ l = row[m].language
    \/ op = "link" /\ Exists(m) /\ g \in groups /\ l = None
    \/ op = "primary" /\ MayBePrimary(m, g) /\ l = None
    \/ op = "assign" /\ Editable(m) /\ g = row[m].group /\ l = None
    \/ op = "read" /\ row[m].status = "published" /\ g = row[m].group /\ l = None
    \/ op = "delete" /\ Exists(m) /\ g = None /\ l = None

Begin(r) ==
    /\ pc[r] = "new"
    /\ \E op \in Ops, m \in Modules \cup {None}, g \in Groups \cup {None}, l \in Languages \cup {None} :
          /\ \/ op = "create" /\ m = None /\ g = None /\ l # None
             \/ m # None /\ Asks(op, m, g, l)
          /\ req' = [req EXCEPT ![r] = [op |-> op, module |-> m, group |-> g, language |-> l]]
    /\ Moves(r, "asked")
    /\ UNCHANGED <<row, groups, primary, assigned, progress>>

\* Every refusal, constraint error, deadlock, lost connection and dead process.
Fail(r) ==
    /\ pc[r] \in {"asked", "checked", "moved", "inserted"}
    /\ Moves(r, "failed")
    /\ UNCHANGED <<row, groups, primary, assigned, progress, req>>

-----------------------------------------------------------------------------
(* create_module, duplicate_module                                         *)

NewModule(r) == [group |-> r, language |-> req[r].language, status |-> "draft"]

CreateModule(r) ==
    /\ At(r, "create", "asked") \/ At(r, "duplicate", "asked")
    /\ row' = [row EXCEPT ![r] = NewModule(r)]
    /\ groups' = groups \cup {r}
    /\ primary' = [primary EXCEPT ![r] = r]
    /\ Moves(r, "done")
    /\ UNCHANGED <<assigned, progress, req>>

-----------------------------------------------------------------------------
(* link_variant                                                            *)

MayLink(m, g) ==
    /\ row[m].group # g
    /\ row[m].status # "deleted"
    /\ Variants(row[m].group) = {m}
    /\ row[m].language \notin Spoken(g)
    /\ Under(row[m].group, progress) = {}

CheckLink(r) ==
    /\ At(r, "link", "asked")
    /\ Free(req[r].module)
    /\ MayLink(req[r].module, req[r].group)
    /\ Moves(r, "checked")
    /\ UNCHANGED <<row, groups, primary, assigned, progress, req>>

Language(r) == row[req[r].module].language

\* The flush: the foreign key to the group, and one variant a language.  It
\* waits for another link that would bring the same language.
MoveModule(r) ==
    /\ At(r, "link", "checked")
    /\ req[r].group \in groups
    /\ Language(r) \notin Spoken(req[r].group)
    /\ \A q \in Requests :
          At(q, "link", "moved") /\ req[q].group = req[r].group => Language(q) # Language(r)
    /\ Moves(r, "moved")
    /\ UNCHANGED <<row, groups, primary, assigned, progress, req>>

\* Mutant of Dissolves: nothing is deleted by cascade.
DissolvesAlone(g) ==
    /\ groups' = groups \ {g}
    /\ primary' = [primary EXCEPT ![g] = None]
    /\ UNCHANGED <<assigned, progress>>
\* The delete of a group takes what names it, but a module.
Dissolves(g) ==
    /\ groups' = groups \ {g}
    /\ primary' = [primary EXCEPT ![g] = None]
    /\ assigned' = assigned \ Under(g, assigned)
    /\ progress' = progress \ Under(g, progress)

\* It waits for whoever is writing a row that names the old group.
LinkVariant(r) ==
    /\ At(r, "link", "moved")
    /\ LET m == req[r].module
           old == row[m].group
       IN  /\ ~Held(old)
           /\ Variants(old) = {m}
           /\ row' = [row EXCEPT ![m].group = req[r].group]
           /\ Dissolves(old)
    /\ Moves(r, "done")
    /\ UNCHANGED req

-----------------------------------------------------------------------------
(* set_primary_variant, create_assignment, _claim_progress                 *)

\* The row of the group it read is updated; naming the module waits for its lock.
SetPrimary(r) ==
    /\ At(r, "primary", "asked")
    /\ req[r].group \in groups
    /\ ~Locked(req[r].module)
    /\ primary' = [primary EXCEPT ![req[r].group] = req[r].module]
    /\ Moves(r, "done")
    /\ UNCHANGED <<row, groups, assigned, progress, req>>

\* The group is the one read at the start; a row that names it is inserted and
\* committed later (an assignment after all its mail).
Insert(r) ==
    /\ \/ At(r, "assign", "asked")
       \/ At(r, "read", "asked") /\ ~Locked(req[r].module)
    /\ req[r].group \in groups
    /\ Moves(r, "inserted")
    /\ UNCHANGED <<row, groups, primary, assigned, progress, req>>

CommitInsert(r) ==
    /\ pc[r] = "inserted"
    /\ IF Op(r) = "assign"
       THEN assigned' = assigned \cup {r} /\ UNCHANGED progress
       ELSE progress' = progress \cup {r} /\ UNCHANGED assigned
    /\ Moves(r, "done")
    /\ UNCHANGED <<row, groups, primary, req>>

-----------------------------------------------------------------------------
(* delete_module, publish_module, unpublish_module, delete_assignment      *)

LockForDelete(r) ==
    /\ At(r, "delete", "asked")
    /\ Free(req[r].module)
    /\ row[req[r].module].status # "deleted"
    /\ Moves(r, "checked")
    /\ UNCHANGED <<row, groups, primary, assigned, progress, req>>

\* The row stays, the assignments of the whole group go.
DeleteModule(r) ==
    /\ At(r, "delete", "checked")
    /\ row' = [row EXCEPT ![req[r].module].status = "deleted"]
    /\ assigned' = assigned \ Under(row[req[r].module].group, assigned)
    /\ Moves(r, "done")
    /\ UNCHANGED <<groups, primary, progress, req>>

Publishes(m) ==
    /\ Free(m)
    /\ Editable(m)
    /\ \E status \in {"draft", "published"} : row' = [row EXCEPT ![m].status = status]
    /\ UNCHANGED <<groups, primary, assigned, progress, pc, req>>

Unassign(a) ==
    /\ a \in assigned
    /\ assigned' = assigned \ {a}
    /\ UNCHANGED <<row, groups, primary, progress, pc, req>>

Step(r) ==
    \/ Begin(r) \/ Fail(r) \/ CreateModule(r)
    \/ CheckLink(r) \/ MoveModule(r) \/ LinkVariant(r)
    \/ SetPrimary(r) \/ Insert(r) \/ CommitInsert(r)
    \/ LockForDelete(r) \/ DeleteModule(r)

Next ==
    \/ \E r \in Requests : Step(r) \/ Unassign(r)
    \/ \E m \in Modules : Publishes(m)

Spec == Init /\ [][Next]_vars

-----------------------------------------------------------------------------
(* Properties                                                              *)

\* The shape of the rows and the requests; a module has a group.
TypeOK ==
    /\ row \in [Modules -> Row]
    /\ \A m \in Modules : (row[m].status = "none") = (row[m].group = None)
    /\ groups \subseteq Groups
    /\ primary \in [Groups -> Groups \cup {None}]
    /\ assigned \subseteq Requests /\ progress \subseteq Requests
    /\ pc \in [Requests -> {"new", "asked", "checked", "moved", "inserted", "done", "failed"}]
    /\ req \in [Requests -> Request]

\* Links and nominations that race leave every module in a group there is, no
\* group without modules, and as the primary one of the group's own.
GroupsAreWhole ==
    /\ \A m \in Modules : Exists(m) => row[m].group \in groups
    /\ \A g \in groups : primary[g] \in Variants(g)
    /\ \A m, n \in Modules :
          Exists(m) /\ Exists(n) /\ m # n /\ row[m].group = row[n].group
              => row[m].language # row[n].language

\* An assignment or a progress row is filed under the group of the module it was
\* made for: a link never strands one behind a group the module has left.
RecordsFollowTheirModule ==
    \A r \in assigned \cup progress : row[req[r].module].group = req[r].group

\* A link never takes what a learner has read, although it deletes by cascade
\* the group that record is filed under.
ProgressIsKept == [][progress \subseteq progress']_vars
=============================================================================
