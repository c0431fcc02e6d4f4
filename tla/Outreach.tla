------------------------------- MODULE Outreach -------------------------------
(***************************************************************************)
(* Who has to read one body of material, and the mail that chases them:    *)
(* routes/assignments.py, assignments.py, reminders.py and the daily job.  *)
(*                                                                         *)
(* Mail cannot be taken back, and it is sent inside a transaction that     *)
(* commits at the end.  The evidence of a reminder (`module_reminders`) is *)
(* read before the mail is sent and written after it, with no lock, and is *)
(* dated by PostgreSQL's now(): the start of the transaction, not the      *)
(* mail.  It goes with its assignment (ON DELETE CASCADE).                 *)
(*                                                                         *)
(* A request or a run of the job happens once; the assignment a request    *)
(* makes is named after it.                                                *)
(***************************************************************************)
EXTENDS Integers, FiniteSets

CONSTANTS
    Learners,
    Team,       \* the one group of learners
    Assigners,  \* create_assignment requests, and the assignments they make
    Standing,   \* those that were made before day 0
    Senders,    \* runs of the job and of the nudge
    Dues,       \* due dates, as days
    LastDay,    \* days run from 0
    MaxChanges, \* how often the world around changes
    None

ASSUME NoneAssumption == None \notin Learners \cup Assigners \cup Senders \cup Dues
ASSUME TeamAssumption == Team \notin Learners
ASSUME StandingAssumption == Standing \subseteq Assigners
ASSUME DaysAssumption == Dues \subseteq Int /\ LastDay \in Nat /\ MaxChanges \in Nat

VARIABLES
    today,      \* the day in the deployment's timezone
    changes,
    status,     \* of the material: "published", "draft" or "deleted"
    team,       \* who is in Team
    enabled,    \* the accounts that are neither disabled nor erased
    finished,   \* who has a current completion
    making,     \* where each create_assignment is
    terms,      \* of each assignment: target, due date, and who was resolved
    told,       \* who has had the mail about it
    rows,       \* the committed assignments
    pc,         \* where each sender is
    run,        \* what each sender has read and not yet committed
    reminders,  \* the committed evidence
    nudged,     \* the days of the `reminder_sent` audit entries
    mails,      \* history: every reminder sent
    newcomers,  \* history: who came into an audience after it was resolved
    steady,     \* history: who has been outstanding since a sender began
    caught      \* history: assignments being made when the material was deleted

world == <<status, team, enabled, finished>>
assigning == <<making, terms, told, rows>>
sending == <<pc, run, reminders, nudged, mails>>
vars == <<today, changes, world, assigning, sending, newcomers, steady, caught>>

Days == 0 .. LastDay
Targets == Learners \cup {Team}
Underway == {"running", "sending"}

NoTerms == [target |-> None, due |-> None, audience |-> {}]
NoRun == [op |-> None, began |-> None, day |-> None, before |-> {}, asked |-> {},
          todo |-> {}, at |-> None, who |-> {}, to |-> None, wrote |-> {}]

-----------------------------------------------------------------------------
(* Audiences.                                                              *)

\* resolve_target_users, without the accounts its callers pass over.
Audience(target) == enabled \cap (IF target = Team THEN team ELSE {target})

\* Who a list of assignments still obliges.
Outstanding(asked) ==
    IF status = "published"
    THEN (UNION {Audience(terms[a].target) : a \in asked \cap rows}) \ finished
    ELSE {}

\* scheduled_kind_for_due_date is not None: seven days and one day before, the
\* day, and every week after it.
IsCheckpoint(due, day) ==
    LET delta == due - day IN
    delta \in {0, 1, 7} \/ (delta < 0 /\ delta % 7 = 0)

\* Mutant of Asks: the target is taken for its only recipient.
AsksTheTarget(target, due) == [target |-> target, due |-> due, audience |-> {target}]
\* create_assignment resolves its target once, when it is asked.
Asks(target, due) == [target |-> target, due |-> due, audience |-> Audience(target)]

Init ==
    /\ today = 0
    /\ changes = 0
    /\ status = "published"
    /\ team \in SUBSET Learners
    /\ enabled \in SUBSET Learners
    /\ finished = {}
    /\ making = [a \in Assigners |-> IF a \in Standing THEN "made" ELSE "new"]
    /\ \E target \in [Standing -> Targets], due \in [Standing -> Dues \cup {None}] :
          /\ \A a, b \in Standing : target[a] = target[b] => a = b
          /\ terms = [a \in Assigners |-> IF a \in Standing THEN Asks(target[a], due[a])
                                                             ELSE NoTerms]
    /\ told = [a \in Assigners |-> terms[a].audience]
    /\ rows = Standing
    /\ pc = [s \in Senders |-> "new"]
    /\ run = [s \in Senders |-> NoRun]
    /\ reminders = {}
    /\ nudged = {}
    /\ mails = {}
    /\ newcomers = [a \in Assigners |-> {}]
    /\ steady = [s \in Senders |-> {}]
    /\ caught = {}

-----------------------------------------------------------------------------
(* create_assignment, delete_assignment                                    *)

Untouched == UNCHANGED <<today, changes, world, sending, newcomers, steady, caught>>
Makes(a, place) == making' = [making EXCEPT ![a] = place]

\* A request that failed leaves nothing that matters.
Forgets(a) ==
    /\ Makes(a, "failed")
    /\ terms' = [terms EXCEPT ![a] = NoTerms]
    /\ told' = [told EXCEPT ![a] = {}]

\* Mutant of IsEditable: the check that the module is not deleted is left out.
IsAnything == TRUE
IsEditable == status # "deleted"

\* The module and the learners are read; no due date stands for an assignment
\* that is not chased: recommended, reminders off, or without a date.
BeginAssign(a, target, due) ==
    /\ making[a] = "new"
    /\ IsEditable
    /\ terms' = [terms EXCEPT ![a] = Asks(target, due)]
    /\ Makes(a, "asked")
    /\ Untouched
    /\ UNCHANGED <<told, rows>>

SameTarget(a, b) == terms[a].target = terms[b].target

\* The flush: uq_assignments_target waits for an insert under way and refuses
\* what is already there.
InsertAssignment(a) ==
    /\ making[a] = "asked"
    /\ \A b \in Assigners : SameTarget(a, b) => making[b] # "telling"
    /\ IF \E b \in rows : SameTarget(a, b)
       THEN Forgets(a)
       ELSE Makes(a, "telling") /\ UNCHANGED <<terms, told>>
    /\ Untouched
    /\ UNCHANGED rows

TellLearner(a, l) ==
    /\ making[a] = "telling"
    /\ l \in terms[a].audience \ told[a]
    /\ told' = [told EXCEPT ![a] = @ \cup {l}]
    /\ Untouched
    /\ UNCHANGED <<making, terms, rows>>

\* Mutant of AllTold: the commit does not wait for the mail.
SomeTold(a) == TRUE
AllTold(a) == terms[a].audience \subseteq told[a]

FinishAssign(a) ==
    /\ making[a] = "telling"
    /\ AllTold(a)
    /\ Makes(a, "made")
    /\ rows' = rows \cup {a}
    /\ Untouched
    /\ UNCHANGED <<terms, told>>

\* A mail is refused, or the request dies: only mail already sent remains.
AbandonAssign(a) ==
    /\ making[a] \in {"asked", "telling"}
    /\ Forgets(a)
    /\ Untouched
    /\ UNCHANGED rows

-----------------------------------------------------------------------------
(* run_scheduled_reminders with its job, remind_outstanding_learners        *)

Runs(s, place, r) ==
    /\ pc' = [pc EXCEPT ![s] = place]
    /\ run' = [run EXCEPT ![s] = r]

\* A run that has ended is only remembered, and not if it did nothing.
Closed(s) == [NoRun EXCEPT !.op = run[s].op, !.began = run[s].began,
                           !.day = run[s].day, !.before = run[s].before]

Quiet == UNCHANGED <<today, changes, world, assigning, newcomers, caught>>
Sends == Quiet /\ UNCHANGED <<reminders, nudged, mails, steady>>

\* The transaction starts with the first statement: now() is this moment.
Begin(s, op) ==
    /\ pc[s] = "new"
    /\ Runs(s, "begun", [NoRun EXCEPT !.op = op, !.began = today,
                                      !.before = {q \in Senders : pc[q] \in {"done", "failed"}}])
    /\ Sends

\* _manual_nudge_already_invoked_today: the audit entries of today.
AllowNudge(s) ==
    /\ pc[s] = "begun" /\ run[s].op = "nudge"
    /\ IF today \in nudged THEN Runs(s, "failed", NoRun) ELSE Runs(s, "allowed", run[s])
    /\ Sends

\* _eligible_assignments: a job asks for those that have a checkpoint today, a
\* nudge for all that are chased, if there is a published module to name.
Eligible(s) ==
    {a \in rows : /\ terms[a].due # None
                  /\ run[s].op = "job" => IsCheckpoint(terms[a].due, today)
                  /\ run[s].op = "nudge" => status = "published"}

\* deployment_day_bounds, then the assignments.
ReadClock(s) ==
    /\ pc[s] = IF run[s].op = "job" THEN "begun" ELSE "allowed"
    /\ Runs(s, "running", [run[s] EXCEPT !.day = today, !.asked = Eligible(s),
                                         !.todo = Eligible(s)])
    /\ steady' = [steady EXCEPT ![s] = Outstanding(Eligible(s))]
    /\ Quiet /\ UNCHANGED <<reminders, nudged, mails>>

\* _module_for_notification.  The nudge has asked already; the job asks for each
\* assignment, and once it has a module in hand it may be given that object
\* again with the status it had (the session's identity map).
FindsModule(s) == run[s].op = "nudge" \/ status = "published" \/ run[s].at # None
FindsNone(s) == run[s].op = "job" /\ status # "published"

Resolve(s, a) ==
    /\ pc[s] = "running" /\ run[s].who = {} /\ a \in run[s].todo
    /\ LET rest == run[s].todo \ {a} IN
       \/ /\ FindsModule(s)
          /\ Runs(s, "running", [run[s] EXCEPT !.todo = rest, !.at = a,
                                               !.who = Audience(terms[a].target)])
       \/ /\ FindsNone(s)
          /\ Runs(s, "running", [run[s] EXCEPT !.todo = rest, !.at = None])
    /\ Sends

\* Mutant of AlreadyReminded: the cap is asked of the one assignment only.
AskedOfTheAssignment(s, l) ==
    \/ \E r \in reminders : r.to = l /\ r.day = run[s].day /\ r.for = run[s].at
    \/ run[s].began = run[s].day /\ [for |-> run[s].at, to |-> l] \in run[s].wrote
\* Mutant of AlreadyReminded: whoever was ever reminded.
EverReminded(s, l) == \E r \in reminders : r.to = l

\* _already_reminded_today, across every assignment, with this transaction's
\* own rows; a nudge also remembers whom it has mailed.
AlreadyReminded(s, l) ==
    \/ \E r \in reminders : r.to = l /\ r.day = run[s].day
    \/ /\ run[s].began = run[s].day \/ run[s].op = "nudge"
       /\ \E w \in run[s].wrote : w.to = l

Consider(s, l) ==
    /\ pc[s] = "running" /\ l \in run[s].who
    /\ LET rest == run[s].who \ {l} IN
       IF l \in finished \/ AlreadyReminded(s, l)
       THEN Runs(s, "running", [run[s] EXCEPT !.who = rest])
       ELSE Runs(s, "sending", [run[s] EXCEPT !.who = rest, !.to = l])
    /\ Sends

Mail(s) == [to |-> run[s].to, by |-> s, for |-> run[s].at, day |-> today]

\* _send_one_reminder: the mail, then the row, which is refused when its
\* assignment has gone.
Send(s) ==
    /\ pc[s] = "sending"
    /\ mails' = mails \cup {Mail(s)}
    /\ IF run[s].at \in rows
       THEN Runs(s, "running",
                 [run[s] EXCEPT !.to = None,
                                !.wrote = @ \cup {[for |-> run[s].at, to |-> run[s].to]}])
            /\ UNCHANGED steady
       ELSE Runs(s, "failed", Closed(s)) /\ steady' = [steady EXCEPT ![s] = {}]
    /\ Quiet /\ UNCHANGED <<reminders, nudged>>

\* A mail fails, or seems to; or the process, a statement or the commit does.
Fail(s) ==
    /\ pc[s] \in {"begun", "allowed", "running", "sending"}
    /\ \/ UNCHANGED mails
       \/ pc[s] = "sending" /\ mails' = mails \cup {Mail(s)}
    /\ Runs(s, "failed", IF \E m \in mails' : m.by = s THEN Closed(s) ELSE NoRun)
    /\ steady' = [steady EXCEPT ![s] = {}]
    /\ Quiet /\ UNCHANGED <<reminders, nudged>>

\* Mutant of Audited: the audit entry is left out when nobody was reached.
AuditedIfSent(s) == run[s].op = "nudge" /\ run[s].wrote # {}
Audited(s) == run[s].op = "nudge"

\* The commit.  sent_at and the audit entry's timestamp are both now().
FinishRun(s) ==
    /\ pc[s] = "running" /\ run[s].todo = {} /\ run[s].who = {}
    /\ reminders' = reminders \cup {[for |-> w.for, to |-> w.to, day |-> run[s].began]
                                       : w \in run[s].wrote}
    /\ nudged' = IF Audited(s) THEN nudged \cup {run[s].began} ELSE nudged
    /\ Runs(s, "done", Closed(s))
    /\ steady' = [steady EXCEPT ![s] = {}]
    /\ Quiet /\ UNCHANGED mails

-----------------------------------------------------------------------------
(* The world around, which may change at any time.                         *)

Midnight ==
    /\ today < LastDay
    /\ today' = today + 1
    /\ UNCHANGED <<changes, world, assigning, sending, newcomers, steady, caught>>

\* Whoever is outstanding no more, even for a moment, is not steady.
Watch ==
    steady' = [s \in Senders |->
                  IF pc[s] \in Underway THEN steady[s] \cap Outstanding(run[s].asked)' ELSE {}]

Changes ==
    /\ changes < MaxChanges
    /\ changes' = changes + 1
    /\ UNCHANGED <<today, making, terms, told, pc, run, nudged, mails>>

\* A learner attests.
Complete(l) ==
    /\ Changes
    /\ status # "deleted" /\ l \notin finished
    /\ finished' = finished \cup {l}
    /\ UNCHANGED <<status, team, enabled, rows, reminders, newcomers, caught>>
    /\ Watch

\* Coming into an audience that was resolved before.
Arrives(l) ==
    newcomers' = [a \in Assigners |->
                     IF making[a] \in {"new", "failed"} THEN newcomers[a]
                     ELSE newcomers[a] \cup {l}]

\* add_group_member, remove_group_member
Join(l) ==
    /\ Changes
    /\ l \notin team
    /\ team' = team \cup {l}
    /\ Arrives(l)
    /\ UNCHANGED <<status, enabled, finished, rows, reminders, caught>>
    /\ Watch

Leave(l) ==
    /\ Changes
    /\ l \in team
    /\ team' = team \ {l}
    /\ UNCHANGED <<status, enabled, finished, rows, reminders, newcomers, caught>>
    /\ Watch

\* enable_user, disable_user (and erase_user)
Enable(l) ==
    /\ Changes
    /\ l \notin enabled
    /\ enabled' = enabled \cup {l}
    /\ Arrives(l)
    /\ UNCHANGED <<status, team, finished, rows, reminders, caught>>
    /\ Watch

Disable(l) ==
    /\ Changes
    /\ l \in enabled
    /\ enabled' = enabled \ {l}
    /\ UNCHANGED <<status, team, finished, rows, reminders, newcomers, caught>>
    /\ Watch

\* publish_module: a substantive publish supersedes every completion; any other
\* of what is published already changes nothing here.
Publish(substantive) ==
    /\ Changes
    /\ status = "draft" \/ (status = "published" /\ substantive)
    /\ status' = "published"
    /\ finished' = IF substantive THEN {} ELSE finished
    /\ UNCHANGED <<team, enabled, rows, reminders, newcomers, caught>>
    /\ Watch

Unpublish ==
    /\ Changes
    /\ status = "published"
    /\ status' = "draft"
    /\ UNCHANGED <<team, enabled, finished, rows, reminders, newcomers, caught>>
    /\ Watch

\* An assignment's row with evidence not yet committed is key-share locked, and
\* its delete waits.
Free(a) == \A s \in Senders : \A w \in run[s].wrote : w.for # a

Drop(gone) ==
    /\ \A a \in gone : Free(a)
    /\ rows' = rows \ gone
    /\ reminders' = {r \in reminders : r.for \notin gone}

\* delete_assignment
Unassign(a) ==
    /\ Changes
    /\ a \in rows
    /\ Drop({a})
    /\ UNCHANGED <<world, newcomers, caught>>
    /\ Watch

\* delete_module, its last statements: the assignments of the material go.
DeleteModule ==
    /\ Changes
    /\ status # "deleted"
    /\ status' = "deleted"
    /\ Drop(rows)
    /\ caught' = {a \in Assigners : making[a] \in {"asked", "telling"}}
    /\ UNCHANGED <<team, enabled, finished, newcomers>>
    /\ Watch

-----------------------------------------------------------------------------
Next ==
    \/ \E a \in Assigners :
          \/ \E target \in Targets, due \in Dues \cup {None} : BeginAssign(a, target, due)
          \/ InsertAssignment(a)
          \/ \E l \in Learners : TellLearner(a, l)
          \/ FinishAssign(a)
          \/ AbandonAssign(a)
          \/ Unassign(a)
    \/ \E s \in Senders :
          \/ \E op \in {"job", "nudge"} : Begin(s, op)
          \/ AllowNudge(s)
          \/ ReadClock(s)
          \/ \E a \in Assigners : Resolve(s, a)
          \/ \E l \in Learners : Consider(s, l)
          \/ Send(s)
          \/ Fail(s)
          \/ FinishRun(s)
    \/ \E l \in Learners : Complete(l) \/ Join(l) \/ Leave(l) \/ Enable(l) \/ Disable(l)
    \/ \E substantive \in BOOLEAN : Publish(substantive)
    \/ Unpublish
    \/ DeleteModule
    \/ Midnight

Spec == Init /\ [][Next]_vars

-----------------------------------------------------------------------------
(* Properties.                                                             *)

Run == [op : {None, "job", "nudge"}, began : Days \cup {None}, day : Days \cup {None},
        before : SUBSET Senders, asked : SUBSET Assigners, todo : SUBSET Assigners,
        at : Assigners \cup {None}, who : SUBSET Learners, to : Learners \cup {None},
        wrote : SUBSET [for : Assigners, to : Learners]]

\* Every variable has its type.
TypeOK ==
    /\ today \in Days /\ changes \in 0 .. MaxChanges
    /\ status \in {"published", "draft", "deleted"}
    /\ team \subseteq Learners /\ enabled \subseteq Learners /\ finished \subseteq Learners
    /\ making \in [Assigners -> {"new", "asked", "telling", "made", "failed"}]
    /\ terms \in [Assigners -> [target : Targets \cup {None}, due : Dues \cup {None},
                                audience : SUBSET Learners]]
    /\ told \in [Assigners -> SUBSET Learners]
    /\ rows \subseteq Assigners
    /\ pc \in [Senders -> {"new", "begun", "allowed", "running", "sending", "done", "failed"}]
    /\ run \in [Senders -> Run]
    /\ reminders \subseteq [for : Assigners, to : Learners, day : Days]
    /\ nudged \subseteq Days
    /\ mails \subseteq [to : Learners, by : Senders, for : Assigners, day : Days]
    /\ newcomers \in [Assigners -> SUBSET Learners]
    /\ steady \in [Senders -> SUBSET Learners]
    /\ caught \subseteq Assigners

\* A learner gets a second reminder on one day only if the runs overlapped, or
\* the first one failed, was begun before midnight, or sent its mail for an
\* assignment removed since; and a run repeats itself only over midnight.
\* `_already_reminded_today` is a count with no lock, and nothing else stands
\* between the job, its reruns and the nudge: the hard cap of
\* docs/release-1-learning-modules/tickets.md but for these.
OneMailADay ==
    \A m, n \in mails :
        m.to = n.to /\ m.day = n.day /\ m # n =>
            /\ m.by = n.by => run[m.by].began # m.day
            /\ m.by \in run[n.by].before =>
                  \/ pc[m.by] = "failed"
                  \/ run[m.by].began # m.day
                  \/ m.for \notin rows

\* A run that comes to its end has mailed everybody who was outstanding from
\* its look at the clock on, unless another run's evidence of that very day
\* spared them: neither the cap nor a late change swallows a reminder.
NobodyIsMissed ==
    [][\A s \in Senders : pc[s] = "running" /\ pc'[s] = "done" =>
          \A l \in steady[s] : \E m \in mails :
              /\ m.to = l
              /\ m.by = s \/ (pc[m.by] = "done" /\ run[m.by].began = run[s].day)]_vars

\* Two nudges that did not overlap are of different days, or the later one ran
\* over midnight: also when the first reached nobody
\* (`_manual_nudge_already_invoked_today`).
NudgesTakeTurns ==
    \A s \in Senders : \A q \in run[s].before :
        /\ run[s].op = "nudge" /\ run[q].op = "nudge"
        /\ pc[s] = "done" /\ pc[q] = "done"
        /\ run[s].began = run[s].day
        => run[q].began # run[s].began

\* No assignment stands whose audience was not told, but for those who came
\* into it after `create_assignment` had read it.
EveryoneWasTold ==
    \A a \in rows : Audience(terms[a].target) \ newcomers[a] \subseteq told[a]

\* Deleted material is assigned only by a request that was under way when it
\* was deleted: `create_assignment` reads the module without a lock.
AssignedOnlyInFlight == status = "deleted" => rows \subseteq caught
=============================================================================
