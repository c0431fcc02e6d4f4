---------------------------- MODULE OutreachProofs ----------------------------
(***************************************************************************)
(* Theorems about Outreach, for any learners, assignments, runs and days.  *)
(***************************************************************************)
EXTENDS Outreach, TLAPS

-----------------------------------------------------------------------------
(* The shape of the state                                                  *)

SenderPlaces == {"new", "begun", "allowed", "running", "sending", "done", "failed"}

LEMMA DaysAreIntegers == Days \subseteq Int /\ (LastDay \in Nat) /\ 0 \in Days
BY DaysAssumption DEF Days

LEMMA NothingRuns == NoRun \in Run
BY DEF NoRun, Run

LEMMA ClosedIsRun == ASSUME TypeOK, NEW s \in Senders PROVE Closed(s) \in Run
<1>1. run[s] \in Run
  BY DEF TypeOK
<1>2. [NoRun EXCEPT !.op = run[s].op] \in Run
  BY <1>1, NothingRuns DEF Run
<1>3. [[NoRun EXCEPT !.op = run[s].op] EXCEPT !.began = run[s].began] \in Run
  BY <1>1, <1>2 DEF Run
<1>4. [[[NoRun EXCEPT !.op = run[s].op] EXCEPT !.began = run[s].began] EXCEPT !.day = run[s].day] \in Run
  BY <1>1, <1>3 DEF Run
<1>5. [[[[NoRun EXCEPT !.op = run[s].op] EXCEPT !.began = run[s].began] EXCEPT !.day = run[s].day]
          EXCEPT !.before = run[s].before] \in Run
  BY <1>1, <1>4 DEF Run
<1>. QED
  BY <1>5 DEF Closed

\* What a step of a sender writes, but for its own run.
Sending(s) ==
    /\ pc[s] \in {"new", "begun", "allowed", "running", "sending"}
    /\ \E place \in SenderPlaces \ {"new"}, r \in Run : Runs(s, place, r)
    /\ UNCHANGED <<today, changes, world, assigning, newcomers, caught>>
    /\ steady' \in [Senders -> SUBSET Learners]
    /\ reminders \subseteq reminders' /\ reminders' \subseteq [for : Assigners, to : Learners, day : Days]
    /\ nudged \subseteq nudged' /\ nudged' \subseteq Days
    /\ mails \subseteq mails' /\ mails' \subseteq [to : Learners, by : Senders, for : Assigners, day : Days]

\* What everybody else does: nothing to a run.
Around ==
    /\ UNCHANGED <<pc, run, nudged, mails>>
    /\ today' \in {today, today + 1}
    /\ \A a \in rows' \ rows : making[a] = "telling"
    /\ reminders' \subseteq reminders /\ \A r \in reminders : r.for \in rows' => r \in reminders'
    /\ \A a \in Assigners : making[a] = "made" => making'[a] = "made"
    /\ making' \in [Assigners -> {"new", "asked", "telling", "made", "failed"}]

\* A run in hand always knows what it is for.
RunsInHand ==
    \A s \in Senders :
        /\ pc[s] # "new" /\ pc[s] # "failed" => run[s].op \in {"job", "nudge"} /\ run[s].began \in Days
        /\ pc[s] = "new" => run[s] = NoRun
        /\ pc[s] = "sending" => run[s].to \in Learners
        /\ run[s].who # {} \/ pc[s] = "sending" => run[s].at \in Assigners
        /\ pc[s] \in {"running", "sending"} => run[s].day \in Days

LEMMA RunsAt ==
    ASSUME TypeOK, NEW s \in Senders, NEW place \in SenderPlaces, NEW r \in Run, Runs(s, place, r)
    PROVE  /\ pc'[s] = place /\ run'[s] = r
           /\ \A q \in Senders \ {s} : pc'[q] = pc[q] /\ run'[q] = run[q]
           /\ pc' \in [Senders -> SenderPlaces] /\ run' \in [Senders -> Run]
BY DEF Runs, TypeOK, SenderPlaces

\* The run a step of a sender leaves, written out.
LEMMA BeginRuns ==
    ASSUME TypeOK, NEW s \in Senders, NEW op \in {"job", "nudge"}, Begin(s, op)
    PROVE  \E r \in Run :
              /\ Runs(s, "begun", r)
              /\ r.op = op /\ r.began = today /\ r.who = {} /\ r.wrote = {}
              /\ r.todo = {} /\ r.at = None /\ r.asked = {}
              /\ r.before = {q \in Senders : pc[q] \in {"done", "failed"}}
<1>. DEFINE r == [NoRun EXCEPT !.op = op, !.began = today,
                               !.before = {q \in Senders : pc[q] \in {"done", "failed"}}]
<1>1. [NoRun EXCEPT !.op = op] \in Run
  BY NothingRuns DEF Run
<1>2. [[NoRun EXCEPT !.op = op] EXCEPT !.began = today] \in Run
  BY <1>1 DEF Run, TypeOK
<1>3. r \in Run
  BY <1>2 DEF Run
<1>4. r.op = op /\ r.began = today /\ r.who = {} /\ r.wrote = {}
      /\ r.todo = {} /\ r.at = None /\ r.asked = {}
      /\ r.before = {q \in Senders : pc[q] \in {"done", "failed"}}
  BY DEF NoRun
<1>5. Runs(s, "begun", r)
  BY DEF Begin
<1>. QED
  BY <1>3, <1>4, <1>5

LEMMA ReadClockRuns ==
    ASSUME TypeOK, NEW s \in Senders, ReadClock(s)
    PROVE  \E r \in Run :
              /\ Runs(s, "running", r)
              /\ r = [run[s] EXCEPT !.day = today, !.asked = Eligible(s), !.todo = Eligible(s)]
              /\ r.day = today
<1>. DEFINE r == [run[s] EXCEPT !.day = today, !.asked = Eligible(s), !.todo = Eligible(s)]
<1>0. Eligible(s) \subseteq Assigners /\ run[s] \in Run
  BY DEF Eligible, TypeOK
<1>1. [run[s] EXCEPT !.day = today] \in Run
  BY <1>0 DEF Run, TypeOK
<1>2. [[run[s] EXCEPT !.day = today] EXCEPT !.asked = Eligible(s)] \in Run
  BY <1>0, <1>1 DEF Run
<1>3. r \in Run
  BY <1>0, <1>2 DEF Run
<1>4. r.day = today
  BY <1>0 DEF Run
<1>5. Runs(s, "running", r)
  BY DEF ReadClock
<1>. QED
  BY <1>3, <1>4, <1>5

LEMMA ResolveRuns ==
    ASSUME TypeOK, NEW s \in Senders, NEW a \in Assigners, Resolve(s, a)
    PROVE  \E at \in {a, None}, who \in SUBSET Learners :
              LET r == [run[s] EXCEPT !.todo = @ \ {a}, !.at = at, !.who = who] IN
              r \in Run /\ Runs(s, "running", r) /\ (who # {} => at = a)
<1>0. run[s] \in Run /\ Audience(terms[a].target) \subseteq Learners /\ run[s].who = {}
  BY DEF TypeOK, Audience, Resolve
<1>1. ASSUME NEW at \in {a, None}, NEW who \in SUBSET Learners
      PROVE  [run[s] EXCEPT !.todo = @ \ {a}, !.at = at, !.who = who] \in Run
  <2>1. [run[s] EXCEPT !.todo = @ \ {a}] \in Run
    BY <1>0 DEF Run
  <2>2. [[run[s] EXCEPT !.todo = @ \ {a}] EXCEPT !.at = at] \in Run
    BY <2>1 DEF Run
  <2>. QED  BY <1>0, <2>2 DEF Run
<1>2. CASE Runs(s, "running", [run[s] EXCEPT !.todo = run[s].todo \ {a}, !.at = a,
                                             !.who = Audience(terms[a].target)])
  BY <1>0, <1>1, <1>2
<1>3. CASE Runs(s, "running", [run[s] EXCEPT !.todo = run[s].todo \ {a}, !.at = None])
  <2>1. [run[s] EXCEPT !.todo = run[s].todo \ {a}, !.at = None]
         = [run[s] EXCEPT !.todo = run[s].todo \ {a}, !.at = None, !.who = {}]
    BY <1>0 DEF Run
  <2>. QED  BY <1>1, <1>3, <2>1
<1>. QED
  BY <1>2, <1>3 DEF Resolve

LEMMA ConsiderRuns ==
    ASSUME TypeOK, NEW s \in Senders, NEW l \in Learners, Consider(s, l)
    PROVE  \E place \in {"running", "sending"}, r \in Run :
              /\ Runs(s, place, r)
              /\ \/ place = "running" /\ r = [run[s] EXCEPT !.who = @ \ {l}]
                 \/ /\ place = "sending" /\ r = [run[s] EXCEPT !.who = @ \ {l}, !.to = l]
                    /\ ~AlreadyReminded(s, l)
<1>0. run[s] \in Run
  BY DEF TypeOK
<1>1. [run[s] EXCEPT !.who = @ \ {l}] \in Run
  BY <1>0 DEF Run
<1>2. [run[s] EXCEPT !.who = @ \ {l}, !.to = l] \in Run
  <2>1. [[run[s] EXCEPT !.who = @ \ {l}] EXCEPT !.to = l] \in Run
    BY <1>1 DEF Run
  <2>. QED  BY <2>1
<1>. QED
  BY <1>1, <1>2 DEF Consider

LEMMA SendRuns ==
    ASSUME TypeOK, RunsInHand, NEW s \in Senders, Send(s)
    PROVE  \/ /\ run[s].at \in rows
              /\ \E r \in Run :
                    /\ Runs(s, "running", r)
                    /\ r = [run[s] EXCEPT !.to = None,
                                          !.wrote = @ \cup {[for |-> run[s].at, to |-> run[s].to]}]
           \/ Runs(s, "failed", Closed(s))
<1>0. run[s] \in Run /\ run[s].at \in Assigners /\ run[s].to \in Learners
  BY DEF TypeOK, Send, RunsInHand
<1>1. [run[s] EXCEPT !.to = None] \in Run
  BY <1>0 DEF Run
<1>2. run[s].wrote \cup {[for |-> run[s].at, to |-> run[s].to]} \in SUBSET [for : Assigners, to : Learners]
  BY <1>0 DEF Run
<1>3. [run[s] EXCEPT !.to = None, !.wrote = @ \cup {[for |-> run[s].at, to |-> run[s].to]}] \in Run
  <2>1. [run[s] EXCEPT !.to = None].wrote = run[s].wrote
    BY <1>0 DEF Run
  <2>2. [[run[s] EXCEPT !.to = None] EXCEPT
          !.wrote = run[s].wrote \cup {[for |-> run[s].at, to |-> run[s].to]}] \in Run
    BY <1>1, <1>2 DEF Run
  <2>. QED  BY <2>2
<1>. QED
  BY <1>3 DEF Send

LEMMA FinishWrites ==
    ASSUME TypeOK, RunsInHand, NEW s \in Senders, FinishRun(s)
    PROVE  /\ reminders' \subseteq [for : Assigners, to : Learners, day : Days]
           /\ nudged' \subseteq Days
<1>1. run[s].began \in Days /\ run[s].wrote \subseteq [for : Assigners, to : Learners]
  BY DEF FinishRun, RunsInHand, TypeOK, Run
<1>2. \A w \in run[s].wrote :
         [for |-> w.for, to |-> w.to, day |-> run[s].began] \in [for : Assigners, to : Learners, day : Days]
  BY <1>1
<1>. QED
  BY <1>1, <1>2 DEF FinishRun, TypeOK

LEMMA MailIsMail ==
    ASSUME TypeOK, RunsInHand, NEW s \in Senders, pc[s] = "sending"
    PROVE  Mail(s) \in [to : Learners, by : Senders, for : Assigners, day : Days]
BY DEF Mail, RunsInHand, TypeOK

LEMMA FailRuns ==
    ASSUME TypeOK, NEW s \in Senders, Fail(s)
    PROVE  \E r \in {NoRun, Closed(s)} :
              /\ Runs(s, "failed", r)
              /\ (\E m \in mails' : m.by = s) => r = Closed(s)
BY DEF Fail

\* A step of a sender, by what it does to everything else.
LEMMA SenderSends ==
    ASSUME TypeOK, RunsInHand, NEW s \in Senders,
           \/ \E op \in {"job", "nudge"} : Begin(s, op)
           \/ AllowNudge(s) \/ ReadClock(s) \/ (\E a \in Assigners : Resolve(s, a))
           \/ (\E l \in Learners : Consider(s, l)) \/ Send(s) \/ Fail(s) \/ FinishRun(s)
    PROVE  Sending(s)
<1>. USE DEF Sending, Quiet, Sends, SenderPlaces, TypeOK
<1>1. ASSUME NEW op \in {"job", "nudge"}, Begin(s, op) PROVE Sending(s)
  BY <1>1, BeginRuns DEF Begin
<1>2. CASE AllowNudge(s)
  BY <1>2, NothingRuns DEF AllowNudge
<1>3. CASE ReadClock(s)
  <2>1. Outstanding(Eligible(s)) \subseteq Learners
    BY DEF Outstanding, Audience
  <2>. QED  BY <1>3, <2>1, ReadClockRuns DEF ReadClock
<1>4. ASSUME NEW a \in Assigners, Resolve(s, a) PROVE Sending(s)
  BY <1>4, ResolveRuns DEF Resolve
<1>5. ASSUME NEW l \in Learners, Consider(s, l) PROVE Sending(s)
  BY <1>5, ConsiderRuns DEF Consider
<1>6. CASE Send(s)
  BY <1>6, SendRuns, ClosedIsRun, MailIsMail DEF Send
<1>7. CASE Fail(s)
  BY <1>7, FailRuns, NothingRuns, ClosedIsRun, MailIsMail DEF Fail
<1>8. CASE FinishRun(s)
  <2>1. Runs(s, "done", Closed(s)) /\ Closed(s) \in Run /\ pc[s] = "running"
    BY <1>8, ClosedIsRun DEF FinishRun
  <2>2. mails' = mails /\ UNCHANGED <<today, changes, world, assigning, newcomers, caught>>
    BY <1>8 DEF FinishRun
  <2>3. reminders \subseteq reminders' /\ nudged \subseteq nudged'
    BY <1>8 DEF FinishRun
  <2>4. steady' \in [Senders -> SUBSET Learners]
    BY <1>8 DEF FinishRun
  <2>. QED  BY <1>8, <2>1, <2>2, <2>3, <2>4, FinishWrites
<1>. QED
  BY <1>1, <1>2, <1>3, <1>4, <1>5, <1>6, <1>7, <1>8

\* The steps that are no sender's.
Assigning(a) ==
    \/ \E target \in Targets, due \in Dues \cup {None} : BeginAssign(a, target, due)
    \/ InsertAssignment(a) \/ (\E l \in Learners : TellLearner(a, l))
    \/ FinishAssign(a) \/ AbandonAssign(a) \/ Unassign(a)

Changing ==
    \/ \E l \in Learners : Complete(l) \/ Join(l) \/ Leave(l) \/ Enable(l) \/ Disable(l)
    \/ \E substantive \in BOOLEAN : Publish(substantive)
    \/ Unpublish \/ DeleteModule \/ Midnight

Terms == [target : Targets \cup {None}, due : Dues \cup {None}, audience : SUBSET Learners]

LEMMA AssigningShape ==
    ASSUME TypeOK, NEW a \in Assigners, Assigning(a)
    PROVE  Around /\ TypeOK'
<1>. USE DEF TypeOK, Around, Untouched, Makes, world, sending
<1>1. ASSUME NEW target \in Targets, NEW due \in Dues \cup {None}, BeginAssign(a, target, due)
      PROVE  Around /\ TypeOK'
  <2>1. Asks(target, due) \in Terms
    BY DEF Asks, Terms, Audience
  <2>2. terms' \in [Assigners -> Terms]
    BY <1>1, <2>1 DEF BeginAssign, Terms
  <2>. QED  BY <1>1, <2>2 DEF BeginAssign, Terms
<1>2. ASSUME Forgets(a) PROVE terms' \in [Assigners -> Terms] /\ told' \in [Assigners -> SUBSET Learners]
  <2>1. NoTerms \in Terms
    BY DEF NoTerms, Terms
  <2>. QED  BY <1>2, <2>1 DEF Forgets, Terms
<1>3. CASE InsertAssignment(a)
  <2>1. CASE Forgets(a)
    BY <1>2, <1>3, <2>1 DEF InsertAssignment, Forgets, Terms
  <2>2. CASE ~Forgets(a)
    BY <1>3, <2>2 DEF InsertAssignment
  <2>. QED  BY <2>1, <2>2
<1>4. ASSUME NEW l \in Learners, TellLearner(a, l) PROVE Around /\ TypeOK'
  BY <1>4 DEF TellLearner
<1>5. CASE FinishAssign(a)
  BY <1>5 DEF FinishAssign
<1>6. CASE AbandonAssign(a)
  BY <1>2, <1>6 DEF AbandonAssign, Forgets, Terms
<1>7. CASE Unassign(a)
  BY <1>7, DaysAssumption DEF Unassign, Changes, Drop, Watch
<1>. QED
  BY <1>1, <1>3, <1>4, <1>5, <1>6, <1>7 DEF Assigning

LEMMA ChangingShape ==
    ASSUME TypeOK, Changing
    PROVE  Around /\ TypeOK'
<1>. USE DaysAssumption DEF TypeOK, Around, Changes, Watch
<1>1. ASSUME NEW l \in Learners, Complete(l) PROVE Around /\ TypeOK'
  BY <1>1 DEF Complete
<1>2. ASSUME NEW l \in Learners, Join(l) PROVE Around /\ TypeOK'
  BY <1>2 DEF Join, Arrives
<1>3. ASSUME NEW l \in Learners, Leave(l) PROVE Around /\ TypeOK'
  BY <1>3 DEF Leave
<1>4. ASSUME NEW l \in Learners, Enable(l) PROVE Around /\ TypeOK'
  BY <1>4 DEF Enable, Arrives
<1>5. ASSUME NEW l \in Learners, Disable(l) PROVE Around /\ TypeOK'
  BY <1>5 DEF Disable
<1>6. ASSUME NEW substantive \in BOOLEAN, Publish(substantive) PROVE Around /\ TypeOK'
  BY <1>6 DEF Publish
<1>7. CASE Unpublish
  BY <1>7 DEF Unpublish
<1>8. CASE DeleteModule
  BY <1>8 DEF DeleteModule, Drop
<1>9. CASE Midnight
  BY <1>9 DEF Midnight, Days, world, assigning, sending
<1>. QED
  BY <1>1, <1>2, <1>3, <1>4, <1>5, <1>6, <1>7, <1>8, <1>9 DEF Changing

LEMMA Steps ==
    ASSUME TypeOK, RunsInHand, [Next]_vars
    PROVE  (\E s \in Senders : Sending(s)) \/ Around
<1>1. CASE UNCHANGED vars
  BY <1>1 DEF Around, vars, assigning, sending, TypeOK
<1>. QED
  BY <1>1, SenderSends, AssigningShape, ChangingShape DEF Next, Assigning, Changing

LEMMA TypeInit == Init => TypeOK /\ RunsInHand
<1>. SUFFICES ASSUME Init PROVE TypeOK /\ RunsInHand
  OBVIOUS
<1>1. PICK target \in [Standing -> Targets], due \in [Standing -> Dues \cup {None}] :
         terms = [a \in Assigners |-> IF a \in Standing THEN Asks(target[a], due[a]) ELSE NoTerms]
  BY DEF Init
<1>2. terms \in [Assigners -> Terms]
  <2>1. \A a \in Standing : Asks(target[a], due[a]) \in Terms
    <3>1. enabled \subseteq Learners
      BY DEF Init
    <3>. QED  BY <3>1 DEF Asks, Audience, Terms
  <2>2. NoTerms \in Terms
    BY DEF NoTerms, Terms
  <2>. QED  BY <1>1, <2>1, <2>2
<1>3. told \in [Assigners -> SUBSET Learners]
  BY <1>2 DEF Init, Terms
<1>4. run \in [Senders -> Run] /\ \A s \in Senders : run[s] = NoRun
  BY NothingRuns DEF Init
<1>5. RunsInHand
  BY <1>4 DEF Init, RunsInHand, NoRun
<1>. QED
  BY <1>2, <1>3, <1>4, <1>5, StandingAssumption, DaysAssumption DEF Init, TypeOK, Days, Terms

\* A step of a sender changes its own run only.
LEMMA OwnRun ==
    ASSUME TypeOK, NEW s \in Senders, Sending(s)
    PROVE  /\ pc'[s] \in SenderPlaces \ {"new"} /\ run'[s] \in Run
           /\ \A q \in Senders \ {s} : pc'[q] = pc[q] /\ run'[q] = run[q]
           /\ pc' \in [Senders -> SenderPlaces] /\ run' \in [Senders -> Run]
BY RunsAt DEF Sending

LEMMA TypeStep == ASSUME TypeOK, RunsInHand, [Next]_vars PROVE TypeOK'
<1>1. ASSUME NEW s \in Senders, Sending(s) PROVE TypeOK'
  BY <1>1, OwnRun DEF Sending, TypeOK, world, assigning, SenderPlaces
<1>2. CASE UNCHANGED vars
  BY <1>2 DEF TypeOK, vars, world, assigning, sending
<1>. QED
  BY <1>1, <1>2, SenderSends, AssigningShape, ChangingShape DEF Next, Assigning, Changing

LEMMA RunsInHandStep == ASSUME TypeOK, RunsInHand, [Next]_vars PROVE RunsInHand'
<1>. DEFINE Known(p, r) ==
        /\ p # "new" /\ p # "failed" => r.op \in {"job", "nudge"} /\ r.began \in Days
        /\ p = "new" => r = NoRun
        /\ p = "sending" => r.to \in Learners
        /\ r.who # {} \/ p = "sending" => r.at \in Assigners
        /\ p \in {"running", "sending"} => r.day \in Days
<1>0. \A s \in Senders : Known(pc[s], run[s]) /\ run[s] \in Run
  BY DEF RunsInHand, TypeOK
<1>. HIDE DEF Known
<1>1. ASSUME NEW s \in Senders, Sending(s), Known(pc'[s], run'[s]) PROVE RunsInHand'
  <2>1. \A q \in Senders : Known(pc'[q], run'[q])
    BY <1>0, <1>1, OwnRun
  <2>. QED  BY <2>1 DEF Known, RunsInHand
<1>2. CASE Around
  BY <1>2 DEF Around, RunsInHand
<1>3. ASSUME NEW s \in Senders,
             \/ \E op \in {"job", "nudge"} : Begin(s, op)
             \/ AllowNudge(s) \/ ReadClock(s) \/ (\E a \in Assigners : Resolve(s, a))
             \/ (\E l \in Learners : Consider(s, l)) \/ Send(s) \/ Fail(s) \/ FinishRun(s)
      PROVE  Known(pc'[s], run'[s])
  <2>. USE DEF SenderPlaces
  <2>0. Known(pc[s], run[s]) /\ run[s] \in Run /\ today \in Days /\ NoRun.who = {}
        /\ Closed(s) \in Run /\ NoRun \in Run
    BY <1>0, ClosedIsRun, NothingRuns DEF TypeOK, NoRun
  <2>1. ASSUME NEW op \in {"job", "nudge"}, Begin(s, op) PROVE Known(pc'[s], run'[s])
    <3>1. PICK r \in Run : Runs(s, "begun", r) /\ r.op = op /\ r.began = today /\ r.who = {}
      BY <2>1, BeginRuns
    <3>2. pc'[s] = "begun" /\ run'[s] = r
      BY <3>1, RunsAt
    <3>. QED  BY <2>0, <3>1, <3>2 DEF Known
  <2>2. CASE AllowNudge(s)
    <3>1. \/ pc'[s] = "failed" /\ run'[s] = NoRun
          \/ pc'[s] = "allowed" /\ run'[s] = run[s] /\ pc[s] = "begun"
      BY <2>0, <2>2, RunsAt DEF AllowNudge
    <3>. QED  BY <2>0, <3>1 DEF Known
  <2>3. CASE ReadClock(s)
    <3>1. PICK r \in Run :
            /\ Runs(s, "running", r)
            /\ r = [run[s] EXCEPT !.day = today, !.asked = Eligible(s), !.todo = Eligible(s)]
            /\ r.day = today
      BY <2>3, ReadClockRuns
    <3>2. r.op = run[s].op /\ r.began = run[s].began /\ r.who = run[s].who /\ r.at = run[s].at
      BY <2>0, <3>1 DEF Run
    <3>3. pc[s] \in {"begun", "allowed"}
      BY <2>3 DEF ReadClock
    <3>4. pc'[s] = "running" /\ run'[s] = r
      BY <3>1, RunsAt
    <3>. QED  BY <2>0, <3>1, <3>2, <3>3, <3>4 DEF Known
  <2>4. ASSUME NEW a \in Assigners, Resolve(s, a) PROVE Known(pc'[s], run'[s])
    <3>1. PICK at \in {a, None}, who \in SUBSET Learners :
            LET r == [run[s] EXCEPT !.todo = @ \ {a}, !.at = at, !.who = who] IN
            r \in Run /\ Runs(s, "running", r) /\ (who # {} => at = a)
      BY <2>4, ResolveRuns
    <3>. DEFINE r == [run[s] EXCEPT !.todo = @ \ {a}, !.at = at, !.who = who]
    <3>2. r.op = run[s].op /\ r.began = run[s].began /\ r.who = who /\ r.at = at /\ r.day = run[s].day
      BY <2>0 DEF Run
    <3>3. pc[s] = "running" /\ pc'[s] = "running" /\ run'[s] = r
      BY <2>4, <3>1, RunsAt DEF Resolve
    <3>. QED  BY <2>0, <3>1, <3>2, <3>3 DEF Known
  <2>5. ASSUME NEW l \in Learners, Consider(s, l) PROVE Known(pc'[s], run'[s])
    <3>1. PICK place \in {"running", "sending"}, r \in Run :
            /\ Runs(s, place, r)
            /\ \/ place = "running" /\ r = [run[s] EXCEPT !.who = @ \ {l}]
               \/ /\ place = "sending" /\ r = [run[s] EXCEPT !.who = @ \ {l}, !.to = l]
                  /\ ~AlreadyReminded(s, l)
      BY <2>5, ConsiderRuns
    <3>2. /\ r.op = run[s].op /\ r.began = run[s].began /\ r.at = run[s].at /\ r.day = run[s].day
          /\ place = "sending" => r.to = l
      BY <2>0, <3>1 DEF Run
    <3>3. pc[s] = "running" /\ l \in run[s].who /\ pc'[s] = place /\ run'[s] = r
      BY <2>5, <3>1, RunsAt DEF Consider
    <3>. QED  BY <2>0, <3>1, <3>2, <3>3 DEF Known
  <2>6. CASE Send(s)
    <3>1. CASE Runs(s, "failed", Closed(s))
      <4>1. Closed(s).who = {}
        BY DEF Closed, NoRun
      <4>. QED  BY <2>0, <3>1, <4>1, RunsAt DEF Known
    <3>2. ASSUME NEW r \in Run, Runs(s, "running", r),
                 r = [run[s] EXCEPT !.to = None,
                                    !.wrote = @ \cup {[for |-> run[s].at, to |-> run[s].to]}]
          PROVE  Known(pc'[s], run'[s])
      <4>1. r.op = run[s].op /\ r.began = run[s].began /\ r.at = run[s].at /\ r.day = run[s].day
        BY <2>0, <3>2 DEF Run
      <4>2. pc[s] = "sending"
        BY <2>6 DEF Send
      <4>. QED  BY <2>0, <3>2, <4>1, <4>2, RunsAt DEF Known
    <3>. QED  BY <2>6, <3>1, <3>2, SendRuns
  <2>7. CASE Fail(s)
    <3>1. Closed(s).who = {}
      BY DEF Closed, NoRun
    <3>. QED  BY <2>0, <2>7, <3>1, FailRuns, RunsAt DEF Known
  <2>8. CASE FinishRun(s)
    <3>1. Closed(s).who = {} /\ Closed(s).op = run[s].op /\ Closed(s).began = run[s].began
      BY DEF Closed, NoRun
    <3>. QED  BY <2>0, <2>8, <3>1, RunsAt DEF Known, FinishRun
  <2>. QED  BY <1>3, <2>1, <2>2, <2>3, <2>4, <2>5, <2>6, <2>7, <2>8
<1>4. CASE UNCHANGED vars
  BY <1>4 DEF RunsInHand, vars, sending
<1>. QED
  BY <1>1, <1>2, <1>3, <1>4, SenderSends, AssigningShape, ChangingShape DEF Next, Assigning, Changing

LEMMA TypeHolds == Spec => [](TypeOK /\ RunsInHand)
<1>. QED
  BY TypeInit, TypeStep, RunsInHandStep, PTL DEF Spec

\* Every variable has its type, for any learners, assignments, runs and days.
THEOREM OutreachTypeCorrect == Spec => []TypeOK
<1>. QED
  BY TypeHolds, PTL

-----------------------------------------------------------------------------
(* Assignments                                                             *)

Resolved(a) == making[a] \in {"asked", "telling", "made"}

\* What was committed was told; what was resolved is the audience still, but for
\* newcomers; and what stands for deleted material was under way at the time.
AssignInv ==
    /\ \A a \in rows : making[a] = "made" /\ terms[a].audience \subseteq told[a]
    /\ \A a \in Assigners : Resolved(a) =>
          Audience(terms[a].target) \ newcomers[a] \subseteq terms[a].audience
    /\ status = "deleted" => \A a \in Assigners :
          a \in rows \/ making[a] \in {"asked", "telling"} => a \in caught

LEMMA AssignInit == Init => AssignInv
<1>. SUFFICES ASSUME Init PROVE AssignInv
  OBVIOUS
<1>1. PICK target \in [Standing -> Targets], due \in [Standing -> Dues \cup {None}] :
         terms = [a \in Assigners |-> IF a \in Standing THEN Asks(target[a], due[a]) ELSE NoTerms]
  BY DEF Init
<1>2. \A a \in Standing : a \in Assigners /\ terms[a].audience = Audience(terms[a].target)
  BY <1>1, StandingAssumption DEF Asks
<1>3. \A a \in Assigners : Resolved(a) => a \in Standing
  BY DEF Init, Resolved
<1>. QED
  BY <1>2, <1>3 DEF Init, AssignInv, Resolved

LEMMA AssignStep == ASSUME TypeOK, RunsInHand, AssignInv, [Next]_vars PROVE AssignInv'
<1>. USE DEF AssignInv, Resolved
<1>1. ASSUME NEW s \in Senders, Sending(s) PROVE AssignInv'
  BY <1>1 DEF Sending, world, assigning, Audience
<1>2. CASE UNCHANGED vars
  BY <1>2 DEF vars, world, assigning, Audience
<1>3. ASSUME NEW a \in Assigners, Assigning(a) PROVE AssignInv'
  <2>. USE DEF Untouched, Makes, world, TypeOK, Audience
  <2>1. ASSUME NEW target \in Targets, NEW due \in Dues \cup {None}, BeginAssign(a, target, due)
        PROVE  AssignInv'
    <3>1. terms'[a] = Asks(target, due) /\ \A b \in Assigners \ {a} : terms'[b] = terms[b]
      BY <2>1 DEF BeginAssign
    <3>. QED  BY <2>1, <3>1 DEF BeginAssign, Asks, IsEditable
  <2>2. CASE making[a] \in {"asked", "telling"} /\ Forgets(a) /\ UNCHANGED rows /\ Untouched
    BY <2>2 DEF Forgets
  <2>3. CASE InsertAssignment(a) /\ ~Forgets(a)
    BY <2>3 DEF InsertAssignment
  <2>4. ASSUME NEW l \in Learners, TellLearner(a, l) PROVE AssignInv'
    BY <2>4 DEF TellLearner
  <2>5. CASE FinishAssign(a)
    BY <2>5 DEF FinishAssign, AllTold
  <2>6. CASE Unassign(a)
    BY <2>6 DEF Unassign, Changes, Drop
  <2>. QED
    BY <1>3, <2>1, <2>2, <2>3, <2>4, <2>5, <2>6 DEF Assigning, InsertAssignment, AbandonAssign
<1>4. CASE Changing
  <2>. USE DEF TypeOK, Audience, Changes
  <2>1. ASSUME NEW l \in Learners, Complete(l) \/ Leave(l) \/ Disable(l) PROVE AssignInv'
    BY <2>1 DEF Complete, Leave, Disable
  <2>2. ASSUME NEW l \in Learners, Join(l) PROVE AssignInv'
    BY <2>2 DEF Join, Arrives
  <2>3. ASSUME NEW l \in Learners, Enable(l) PROVE AssignInv'
    BY <2>3 DEF Enable, Arrives
  <2>4. ASSUME NEW substantive \in BOOLEAN, Publish(substantive) PROVE AssignInv'
    BY <2>4 DEF Publish
  <2>5. CASE Unpublish
    BY <2>5 DEF Unpublish
  <2>6. CASE DeleteModule
    BY <2>6 DEF DeleteModule, Drop
  <2>7. CASE Midnight
    BY <2>7 DEF Midnight, world, assigning
  <2>. QED  BY <1>4, <2>1, <2>2, <2>3, <2>4, <2>5, <2>6, <2>7 DEF Changing
<1>. QED
  BY <1>1, <1>2, <1>3, <1>4, SenderSends DEF Next, Assigning, Changing

\* No assignment stands whose audience was not told, but for those who came into
\* it later, however many requests and changes of the groups overlap.
THEOREM AudiencesAreTold == Spec => []EveryoneWasTold
<1>1. AssignInv /\ TypeOK => EveryoneWasTold
  BY DEF AssignInv, EveryoneWasTold, Resolved, TypeOK
<1>. QED
  BY <1>1, AssignInit, AssignStep, TypeHolds, PTL DEF Spec

\* Deleted material is assigned only by requests that were under way when it was
\* deleted, however many there are.
THEOREM OnlyInFlight == Spec => []AssignedOnlyInFlight
<1>1. AssignInv /\ TypeOK => AssignedOnlyInFlight
  BY DEF AssignInv, AssignedOnlyInFlight, TypeOK
<1>. QED
  BY <1>1, AssignInit, AssignStep, TypeHolds, PTL DEF Spec

-----------------------------------------------------------------------------
(* What a step of a sender does to its run and to what it leaves           *)

Leaves == mails' = mails /\ reminders' = reminders /\ nudged' = nudged

Keeps(s) ==
    /\ run'[s].op = run[s].op /\ run'[s].began = run[s].began
    /\ run'[s].day = run[s].day /\ run'[s].before = run[s].before

Begins(s) ==
    /\ Leaves
    /\ pc[s] = "new" /\ pc'[s] = "begun"
    /\ run'[s].began = today /\ run'[s].before = {q \in Senders : pc[q] \in {"done", "failed"}}
    /\ run'[s].wrote = {} /\ run'[s].todo = {} /\ run'[s].at = None

Allows(s) ==
    /\ Leaves
    /\ pc[s] = "begun" /\ pc'[s] = "allowed"
    /\ run'[s] = run[s] /\ run[s].op = "nudge" /\ today \notin nudged

Clocks(s) ==
    /\ Leaves
    /\ pc[s] \in {"begun", "allowed"} /\ pc'[s] = "running"
    /\ run[s].op = "nudge" => pc[s] = "allowed"
    /\ run'[s].op = run[s].op /\ run'[s].began = run[s].began /\ run'[s].before = run[s].before
    /\ run'[s].day = today /\ run'[s].todo \subseteq rows /\ run'[s].at = run[s].at

Works(s) ==
    /\ Leaves
    /\ pc[s] = "running" /\ pc'[s] = "running"
    /\ Keeps(s) /\ run'[s].wrote = run[s].wrote
    /\ run'[s].todo \subseteq run[s].todo /\ run'[s].at \in run[s].todo \cup {run[s].at, None}

Picks(s) ==
    /\ Leaves
    /\ pc[s] = "running" /\ pc'[s] = "sending"
    /\ Keeps(s) /\ run'[s].wrote = run[s].wrote
    /\ run'[s].todo = run[s].todo /\ run'[s].at = run[s].at
    /\ ~AlreadyReminded(s, run'[s].to)

Mails(s) ==
    /\ reminders' = reminders /\ nudged' = nudged /\ mails' = mails \cup {Mail(s)}
    /\ pc[s] = "sending" /\ pc'[s] = "running"
    /\ Keeps(s) /\ run'[s].todo = run[s].todo /\ run'[s].at = run[s].at
    /\ run'[s].wrote = run[s].wrote \cup {[for |-> run[s].at, to |-> run[s].to]}

Fails(s) ==
    /\ reminders' = reminders /\ nudged' = nudged
    /\ mails' = mails \/ (pc[s] = "sending" /\ mails' = mails \cup {Mail(s)})
    /\ pc[s] \in {"begun", "allowed", "running", "sending"} /\ pc'[s] = "failed"
    /\ run'[s].todo = {} /\ run'[s].at = None
    /\ \/ Keeps(s)
       \/ /\ mails' = mails /\ run'[s].before = {} /\ run'[s].op = None
          /\ pc[s] = "begun" \/ \A m \in mails : m.by # s

Finishes(s) ==
    /\ mails' = mails
    /\ reminders' = reminders \cup {[for |-> w.for, to |-> w.to, day |-> run[s].began] : w \in run[s].wrote}
    /\ nudged \subseteq nudged' /\ (run[s].op = "nudge" => run[s].began \in nudged')
    /\ pc[s] = "running" /\ pc'[s] = "done" /\ run[s].todo = {} /\ run[s].who = {}
    /\ Keeps(s) /\ run'[s].todo = {} /\ run'[s].at = None

Acts(s) ==
    /\ \A q \in Senders \ {s} : pc'[q] = pc[q] /\ run'[q] = run[q]
    /\ today' = today /\ rows' = rows /\ making' = making
    /\ \/ Begins(s) \/ Allows(s) \/ Clocks(s) \/ Works(s) \/ Picks(s)
       \/ Mails(s) \/ Fails(s) \/ Finishes(s)

LEMMA SenderActs ==
    ASSUME TypeOK, RunsInHand, NEW s \in Senders,
           \/ \E op \in {"job", "nudge"} : Begin(s, op)
           \/ AllowNudge(s) \/ ReadClock(s) \/ (\E a \in Assigners : Resolve(s, a))
           \/ (\E l \in Learners : Consider(s, l)) \/ Send(s) \/ Fail(s) \/ FinishRun(s)
    PROVE  Acts(s)
<1>. USE DEF SenderPlaces
<1>0. /\ \A q \in Senders \ {s} : pc'[q] = pc[q] /\ run'[q] = run[q]
      /\ today' = today /\ rows' = rows /\ making' = making
  BY SenderSends, OwnRun DEF Sending, assigning
<1>00. run[s] \in Run /\ NoRun \in Run /\ Closed(s) \in Run
  BY NothingRuns, ClosedIsRun DEF TypeOK
<1>01. /\ Closed(s).op = run[s].op /\ Closed(s).began = run[s].began /\ Closed(s).day = run[s].day
       /\ Closed(s).before = run[s].before /\ Closed(s).todo = {} /\ Closed(s).at = None
       /\ NoRun.todo = {} /\ NoRun.at = None /\ NoRun.before = {} /\ NoRun.op = None
       /\ Mail(s).by = s
  BY DEF Closed, NoRun, Mail
<1>1. ASSUME NEW op \in {"job", "nudge"}, Begin(s, op) PROVE Begins(s)
  <2>1. PICK r \in Run :
           /\ Runs(s, "begun", r)
           /\ r.op = op /\ r.began = today /\ r.who = {} /\ r.wrote = {}
           /\ r.todo = {} /\ r.at = None
           /\ r.before = {q \in Senders : pc[q] \in {"done", "failed"}}
    BY <1>1, BeginRuns
  <2>2. pc'[s] = "begun" /\ run'[s] = r
    BY <2>1, RunsAt
  <2>. QED  BY <1>1, <2>1, <2>2 DEF Begins, Begin, Sends, Leaves
<1>2. ASSUME AllowNudge(s), today \notin nudged PROVE Allows(s)
  BY <1>2, <1>00, RunsAt DEF Allows, AllowNudge, Sends, Leaves
<1>3. ASSUME AllowNudge(s), today \in nudged PROVE Fails(s)
  <2>1. pc'[s] = "failed" /\ run'[s] = NoRun /\ mails' = mails /\ pc[s] = "begun"
        /\ reminders' = reminders /\ nudged' = nudged
    BY <1>3, <1>00, RunsAt DEF AllowNudge, Sends
  <2>. QED  BY <1>01, <2>1 DEF Fails
<1>4. ASSUME ReadClock(s) PROVE Clocks(s)
  <2>1. PICK r \in Run :
            /\ Runs(s, "running", r)
            /\ r = [run[s] EXCEPT !.day = today, !.asked = Eligible(s), !.todo = Eligible(s)]
            /\ r.day = today
    BY <1>4, ReadClockRuns
  <2>2. r.op = run[s].op /\ r.began = run[s].began /\ r.at = run[s].at
        /\ r.before = run[s].before /\ r.todo = Eligible(s)
    BY <1>00, <2>1 DEF Run
  <2>3. pc'[s] = "running" /\ run'[s] = r
    BY <2>1, RunsAt
  <2>4. Eligible(s) \subseteq rows
    BY DEF Eligible
  <2>5. Leaves /\ pc[s] \in {"begun", "allowed"} /\ (run[s].op = "nudge" => pc[s] = "allowed")
    BY <1>4 DEF ReadClock, Leaves
  <2>. QED  BY <2>1, <2>2, <2>3, <2>4, <2>5 DEF Clocks
<1>5. ASSUME NEW a \in Assigners, Resolve(s, a) PROVE Works(s)
  <2>1. PICK at \in {a, None}, who \in SUBSET Learners :
            LET r == [run[s] EXCEPT !.todo = @ \ {a}, !.at = at, !.who = who] IN
            r \in Run /\ Runs(s, "running", r) /\ (who # {} => at = a)
    BY <1>5, ResolveRuns
  <2>. DEFINE r == [run[s] EXCEPT !.todo = @ \ {a}, !.at = at, !.who = who]
  <2>2. r.op = run[s].op /\ r.began = run[s].began /\ r.at = at /\ r.day = run[s].day
        /\ r.before = run[s].before /\ r.todo = run[s].todo \ {a} /\ r.wrote = run[s].wrote
    BY <1>00 DEF Run
  <2>3. pc'[s] = "running" /\ run'[s] = r
    BY <2>1, RunsAt
  <2>4. Leaves /\ pc[s] = "running" /\ a \in run[s].todo
    BY <1>5 DEF Resolve, Leaves, Sends
  <2>. QED  BY <2>2, <2>3, <2>4 DEF Works, Keeps
<1>6. ASSUME NEW l \in Learners, Consider(s, l) PROVE Works(s) \/ Picks(s)
  <2>0. Leaves /\ pc[s] = "running"
    BY <1>6 DEF Consider, Leaves, Sends
  <2>1. PICK place \in {"running", "sending"}, r \in Run :
            /\ Runs(s, place, r)
            /\ \/ place = "running" /\ r = [run[s] EXCEPT !.who = @ \ {l}]
               \/ /\ place = "sending" /\ r = [run[s] EXCEPT !.who = @ \ {l}, !.to = l]
                  /\ ~AlreadyReminded(s, l)
    BY <1>6, ConsiderRuns
  <2>2. /\ r.op = run[s].op /\ r.began = run[s].began /\ r.at = run[s].at /\ r.day = run[s].day
        /\ r.before = run[s].before /\ r.todo = run[s].todo /\ r.wrote = run[s].wrote
        /\ place = "sending" => r.to = l
    BY <1>00, <2>1 DEF Run
  <2>3. pc'[s] = place /\ run'[s] = r
    BY <2>1, RunsAt
  <2>4. CASE place = "running"
    BY <2>0, <2>2, <2>3, <2>4 DEF Works, Keeps
  <2>5. CASE place = "sending"
    BY <2>0, <2>1, <2>2, <2>3, <2>5 DEF Picks, Keeps
  <2>. QED  BY <2>4, <2>5
<1>7. ASSUME Send(s) PROVE Mails(s) \/ Fails(s)
  <2>0. reminders' = reminders /\ nudged' = nudged /\ mails' = mails \cup {Mail(s)} /\ pc[s] = "sending"
    BY <1>7 DEF Send
  <2>1. CASE Runs(s, "failed", Closed(s))
    <3>1. pc'[s] = "failed" /\ run'[s] = Closed(s)
      BY <1>00, <2>1, RunsAt
    <3>. QED  BY <1>01, <2>0, <3>1 DEF Fails, Keeps
  <2>2. ASSUME NEW r \in Run, Runs(s, "running", r),
               r = [run[s] EXCEPT !.to = None,
                                  !.wrote = @ \cup {[for |-> run[s].at, to |-> run[s].to]}]
        PROVE  Mails(s)
    <3>1. r.op = run[s].op /\ r.began = run[s].began /\ r.at = run[s].at /\ r.day = run[s].day
          /\ r.before = run[s].before /\ r.todo = run[s].todo
          /\ r.wrote = run[s].wrote \cup {[for |-> run[s].at, to |-> run[s].to]}
      BY <1>00, <2>2 DEF Run
    <3>2. pc'[s] = "running" /\ run'[s] = r
      BY <2>2, RunsAt
    <3>. QED  BY <2>0, <3>1, <3>2 DEF Mails, Keeps
  <2>. QED  BY <1>7, <2>1, <2>2, SendRuns
<1>8. ASSUME Fail(s) PROVE Fails(s)
  <2>1. PICK r \in {NoRun, Closed(s)} :
              /\ Runs(s, "failed", r)
              /\ (\E m \in mails' : m.by = s) => r = Closed(s)
    BY <1>8, FailRuns
  <2>2. pc'[s] = "failed" /\ run'[s] = r
    BY <1>00, <2>1, RunsAt
  <2>3. /\ reminders' = reminders /\ nudged' = nudged
        /\ mails' = mails \/ (pc[s] = "sending" /\ mails' = mails \cup {Mail(s)})
        /\ pc[s] \in {"begun", "allowed", "running", "sending"}
    BY <1>8 DEF Fail
  <2>4. (\A m \in mails' : m.by # s) => mails' = mails /\ \A m \in mails : m.by # s
    BY <1>01, <2>3
  <2>. QED  BY <1>01, <2>1, <2>2, <2>3, <2>4 DEF Fails, Keeps
<1>9. ASSUME FinishRun(s) PROVE Finishes(s)
  <2>1. pc'[s] = "done" /\ run'[s] = Closed(s)
    BY <1>00, <1>9, RunsAt DEF FinishRun
  <2>2. /\ pc[s] = "running" /\ mails' = mails /\ run[s].todo = {} /\ run[s].who = {}
        /\ reminders' = reminders \cup {[for |-> w.for, to |-> w.to, day |-> run[s].began] : w \in run[s].wrote}
        /\ nudged \subseteq nudged' /\ (run[s].op = "nudge" => run[s].began \in nudged')
    BY <1>9 DEF FinishRun, Audited
  <2>. QED  BY <1>01, <2>1, <2>2 DEF Finishes, Keeps
<1>. QED
  BY <1>0, <1>1, <1>2, <1>3, <1>4, <1>5, <1>6, <1>7, <1>8, <1>9 DEF Acts

LEMMA ActsOrAround ==
    ASSUME TypeOK, RunsInHand, [Next]_vars
    PROVE  (\E s \in Senders : Acts(s)) \/ Around
<1>1. CASE UNCHANGED vars
  BY <1>1 DEF Around, vars, assigning, sending, TypeOK
<1>. QED
  BY <1>1, SenderActs, AssigningShape, ChangingShape DEF Next, Assigning, Changing

-----------------------------------------------------------------------------
(* Nudges that did not overlap: what a run found in the audit log          *)

EndedBefore == \A s \in Senders : \A q \in run[s].before : pc[q] \in {"done", "failed"}

NudgesAreAudited ==
    \A s \in Senders : pc[s] = "done" /\ run[s].op = "nudge" => run[s].began \in nudged

Clocked ==
    \A s \in Senders :
        /\ pc[s] \in {"begun", "allowed"} => run[s].began \in Days /\ run[s].began <= today
        /\ pc[s] \in {"running", "sending", "done"} =>
              /\ run[s].began \in Days /\ run[s].day \in Days
              /\ run[s].began <= run[s].day /\ run[s].day <= today

SameDay(s) ==
    \/ pc[s] = "allowed" /\ run[s].began = today
    \/ pc[s] \in {"running", "sending", "done"} /\ run[s].began = run[s].day

OtherDays ==
    \A s \in Senders : \A q \in run[s].before :
        /\ run[s].op = "nudge" /\ run[q].op = "nudge" /\ pc[q] = "done" /\ SameDay(s)
        => run[q].began # run[s].began

NudgeInv == EndedBefore /\ NudgesAreAudited /\ Clocked /\ OtherDays

LEMMA NudgeInit == Init => NudgeInv
BY DEF Init, NudgeInv, EndedBefore, NudgesAreAudited, Clocked, OtherDays, NoRun

LEMMA NudgeActs ==
    ASSUME TypeOK, RunsInHand, NudgeInv, NEW s \in Senders, Acts(s)
    PROVE  NudgeInv'
<1>. USE DEF NudgeInv
<1>0. /\ \A q \in Senders \ {s} : pc'[q] = pc[q] /\ run'[q] = run[q]
      /\ today' = today /\ today \in Int
      /\ \A q \in Senders : run[q].before \subseteq Senders
      /\ Days \subseteq Int /\ nudged \subseteq nudged'
      /\ today \in Days
  BY DaysAreIntegers DEF Acts, TypeOK, Run, Begins, Allows, Clocks, Works, Picks, Mails, Fails,
                         Finishes, Leaves
<1>1. pc[s] \in {"new", "begun", "allowed", "running", "sending"}
  BY DEF Acts, Begins, Allows, Clocks, Works, Picks, Mails, Fails, Finishes
<1>2. \/ pc[s] = "new" /\ run'[s].before = {q \in Senders : pc[q] \in {"done", "failed"}}
      \/ run'[s].before = run[s].before
      \/ run'[s].before = {}
  BY DEF Acts, Begins, Allows, Clocks, Works, Picks, Mails, Fails, Finishes, Keeps
<1>3. EndedBefore'
  BY <1>0, <1>1, <1>2 DEF EndedBefore
<1>4. NudgesAreAudited'
  <2>1. pc'[s] = "done" => run'[s].began = run[s].began /\ run'[s].op = run[s].op
                           /\ (run[s].op = "nudge" => run[s].began \in nudged')
    BY <1>1 DEF Acts, Begins, Allows, Clocks, Works, Picks, Mails, Fails, Finishes, Keeps
  <2>. QED  BY <1>0, <2>1 DEF NudgesAreAudited
<1>5. Clocked'
  <2>1. pc'[s] \in {"begun", "allowed"} => run'[s].began \in Days /\ run'[s].began <= today
    BY <1>0 DEF Acts, Begins, Allows, Clocks, Works, Picks, Mails, Fails, Finishes, Clocked
  <2>2. pc'[s] \in {"running", "sending", "done"} =>
              /\ run'[s].began \in Days /\ run'[s].day \in Days
              /\ run'[s].began <= run'[s].day /\ run'[s].day <= today
    BY <1>0 DEF Acts, Begins, Allows, Clocks, Works, Picks, Mails, Fails, Finishes, Clocked, Keeps
  <2>. QED  BY <1>0, <2>1, <2>2 DEF Clocked
<1>6. OtherDays'
  <2>. SUFFICES ASSUME NEW x \in Senders, NEW q \in run'[x].before,
                       run'[x].op = "nudge", run'[q].op = "nudge", pc'[q] = "done", SameDay(x)'
                PROVE  run'[q].began # run'[x].began
    BY DEF OtherDays
  <2>1. CASE x # s
    <3>1. q \in run[x].before /\ q # s
      BY <1>0, <1>1, <2>1 DEF EndedBefore
    <3>. QED  BY <1>0, <2>1, <3>1 DEF OtherDays, SameDay
  <2>2. CASE x = s
    <3>1. pc'[s] \in {"allowed", "running", "sending", "done"}
      BY <2>2 DEF SameDay
    <3>2. q \in run[s].before /\ q # s /\ run'[s].op = run[s].op /\ run'[s].began = run[s].began
      BY <1>0, <1>1, <2>2, <3>1
         DEF EndedBefore, Acts, Begins, Allows, Clocks, Works, Picks, Mails, Fails, Finishes, Keeps
    <3>3. CASE Allows(s)
      BY <1>0, <2>2, <3>2, <3>3 DEF Allows, NudgesAreAudited, SameDay
    <3>4. ASSUME ~Allows(s) PROVE SameDay(s)
      BY <1>0, <2>2, <3>1, <3>2, <3>4
         DEF SameDay, Acts, Begins, Clocks, Works, Picks, Mails, Fails, Finishes, Keeps
    <3>. QED  BY <1>0, <2>2, <3>2, <3>3, <3>4 DEF OtherDays
  <2>. QED  BY <2>1, <2>2
<1>. QED
  BY <1>3, <1>4, <1>5, <1>6

LEMMA NudgeAround == ASSUME TypeOK, RunsInHand, NudgeInv, Around PROVE NudgeInv'
<1>0. pc' = pc /\ run' = run /\ nudged' = nudged /\ today \in Int /\ Days \subseteq Int
      /\ today' \in {today, today + 1}
  BY DaysAreIntegers DEF Around, TypeOK
<1>1. EndedBefore' /\ NudgesAreAudited'
  BY <1>0 DEF NudgeInv, EndedBefore, NudgesAreAudited
<1>2. Clocked'
  <2>. SUFFICES ASSUME NEW s \in Senders
                PROVE  /\ pc[s] \in {"begun", "allowed"} => run[s].began \in Days /\ run[s].began <= today'
                       /\ pc[s] \in {"running", "sending", "done"} =>
                             /\ run[s].began \in Days /\ run[s].day \in Days
                             /\ run[s].began <= run[s].day /\ run[s].day <= today'
    BY <1>0 DEF Clocked
  <2>1. \A x \in Days : x <= today => x <= today'
    BY <1>0
  <2>2. /\ pc[s] \in {"begun", "allowed"} => run[s].began \in Days /\ run[s].began <= today
        /\ pc[s] \in {"running", "sending", "done"} =>
              /\ run[s].began \in Days /\ run[s].day \in Days
              /\ run[s].began <= run[s].day /\ run[s].day <= today
    BY DEF NudgeInv, Clocked
  <2>. QED  BY <2>1, <2>2
<1>3. ASSUME NEW s \in Senders, SameDay(s)' PROVE SameDay(s)
  <2>1. pc[s] = "allowed" => run[s].began <= today /\ run[s].began \in Int
    BY <1>0 DEF NudgeInv, Clocked
  <2>. QED  BY <1>0, <1>3, <2>1 DEF SameDay
<1>4. OtherDays'
  BY <1>0, <1>3 DEF NudgeInv, OtherDays
<1>. QED
  BY <1>1, <1>2, <1>4 DEF NudgeInv

\* Of two nudges that did not overlap the later one is of another day or ran
\* over midnight, whatever the job and the other nudges do meanwhile.
THEOREM NudgesAlternate == Spec => []NudgesTakeTurns
<1>1. TypeOK /\ RunsInHand /\ NudgeInv /\ [Next]_vars => NudgeInv'
  BY ActsOrAround, NudgeActs, NudgeAround
<1>2. NudgeInv => NudgesTakeTurns
  BY DEF NudgeInv, NudgesTakeTurns, OtherDays, SameDay
<1>. QED
  BY <1>1, <1>2, NudgeInit, TypeHolds, PTL DEF Spec

-----------------------------------------------------------------------------
(* One mail a day: what the mails, the evidence and the runs say together  *)

MadeInHand ==
    \A s \in Senders :
        /\ \A a \in run[s].todo : making[a] = "made"
        /\ run[s].at \in Assigners => making[run[s].at] = "made"

MailsHaveRuns ==
    \A m \in mails :
        /\ pc[m.by] \in {"running", "sending", "done", "failed"}
        /\ run[m.by].began \in Days /\ run[m.by].began <= m.day /\ m.day <= today
        /\ making[m.for] = "made"

MailsAreNoted ==
    \A m \in mails : pc[m.by] \in {"running", "sending"} =>
        \E w \in run[m.by].wrote : w.for = m.for /\ w.to = m.to

Spared(s) == run[s].began = run[s].day => \A w \in run[s].wrote : w.to # run[s].to

PickedOnce == \A s \in Senders : pc[s] = "sending" => Spared(s)

MailsLeaveEvidence ==
    \A m \in mails : pc[m.by] = "done" /\ m.for \in rows =>
        \E r \in reminders : r.for = m.for /\ r.to = m.to /\ r.day = run[m.by].began

EarlierMails == \A s \in Senders : \A m \in mails : m.by \in run[s].before => m.day <= run[s].began

\* A run about to send has found the evidence of the runs that ended before it.
PickedFirst ==
    \A s \in Senders : \A m \in mails :
        /\ pc[s] = "sending" /\ pc[m.by] = "done" /\ m.by \in run[s].before
        /\ run[m.by].began = m.day /\ m.to = run[s].to /\ m.day = run[s].day
        => m.for \notin rows

MailInv ==
    /\ MadeInHand /\ MailsHaveRuns /\ MailsAreNoted /\ PickedOnce /\ MailsLeaveEvidence
    /\ EarlierMails /\ PickedFirst /\ OneMailADay

LEMMA MailInit == Init => MailInv
BY NoneAssumption
   DEF Init, MailInv, MadeInHand, MailsHaveRuns, MailsAreNoted, PickedOnce, MailsLeaveEvidence,
       EarlierMails, PickedFirst, OneMailADay, NoRun

\* A mail is of a sender and names what it was about.
LEMMA MailTypes ==
    ASSUME TypeOK
    PROVE  /\ \A m \in mails : m.by \in Senders /\ m.for \in Assigners /\ m.day \in Days /\ m.day \in Int
           /\ today \in Int /\ Days \subseteq Int
           /\ \A s \in Senders : run[s].before \subseteq Senders /\ run[s].todo \subseteq Assigners
BY DaysAreIntegers DEF TypeOK, Run

LEMMA MailAround == ASSUME TypeOK, MailInv, Around PROVE MailInv'
<1>. USE MailTypes DEF MailInv
<1>0. /\ pc' = pc /\ run' = run /\ mails' = mails /\ today' \in {today, today + 1}
      /\ \A a \in Assigners : making[a] = "made" => making'[a] = "made"
      /\ \A a \in Assigners : making[a] = "made" /\ a \in rows' => a \in rows
      /\ \A r \in reminders : r.for \in rows' => r \in reminders'
  BY DEF Around
<1>1. MadeInHand'
  BY <1>0 DEF MadeInHand
<1>2. MailsHaveRuns'
  <2>. SUFFICES ASSUME NEW m \in mails
                PROVE  /\ pc[m.by] \in {"running", "sending", "done", "failed"}
                       /\ run[m.by].began \in Days /\ run[m.by].began <= m.day /\ m.day <= today'
                       /\ making'[m.for] = "made"
    BY <1>0 DEF MailsHaveRuns
  <2>. QED  BY <1>0 DEF MailsHaveRuns
<1>3. MailsAreNoted' /\ PickedOnce' /\ EarlierMails'
  BY <1>0 DEF MailsAreNoted, PickedOnce, EarlierMails, Spared
<1>4. \A m \in mails : m.for \in rows' => m.for \in rows
  BY <1>0 DEF MailsHaveRuns
<1>5. MailsLeaveEvidence'
  BY <1>0, <1>4 DEF MailsLeaveEvidence
<1>6. PickedFirst' /\ OneMailADay'
  BY <1>0, <1>4 DEF PickedFirst, OneMailADay
<1>. QED
  BY <1>1, <1>2, <1>3, <1>5, <1>6

LEMMA MailActs ==
    ASSUME TypeOK, RunsInHand, AssignInv, NudgeInv, MailInv, NEW s \in Senders, Acts(s)
    PROVE  MailInv'
<1>. USE MailTypes DEF MailInv
<1>0. /\ \A q \in Senders \ {s} : pc'[q] = pc[q] /\ run'[q] = run[q]
      /\ today' = today /\ rows' = rows /\ making' = making
      /\ reminders \subseteq reminders'
      /\ mails \subseteq mails'
  BY DEF Acts, Begins, Allows, Clocks, Works, Picks, Mails, Fails, Finishes, Leaves
<1>1. pc[s] \in {"new", "begun", "allowed", "running", "sending"}
  BY DEF Acts, Begins, Allows, Clocks, Works, Picks, Mails, Fails, Finishes
\* A mail this step adds, and what is known of it.
<1>2. ASSUME NEW m \in mails', m \notin mails
      PROVE  /\ m.by = s /\ m.to = run[s].to /\ m.for = run[s].at /\ m.day = today
             /\ pc[s] = "sending" /\ m.for \in Assigners /\ making[m.for] = "made"
             /\ run[s].began \in Days /\ run[s].began <= run[s].day /\ run[s].day <= today
             /\ run[s].day \in Days
             /\ Mails(s) \/ (Fails(s) /\ Keeps(s))
  <2>1. m = Mail(s) /\ pc[s] = "sending" /\ (Mails(s) \/ (Fails(s) /\ Keeps(s)))
    BY <1>2 DEF Acts, Begins, Allows, Clocks, Works, Picks, Mails, Fails, Finishes, Leaves
  <2>2. run[s].at \in Assigners
    BY <2>1 DEF RunsInHand
  <2>3. /\ run[s].began \in Days /\ run[s].began <= run[s].day /\ run[s].day <= today
        /\ run[s].day \in Days
    BY <2>1 DEF NudgeInv, Clocked
  <2>. QED  BY <2>1, <2>2, <2>3 DEF Mail, MadeInHand
\* Its run keeps what the mails it has sent rely on.
<1>3. ASSUME NEW m \in mails, m.by = s
      PROVE  /\ pc[s] \in {"running", "sending"} /\ Keeps(s)
             /\ pc'[s] \in {"running", "sending", "done", "failed"}
  <2>1. pc[s] \in {"running", "sending"}
    BY <1>1, <1>3 DEF MailsHaveRuns
  <2>. QED  BY <1>3, <2>1 DEF Acts, Begins, Allows, Clocks, Works, Picks, Mails, Fails, Finishes
<1>4. MadeInHand'
  <2>1. \A a \in rows : making[a] = "made"
    BY DEF AssignInv, TypeOK
  <2>2. /\ run'[s].todo \subseteq run[s].todo \cup rows
        /\ run'[s].at \in run[s].todo \cup {run[s].at, None}
    BY DEF Acts, Begins, Allows, Clocks, Works, Picks, Mails, Fails, Finishes
  <2>3. /\ \A a \in run'[s].todo : making[a] = "made"
        /\ run'[s].at \in Assigners => making[run'[s].at] = "made"
    BY <2>1, <2>2, NoneAssumption DEF MadeInHand
  <2>. QED  BY <1>0, <2>3 DEF MadeInHand
<1>5. MailsHaveRuns'
  <2>. SUFFICES ASSUME NEW m \in mails'
                PROVE  /\ pc'[m.by] \in {"running", "sending", "done", "failed"}
                       /\ run'[m.by].began \in Days /\ run'[m.by].began <= m.day /\ m.day <= today
                       /\ making[m.for] = "made"
    BY <1>0 DEF MailsHaveRuns
  <2>1. CASE m \in mails /\ m.by # s
    BY <1>0, <2>1 DEF MailsHaveRuns
  <2>2. CASE m \in mails /\ m.by = s
    BY <1>3, <2>2 DEF MailsHaveRuns, Keeps
  <2>3. CASE m \notin mails
    <3>1. pc'[s] \in {"running", "failed"} /\ run'[s].began = run[s].began
      BY <1>2, <2>3 DEF Mails, Fails, Keeps
    <3>. QED  BY <1>2, <2>3, <3>1
  <2>. QED  BY <2>1, <2>2, <2>3
<1>6. MailsAreNoted'
  <2>. SUFFICES ASSUME NEW m \in mails', pc'[m.by] \in {"running", "sending"}
                PROVE  \E w \in run'[m.by].wrote : w.for = m.for /\ w.to = m.to
    BY DEF MailsAreNoted
  <2>1. CASE m \in mails /\ m.by # s
    BY <1>0, <2>1 DEF MailsAreNoted
  <2>2. CASE m \in mails /\ m.by = s
    <3>1. run[s].wrote \subseteq run'[s].wrote
      BY <1>3, <2>2 DEF Acts, Begins, Allows, Clocks, Works, Picks, Mails, Fails, Finishes
    <3>. QED  BY <1>3, <2>2, <3>1 DEF MailsAreNoted
  <2>3. CASE m \notin mails
    BY <1>2, <2>3 DEF Mails, Fails
  <2>. QED  BY <2>1, <2>2, <2>3
<1>7. PickedOnce'
  <2>1. ASSUME pc'[s] = "sending" PROVE Spared(s)'
    <3>1. Picks(s)
      BY <1>1, <2>1 DEF Acts, Begins, Allows, Clocks, Works, Picks, Mails, Fails, Finishes
    <3>. QED  BY <3>1 DEF Picks, Keeps, AlreadyReminded, Spared
  <2>. QED  BY <1>0, <2>1 DEF PickedOnce, Spared
<1>8. MailsLeaveEvidence'
  <2>. SUFFICES ASSUME NEW m \in mails', pc'[m.by] = "done", m.for \in rows
                PROVE  \E r \in reminders' : r.for = m.for /\ r.to = m.to /\ r.day = run'[m.by].began
    BY <1>0 DEF MailsLeaveEvidence
  <2>1. CASE m \in mails /\ m.by # s
    BY <1>0, <2>1 DEF MailsLeaveEvidence
  <2>2. CASE m \in mails /\ m.by = s
    <3>1. Finishes(s)
      BY <2>2 DEF Acts, Begins, Allows, Clocks, Works, Picks, Mails, Fails, Finishes
    <3>2. PICK w \in run[s].wrote : w.for = m.for /\ w.to = m.to
      BY <1>3, <2>2 DEF MailsAreNoted
    <3>3. [for |-> w.for, to |-> w.to, day |-> run[s].began] \in reminders'
      BY <3>1 DEF Finishes
    <3>. QED  BY <1>3, <2>2, <3>2, <3>3 DEF Keeps
  <2>3. CASE m \notin mails
    BY <1>2, <2>3 DEF Mails, Fails
  <2>. QED  BY <2>1, <2>2, <2>3
<1>9. EarlierMails'
  <2>. SUFFICES ASSUME NEW x \in Senders, NEW m \in mails', m.by \in run'[x].before
                PROVE  m.day <= run'[x].began
    BY DEF EarlierMails
  <2>1. m \in mails
    <3>1. ASSUME m \notin mails PROVE FALSE
      <4>1. s \in run'[x].before /\ pc'[s] \in {"running", "failed"} /\ pc[s] = "sending"
        BY <1>2, <3>1 DEF Mails, Fails
      <4>2. run'[x].before = run[x].before
        BY <1>0, <1>2, <3>1 DEF Keeps, Mails
      <4>. QED  BY <4>1, <4>2 DEF NudgeInv, EndedBefore
    <3>. QED  BY <3>1
  <2>2. CASE x # s
    BY <1>0, <2>1, <2>2 DEF EarlierMails
  <2>3. CASE x = s
    <3>1. \/ run'[s].began = today
          \/ run'[s].began = run[s].began /\ run'[s].before = run[s].before
      BY <2>3 DEF Acts, Begins, Allows, Clocks, Works, Picks, Mails, Fails, Finishes, Keeps
    <3>2. m.day <= today
      BY <2>1 DEF MailsHaveRuns
    <3>. QED  BY <2>1, <2>3, <3>1, <3>2 DEF EarlierMails
  <2>. QED  BY <2>2, <2>3
<1>10. PickedFirst'
  <2>. SUFFICES ASSUME NEW x \in Senders, NEW m \in mails',
                       pc'[x] = "sending", pc'[m.by] = "done", m.by \in run'[x].before,
                       run'[m.by].began = m.day,
                       m.to = run'[x].to, m.day = run'[x].day, m.for \in rows
                PROVE  FALSE
    BY <1>0 DEF PickedFirst
  <2>1. m \in mails
    BY <1>2 DEF Mails, Fails
  <2>2. CASE x = s
    <3>1. Picks(s)
      BY <1>1, <2>2 DEF Acts, Begins, Allows, Clocks, Works, Picks, Mails, Fails, Finishes
    <3>2. m.by # s /\ pc[m.by] = "done" /\ run[m.by].began = m.day
      BY <1>0, <2>1, <2>2
    <3>3. PICK r \in reminders : r.for = m.for /\ r.to = m.to /\ r.day = m.day
      BY <2>1, <3>2 DEF MailsLeaveEvidence
    <3>. QED  BY <2>2, <3>1, <3>3 DEF Picks, Keeps, AlreadyReminded
  <2>3. CASE x # s
    <3>1. m.by \in run[x].before /\ m.by # s
      BY <1>0, <1>1, <2>3 DEF NudgeInv, EndedBefore
    <3>. QED  BY <1>0, <2>1, <2>3, <3>1 DEF PickedFirst
  <2>. QED  BY <2>1, <2>2, <2>3
<1>11. ASSUME NEW m \in mails', NEW n \in mails', m.to = n.to, m.day = n.day, m # n, m.by = n.by
       PROVE  run'[m.by].began # m.day
  <2>1. CASE m \in mails /\ n \in mails
    <3>1. run'[m.by].began = run[m.by].began
      BY <1>0, <1>3, <2>1 DEF Keeps
    <3>. QED  BY <1>11, <2>1, <3>1 DEF OneMailADay
  <2>2. ASSUME NEW o \in mails, NEW p \in mails', p \notin mails,
               o.to = p.to, o.day = p.day, o.by = p.by
        PROVE  run'[p.by].began # p.day
    <3>1. p.by = s /\ p.to = run[s].to /\ p.day = today /\ pc[s] = "sending"
          /\ run'[s].began = run[s].began
      BY <1>2, <2>2 DEF Mails, Fails, Keeps
    <3>2. PICK w \in run[s].wrote : w.to = run[s].to
      BY <2>2, <3>1 DEF MailsAreNoted
    <3>3. run[s].began # run[s].day
      BY <3>1, <3>2 DEF PickedOnce, Spared
    <3>. QED  BY <1>2, <2>2, <3>1, <3>3
  <2>3. CASE m \notin mails /\ n \notin mails
    <3>1. m = Mail(s) /\ n = Mail(s)
      BY <2>3 DEF Acts, Begins, Allows, Clocks, Works, Picks, Mails, Fails, Finishes, Leaves
    <3>. QED  BY <1>11, <3>1
  <2>. QED  BY <1>11, <2>1, <2>2, <2>3
<1>12. ASSUME NEW m \in mails', NEW n \in mails', m.to = n.to, m.day = n.day, m # n,
              m.by \in run'[n.by].before
       PROVE  \/ pc'[m.by] = "failed"
              \/ run'[m.by].began # m.day
              \/ m.for \notin rows
  <2>1. run'[n.by].before = run[n.by].before
    BY <1>0, <1>2, <1>3 DEF Keeps, Mails
  <2>2. m.by # s /\ m \in mails
    BY <1>1, <1>2, <1>12, <2>1 DEF NudgeInv, EndedBefore
  <2>3. CASE n \in mails
    BY <1>0, <1>12, <2>1, <2>2, <2>3 DEF OneMailADay
  <2>4. CASE n \notin mails
    <3>1. n.by = s /\ n.to = run[s].to /\ n.day = today /\ pc[s] = "sending"
      BY <1>2, <2>4
    <3>2. m.day <= run[s].began
      BY <1>12, <2>1, <2>2, <3>1 DEF EarlierMails
    <3>3. run[s].day = today
      BY <1>2, <1>12, <2>4, <3>1, <3>2
    <3>4. pc[m.by] \in {"done", "failed"}
      BY <1>12, <2>1, <3>1 DEF NudgeInv, EndedBefore
    <3>. QED  BY <1>0, <1>12, <2>1, <2>2, <3>1, <3>3, <3>4 DEF PickedFirst
  <2>. QED  BY <2>3, <2>4
<1>13. OneMailADay'
  BY <1>0, <1>11, <1>12 DEF OneMailADay
<1>. QED
  BY <1>4, <1>5, <1>6, <1>7, <1>8, <1>9, <1>10, <1>13

\* A learner gets two reminders on one day only from runs that overlapped, after
\* a failure, over midnight or about an assignment since removed, however many
\* runs, requests and days there are.
THEOREM OnlySoManyMails == Spec => []OneMailADay
<1>1. /\ TypeOK /\ RunsInHand /\ AssignInv /\ NudgeInv /\ MailInv
      /\ [Next]_vars
      => NudgeInv' /\ MailInv'
  BY ActsOrAround, NudgeActs, NudgeAround, MailActs, MailAround
<1>2. MailInv => OneMailADay
  BY DEF MailInv
<1>. QED
  BY <1>1, <1>2, NudgeInit, MailInit, AssignInit, AssignStep, TypeHolds, PTL DEF Spec

-----------------------------------------------------------------------------
(* Nobody is missed: where a run is with everybody it owes a mail          *)

Mailed(s, l) ==
    \E m \in mails :
        /\ m.to = l
        /\ m.by = s \/ (pc[m.by] = "done" /\ run[m.by].began = run[s].day)

Served(s, l) == Mailed(s, l) \/ l \in run[s].who \/ (pc[s] = "sending" /\ run[s].to = l)

Awaited(s, l) == \E a \in run[s].todo : l \in Audience(terms[a].target)

\* Somebody in the team may leave it before its assignment is resolved, and is
\* then owed the mail for an assignment of their own, which cannot leave them.
Cared(s, l) ==
    /\ Served(s, l) \/ Awaited(s, l)
    /\ \A a \in run[s].asked \ run[s].todo : terms[a].target = l => Served(s, l)

EvidenceHasMail ==
    \A r \in reminders : \E m \in mails :
        m.to = r.to /\ pc[m.by] = "done" /\ run[m.by].began = r.day

NotesHaveMail(s) == \A w \in run[s].wrote : \E m \in mails : m.to = w.to /\ m.by = s

SteadyIsOutstanding(s) ==
    /\ pc[s] \in Underway => steady[s] \subseteq Outstanding(run[s].asked)
    /\ pc[s] \notin Underway => steady[s] = {}

AskedAreMade(s) ==
    /\ run[s].todo \subseteq run[s].asked
    /\ \A a \in run[s].asked : making[a] = "made"

Diligent(s) ==
    /\ NotesHaveMail(s) /\ SteadyIsOutstanding(s) /\ AskedAreMade(s)
    /\ pc[s] \in Underway => \A l \in steady[s] : Cared(s, l)

DiligenceInv == EvidenceHasMail /\ \A s \in Senders : Diligent(s)

LEMMA DiligenceInit == Init => DiligenceInv
BY DEF Init, DiligenceInv, EvidenceHasMail, Diligent, NotesHaveMail, SteadyIsOutstanding,
       AskedAreMade, NoRun, Underway

\* The requests that make assignments, but for what they send and record.
Settles ==
    /\ UNCHANGED <<pc, run, mails, reminders, steady, world>>
    /\ rows \subseteq rows'
    /\ \A a \in Assigners : making[a] = "made" => making'[a] = "made" /\ terms'[a] = terms[a]

\* A change of the world around: everybody it touches is looked at again.
Watches ==
    /\ UNCHANGED <<pc, run, mails, making, terms>>
    /\ reminders' \subseteq reminders
    /\ Watch

LEMMA AroundShape ==
    ASSUME TypeOK, Changing \/ \E a \in Assigners : Assigning(a)
    PROVE  Settles \/ Watches
<1>. USE DEF Settles, Watches, Untouched, Makes, world, sending, assigning, Changes, Drop, TypeOK
<1>1. ASSUME NEW a \in Assigners, Assigning(a) PROVE Settles \/ Watches
  <2>1. ASSUME NEW target \in Targets, NEW due \in Dues \cup {None}, BeginAssign(a, target, due)
        PROVE  Settles
    BY <2>1 DEF BeginAssign
  <2>2. CASE InsertAssignment(a)
    BY <2>2 DEF InsertAssignment, Forgets
  <2>3. ASSUME NEW l \in Learners, TellLearner(a, l) PROVE Settles
    BY <2>3 DEF TellLearner
  <2>4. CASE FinishAssign(a)
    BY <2>4 DEF FinishAssign
  <2>5. CASE AbandonAssign(a)
    BY <2>5 DEF AbandonAssign, Forgets
  <2>6. CASE Unassign(a)
    BY <2>6 DEF Unassign
  <2>. QED  BY <1>1, <2>1, <2>2, <2>3, <2>4, <2>5, <2>6 DEF Assigning
<1>2. CASE Changing
  BY <1>2 DEF Changing, Complete, Join, Leave, Enable, Disable, Publish, Unpublish, DeleteModule, Midnight
<1>. QED
  BY <1>1, <1>2

LEMMA DiligenceSettles == ASSUME TypeOK, DiligenceInv, Settles PROVE DiligenceInv'
<1>0. /\ pc' = pc /\ run' = run /\ mails' = mails /\ reminders' = reminders /\ steady' = steady
      /\ status' = status /\ team' = team /\ enabled' = enabled /\ finished' = finished
      /\ rows \subseteq rows'
      /\ \A a \in Assigners : making[a] = "made" => making'[a] = "made" /\ terms'[a] = terms[a]
  BY DEF Settles, world
<1>1. ASSUME NEW s \in Senders PROVE Diligent(s)'
  <2>1. run[s].todo \subseteq run[s].asked /\ run[s].asked \subseteq Assigners
    BY DEF DiligenceInv, Diligent, AskedAreMade, TypeOK, Run
  <2>2. AskedAreMade(s)' /\ NotesHaveMail(s)'
    BY <1>0, <2>1 DEF DiligenceInv, Diligent, AskedAreMade, NotesHaveMail
  <2>3. \A a \in run[s].asked : /\ terms'[a] = terms[a]
                               /\ Audience(terms[a].target)' = Audience(terms[a].target)
    BY <1>0, <2>1 DEF DiligenceInv, Diligent, AskedAreMade, Audience
  <2>4. Outstanding(run[s].asked) \subseteq Outstanding(run[s].asked)'
    BY <1>0, <2>3 DEF Outstanding
  <2>5. SteadyIsOutstanding(s)'
    BY <1>0, <2>4 DEF DiligenceInv, Diligent, SteadyIsOutstanding
  <2>6. ASSUME NEW l \in steady[s], Cared(s, l) PROVE Cared(s, l)'
    <3>1. Served(s, l)' <=> Served(s, l)
      BY <1>0 DEF Served, Mailed
    <3>2. Awaited(s, l) => Awaited(s, l)'
      BY <1>0, <2>1, <2>3 DEF Awaited
    <3>. QED  BY <1>0, <2>3, <2>6, <3>1, <3>2 DEF Cared
  <2>. QED  BY <1>0, <2>2, <2>5, <2>6 DEF DiligenceInv, Diligent
<1>2. EvidenceHasMail'
  BY <1>0 DEF DiligenceInv, EvidenceHasMail
<1>. QED
  BY <1>1, <1>2 DEF DiligenceInv

LEMMA DiligenceWatches == ASSUME TypeOK, DiligenceInv, Watches PROVE DiligenceInv'
<1>0. /\ pc' = pc /\ run' = run /\ mails' = mails /\ terms' = terms /\ making' = making
      /\ reminders' \subseteq reminders
      /\ \A s \in Senders : steady'[s] = IF pc[s] \in Underway
                                      THEN steady[s] \cap Outstanding(run[s].asked)' ELSE {}
  BY DEF Watches, Watch
<1>1. ASSUME NEW s \in Senders PROVE Diligent(s)'
  <2>1. AskedAreMade(s)' /\ NotesHaveMail(s)'
    BY <1>0 DEF DiligenceInv, Diligent, AskedAreMade, NotesHaveMail
  <2>2. SteadyIsOutstanding(s)'
    BY <1>0 DEF SteadyIsOutstanding
  <2>3. ASSUME NEW l \in steady[s], pc[s] \in Underway, l \in Outstanding(run[s].asked)',
               Cared(s, l)
        PROVE  Cared(s, l)'
    <3>1. Served(s, l)' <=> Served(s, l)
      BY <1>0 DEF Served, Mailed
    <3>2. PICK c \in run[s].asked : l \in Audience(terms[c].target)'
      BY <1>0, <2>3 DEF Outstanding
    <3>3. ASSUME NEW a \in run[s].todo, l \in Audience(terms[a].target),
                 l \notin Audience(terms[a].target)'
          PROVE  Served(s, l) \/ Awaited(s, l)'
      <4>1. terms[c].target = l
        BY <1>0, <3>2, <3>3 DEF Audience
      <4>2. CASE c \in run[s].todo
        BY <1>0, <3>2, <4>2 DEF Awaited
      <4>3. CASE c \notin run[s].todo
        BY <2>3, <4>1, <4>3 DEF Cared
      <4>. QED  BY <4>2, <4>3
    <3>4. Served(s, l)' \/ Awaited(s, l)'
      BY <1>0, <2>3, <3>1, <3>3 DEF Cared, Awaited
    <3>. QED  BY <1>0, <2>3, <3>1, <3>4 DEF Cared
  <2>. QED  BY <1>0, <2>1, <2>2, <2>3 DEF DiligenceInv, Diligent
<1>2. EvidenceHasMail'
  BY <1>0 DEF DiligenceInv, EvidenceHasMail
<1>. QED
  BY <1>1, <1>2 DEF DiligenceInv

SenderSteps(s) ==
    \/ \E op \in {"job", "nudge"} : Begin(s, op)
    \/ AllowNudge(s) \/ ReadClock(s) \/ (\E a \in Assigners : Resolve(s, a))
    \/ (\E l \in Learners : Consider(s, l)) \/ Send(s) \/ Fail(s) \/ FinishRun(s)

\* What a step of a sender leaves as it is.
Elsewhere(s) ==
    /\ \A q \in Senders \ {s} : pc'[q] = pc[q] /\ run'[q] = run[q] /\ steady'[q] = steady[q]
    /\ UNCHANGED <<status, team, enabled, finished, making, terms, rows>>
    /\ mails \subseteq mails' /\ reminders \subseteq reminders'
    /\ pc[s] \notin {"done", "failed"}

LEMMA SenderElsewhere ==
    ASSUME TypeOK, RunsInHand, NEW s \in Senders, SenderSteps(s)
    PROVE  Elsewhere(s)
<1>1. /\ \A q \in Senders \ {s} : pc'[q] = pc[q] /\ run'[q] = run[q]
      /\ UNCHANGED <<status, team, enabled, finished, making, terms, rows>>
      /\ mails \subseteq mails' /\ reminders \subseteq reminders'
      /\ pc[s] \notin {"done", "failed"}
  BY SenderSends, OwnRun DEF SenderSteps, Sending, world, assigning
<1>2. steady' = steady \/ \E x : steady' = [steady EXCEPT ![s] = x]
  BY DEF SenderSteps, Begin, AllowNudge, ReadClock, Resolve, Consider, Send, Fail, FinishRun, Sends
<1>3. \A q \in Senders \ {s} : steady'[q] = steady[q]
  BY <1>2 DEF TypeOK
<1>. QED
  BY <1>1, <1>3 DEF Elsewhere

\* A run that has nothing of this in hand after the step.
Idles(s) ==
    /\ pc'[s] \notin Underway /\ steady'[s] = {}
    /\ \/ run'[s] = run[s]
       \/ run'[s].wrote = {} /\ run'[s].todo = {} /\ run'[s].asked = {}

LEMMA IdleIsDiligent ==
    ASSUME TypeOK, DiligenceInv, NEW s \in Senders, Elsewhere(s), Idles(s)
    PROVE  Diligent(s)'
<1>1. NotesHaveMail(s)'
  BY DEF Idles, Elsewhere, DiligenceInv, Diligent, NotesHaveMail
<1>2. SteadyIsOutstanding(s)' /\ AskedAreMade(s)'
  BY DEF Idles, Elsewhere, DiligenceInv, Diligent, SteadyIsOutstanding, AskedAreMade
<1>. QED
  BY <1>1, <1>2 DEF Diligent, Idles

LEMMA OthersAreDiligent ==
    ASSUME TypeOK, DiligenceInv, NEW s \in Senders, Elsewhere(s), NEW q \in Senders \ {s}
    PROVE  Diligent(q)'
<1>. USE DEF Elsewhere
<1>1. NotesHaveMail(q)' /\ AskedAreMade(q)'
  BY DEF DiligenceInv, Diligent, NotesHaveMail, AskedAreMade
<1>2. SteadyIsOutstanding(q)'
  BY DEF DiligenceInv, Diligent, SteadyIsOutstanding, Outstanding, Audience
<1>3. ASSUME NEW l, Served(q, l) PROVE Served(q, l)'
  <2>1. \A m \in mails : m.by \in Senders
    BY MailTypes
  <2>2. ASSUME NEW m \in mails, m.by = q \/ (pc[m.by] = "done" /\ run[m.by].began = run[q].day)
        PROVE  m.by = q \/ (pc'[m.by] = "done" /\ run'[m.by].began = run'[q].day)
    BY <2>1, <2>2
  <2>. QED  BY <1>3, <2>2 DEF Served, Mailed
<1>4. ASSUME NEW l, Awaited(q, l) PROVE Awaited(q, l)'
  BY <1>4 DEF Awaited, Audience
<1>5. \A l \in steady[q] : Cared(q, l) => Cared(q, l)'
  BY <1>3, <1>4 DEF Cared
<1>. QED
  BY <1>1, <1>2, <1>5 DEF DiligenceInv, Diligent

\* What a mailed learner of an acting run is after its step.
LEMMA ServedStays ==
    ASSUME TypeOK, NEW s \in Senders, Elsewhere(s), run'[s].day = run[s].day,
           NEW l, Mailed(s, l)
    PROVE  Mailed(s, l)'
<1>1. PICK m \in mails :
          m.to = l /\ (m.by = s \/ (pc[m.by] = "done" /\ run[m.by].began = run[s].day))
  BY DEF Mailed
<1>2. m \in mails' /\ m.by \in Senders
  BY <1>1, MailTypes DEF Elsewhere
<1>3. pc[m.by] = "done" => pc'[m.by] = "done" /\ run'[m.by] = run[m.by]
  BY <1>2 DEF Elsewhere
<1>. QED
  BY <1>1, <1>2, <1>3 DEF Mailed

LEMMA OwnIsDiligent ==
    ASSUME TypeOK, RunsInHand, AssignInv, NudgeInv, DiligenceInv, NEW s \in Senders, SenderSteps(s)
    PROVE  Diligent(s)'
<1>. USE DEF SenderPlaces
<1>0. Elsewhere(s)
  BY SenderElsewhere
<1>00. /\ run[s] \in Run /\ NoRun \in Run /\ Closed(s) \in Run /\ Diligent(s)
       /\ pc[s] \notin Underway => steady[s] = {}
       /\ \A x : steady' = [steady EXCEPT ![s] = x] => steady'[s] = x
  BY NothingRuns, ClosedIsRun DEF TypeOK, DiligenceInv, Diligent, SteadyIsOutstanding
<1>01. /\ Closed(s).wrote = {} /\ Closed(s).todo = {} /\ Closed(s).asked = {}
       /\ NoRun.wrote = {} /\ NoRun.todo = {} /\ NoRun.asked = {}
  BY DEF Closed, NoRun
<1>1. ASSUME NEW op \in {"job", "nudge"}, Begin(s, op) PROVE Idles(s)
  <2>1. PICK r \in Run : Runs(s, "begun", r) /\ r.wrote = {} /\ r.todo = {} /\ r.asked = {}
    BY <1>1, BeginRuns
  <2>2. pc'[s] = "begun" /\ run'[s] = r
    BY <2>1, RunsAt
  <2>3. pc[s] = "new" /\ steady' = steady
    BY <1>1 DEF Begin, Sends
  <2>. QED  BY <1>00, <2>1, <2>2, <2>3 DEF Idles, Underway
<1>2. ASSUME AllowNudge(s) PROVE Idles(s)
  <2>1. pc[s] = "begun" /\ steady' = steady /\ (Runs(s, "failed", NoRun) \/ Runs(s, "allowed", run[s]))
    BY <1>2 DEF AllowNudge, Sends
  <2>2. (pc'[s] = "failed" /\ run'[s] = NoRun) \/ (pc'[s] = "allowed" /\ run'[s] = run[s])
    BY <1>00, <2>1, RunsAt
  <2>. QED  BY <1>00, <1>01, <2>1, <2>2 DEF Idles, Underway
<1>3. ASSUME ReadClock(s) PROVE Diligent(s)'
  <2>. DEFINE r == [run[s] EXCEPT !.day = today, !.asked = Eligible(s), !.todo = Eligible(s)]
  <2>1. r.asked = Eligible(s) /\ r.todo = Eligible(s) /\ r.wrote = run[s].wrote
    BY <1>00 DEF Run
  <2>2. pc'[s] = "running" /\ run'[s] = r
    BY <1>3, ReadClockRuns, RunsAt
  <2>3. steady'[s] = Outstanding(Eligible(s))
    BY <1>00, <1>3 DEF ReadClock
  <2>. HIDE DEF r
  <2>4. NotesHaveMail(s)'
    BY <1>0, <1>00, <2>1, <2>2 DEF Elsewhere, Diligent, NotesHaveMail
  <2>5. \A a \in Eligible(s) : a \in rows /\ making[a] = "made"
    BY DEF Eligible, AssignInv, TypeOK
  <2>6. AskedAreMade(s)'
    BY <1>0, <2>1, <2>2, <2>5 DEF Elsewhere, AskedAreMade
  <2>7. SteadyIsOutstanding(s)'
    BY <1>0, <2>1, <2>2, <2>3 DEF Elsewhere, SteadyIsOutstanding, Outstanding, Audience, Underway
  <2>8. ASSUME NEW l \in steady'[s] PROVE Cared(s, l)'
    <3>1. \E a \in Eligible(s) : l \in Audience(terms[a].target)
      BY <2>3, <2>8 DEF Outstanding
    <3>2. Awaited(s, l)'
      BY <1>0, <2>1, <2>2, <3>1 DEF Elsewhere, Awaited, Audience
    <3>. QED  BY <2>1, <2>2, <3>2 DEF Cared
  <2>. QED  BY <2>4, <2>6, <2>7, <2>8 DEF Diligent
\* The learners in hand are enabled, unfinished, and the material is published.
<1>30. ASSUME NEW l \in steady[s], pc[s] \in Underway
       PROVE  l \in enabled /\ l \notin finished /\ status = "published" /\ l \in Learners /\ Cared(s, l)
  <2>1. l \in Outstanding(run[s].asked) /\ Cared(s, l)
    BY <1>00, <1>30 DEF Diligent, SteadyIsOutstanding
  <2>4. status = "published"
    BY <2>1 DEF Outstanding
  <2>5. l \notin finished
    BY <2>1, <2>4 DEF Outstanding
  <2>2. \E a : l \in Audience(terms[a].target)
    BY <2>1, <2>4 DEF Outstanding
  <2>3. l \in enabled /\ l \in Learners
    BY <2>2 DEF Audience, TypeOK
  <2>. QED  BY <2>1, <2>3, <2>4, <2>5
<1>4. ASSUME NEW a \in Assigners, Resolve(s, a) PROVE Diligent(s)'
  <2>. DEFINE rest == run[s].todo \ {a}
  <2>1. pc[s] = "running" /\ run[s].who = {} /\ a \in run[s].todo /\ steady' = steady
    BY <1>4 DEF Resolve, Sends
  <2>2. /\ pc'[s] = "running" /\ run'[s].todo = rest /\ run'[s].asked = run[s].asked
        /\ run'[s].wrote = run[s].wrote /\ run'[s].day = run[s].day
        /\ status = "published" => run'[s].who = Audience(terms[a].target)
    <3>1. PICK at \in {a, None}, who \in SUBSET Learners :
            LET r == [run[s] EXCEPT !.todo = @ \ {a}, !.at = at, !.who = who] IN
            /\ r \in Run /\ Runs(s, "running", r)
            /\ status = "published" => who = Audience(terms[a].target)
      <4>1. ASSUME FindsModule(s),
                   Runs(s, "running", [run[s] EXCEPT !.todo = rest, !.at = a,
                                                     !.who = Audience(terms[a].target)])
            PROVE  \E at \in {a, None}, who \in SUBSET Learners :
                      LET r == [run[s] EXCEPT !.todo = @ \ {a}, !.at = at, !.who = who] IN
                      /\ r \in Run /\ Runs(s, "running", r)
                      /\ status = "published" => who = Audience(terms[a].target)
        <5>1. Audience(terms[a].target) \in SUBSET Learners
          BY DEF TypeOK, Audience
        <5>2. [run[s] EXCEPT !.todo = @ \ {a}, !.at = a, !.who = Audience(terms[a].target)] \in Run
          <6>1. [run[s] EXCEPT !.todo = @ \ {a}] \in Run
            BY <1>00 DEF Run
          <6>2. [[run[s] EXCEPT !.todo = @ \ {a}] EXCEPT !.at = a] \in Run
            BY <6>1 DEF Run
          <6>. QED  BY <5>1, <6>2 DEF Run
        <5>. QED  BY <4>1, <5>1, <5>2
      <4>2. CASE FindsNone(s)
        BY <4>2, ResolveRuns, <1>4 DEF FindsNone
      <4>. QED  BY <1>4, <4>1, <4>2 DEF Resolve
    <3>2. pc'[s] = "running"
          /\ run'[s] = [run[s] EXCEPT !.todo = @ \ {a}, !.at = at, !.who = who]
      BY <3>1, RunsAt
    <3>. QED  BY <1>00, <3>1, <3>2 DEF Run
  <2>3. NotesHaveMail(s)' /\ AskedAreMade(s)'
    BY <1>0, <1>00, <2>2 DEF Elsewhere, Diligent, NotesHaveMail, AskedAreMade
  <2>4. SteadyIsOutstanding(s)'
    BY <1>0, <1>00, <2>1, <2>2
       DEF Elsewhere, Diligent, SteadyIsOutstanding, Outstanding, Audience, Underway
  <2>5. ASSUME NEW l \in steady[s] PROVE Cared(s, l)'
    <3>1. l \in enabled /\ status = "published" /\ l \in Learners /\ Cared(s, l)
      BY <1>30, <2>1 DEF Underway
    <3>2. Served(s, l) => Served(s, l)'
      BY <1>0, <2>1, <2>2, ServedStays DEF Served
    <3>3. l \in Audience(terms[a].target) => Served(s, l)'
      BY <2>2, <3>1 DEF Served
    <3>4. terms[a].target = l => l \in Audience(terms[a].target)
      BY <3>1, TeamAssumption DEF Audience
    <3>5. Awaited(s, l) => Served(s, l)' \/ Awaited(s, l)'
      BY <1>0, <2>2, <3>3 DEF Elsewhere, Awaited, Audience
    <3>. QED  BY <1>0, <2>2, <3>1, <3>2, <3>3, <3>4, <3>5 DEF Elsewhere, Cared
  <2>. QED  BY <2>1, <2>3, <2>4, <2>5 DEF Diligent
<1>5. ASSUME NEW l \in Learners, Consider(s, l) PROVE Diligent(s)'
  <2>1. pc[s] = "running" /\ steady' = steady /\ l \in run[s].who
    BY <1>5 DEF Consider, Sends
  <2>2. /\ \/ /\ pc'[s] = "running"
              /\ l \in finished \/ AlreadyReminded(s, l)
           \/ pc'[s] = "sending" /\ run'[s].to = l
        /\ run'[s].todo = run[s].todo /\ run'[s].asked = run[s].asked
        /\ run'[s].wrote = run[s].wrote /\ run'[s].day = run[s].day
        /\ run'[s].who = run[s].who \ {l}
    <3>1. CASE l \in finished \/ AlreadyReminded(s, l)
      <4>1. [run[s] EXCEPT !.who = @ \ {l}] \in Run
        BY <1>00 DEF Run
      <4>2. pc'[s] = "running" /\ run'[s] = [run[s] EXCEPT !.who = @ \ {l}]
        BY <1>5, <3>1, <4>1, RunsAt DEF Consider
      <4>. QED  BY <1>00, <3>1, <4>2 DEF Run
    <3>2. CASE ~(l \in finished \/ AlreadyReminded(s, l))
      <4>1. [[run[s] EXCEPT !.who = @ \ {l}] EXCEPT !.to = l] \in Run
        <5>1. [run[s] EXCEPT !.who = @ \ {l}] \in Run
          BY <1>00 DEF Run
        <5>. QED  BY <5>1 DEF Run
      <4>2. pc'[s] = "sending" /\ run'[s] = [run[s] EXCEPT !.who = @ \ {l}, !.to = l]
        BY <1>5, <3>2, <4>1, RunsAt DEF Consider
      <4>. QED  BY <1>00, <4>2 DEF Run
    <3>. QED  BY <3>1, <3>2
  <2>3. NotesHaveMail(s)' /\ AskedAreMade(s)'
    BY <1>0, <1>00, <2>2 DEF Elsewhere, Diligent, NotesHaveMail, AskedAreMade
  <2>4. SteadyIsOutstanding(s)'
    BY <1>0, <1>00, <2>1, <2>2
       DEF Elsewhere, Diligent, SteadyIsOutstanding, Outstanding, Audience, Underway
  <2>5. AlreadyReminded(s, l) => Mailed(s, l)
    BY <1>00 DEF AlreadyReminded, DiligenceInv, EvidenceHasMail, Diligent, NotesHaveMail, Mailed
  <2>6. ASSUME NEW k \in steady[s] PROVE Cared(s, k)'
    <3>1. k \notin finished /\ Cared(s, k)
      BY <1>30, <2>1, <2>6 DEF Underway
    <3>2. Mailed(s, k) => Mailed(s, k)'
      BY <1>0, <2>2, ServedStays
    <3>3. Served(s, k) => Served(s, k)'
      BY <2>1, <2>2, <2>5, <3>1, <3>2 DEF Served
    <3>4. Awaited(s, k) => Awaited(s, k)'
      BY <1>0, <2>2 DEF Elsewhere, Awaited, Audience
    <3>. QED  BY <1>0, <2>2, <3>1, <3>3, <3>4 DEF Elsewhere, Cared
  <2>. QED  BY <2>1, <2>3, <2>4, <2>6 DEF Diligent
<1>6. ASSUME Send(s), ~Idles(s) PROVE Diligent(s)'
  <2>1. pc[s] = "sending" /\ mails' = mails \cup {Mail(s)}
    BY <1>6 DEF Send
  <2>2. run[s].at \in rows /\ steady' = steady
    <3>1. ASSUME run[s].at \notin rows PROVE FALSE
      <4>1. pc'[s] = "failed" /\ run'[s] = Closed(s)
        BY <1>00, <1>6, <3>1, RunsAt DEF Send
      <4>2. steady'[s] = {}
        BY <1>00, <1>6, <3>1 DEF Send
      <4>. QED  BY <1>01, <1>6, <4>1, <4>2 DEF Idles, Underway
    <3>. QED  BY <1>6, <3>1 DEF Send
  <2>3. /\ pc'[s] = "running" /\ run'[s].todo = run[s].todo /\ run'[s].asked = run[s].asked
        /\ run'[s].wrote = run[s].wrote \cup {[for |-> run[s].at, to |-> run[s].to]}
        /\ run'[s].day = run[s].day /\ run'[s].who = run[s].who
    <3>. DEFINE r == [run[s] EXCEPT !.to = None,
                                    !.wrote = @ \cup {[for |-> run[s].at, to |-> run[s].to]}]
    <3>1. Runs(s, "running", r)
      BY <1>6, <2>2 DEF Send
    <3>2. pc'[s] = "running" /\ run'[s] = r
      BY <3>1 DEF Runs, TypeOK
    <3>. QED  BY <1>00, <3>2 DEF Run
  <2>4. Mail(s) \in mails' /\ Mail(s).by = s /\ Mail(s).to = run[s].to
    BY <2>1 DEF Mail
  <2>5. NotesHaveMail(s)' /\ AskedAreMade(s)'
    BY <1>0, <1>00, <2>3, <2>4 DEF Elsewhere, Diligent, NotesHaveMail, AskedAreMade
  <2>6. SteadyIsOutstanding(s)'
    BY <1>0, <1>00, <2>1, <2>2, <2>3
       DEF Elsewhere, Diligent, SteadyIsOutstanding, Outstanding, Audience, Underway
  <2>7. ASSUME NEW k \in steady[s] PROVE Cared(s, k)'
    <3>1. Cared(s, k)
      BY <1>30, <2>1, <2>7 DEF Underway
    <3>2. Mailed(s, k) => Mailed(s, k)'
      BY <1>0, <2>3, ServedStays
    <3>3. k = run[s].to => Mailed(s, k)'
      BY <2>4 DEF Mailed
    <3>4. Served(s, k) => Served(s, k)'
      BY <2>3, <3>2, <3>3 DEF Served
    <3>5. Awaited(s, k) => Awaited(s, k)'
      BY <1>0, <2>3 DEF Elsewhere, Awaited, Audience
    <3>. QED  BY <1>0, <2>3, <3>1, <3>4, <3>5 DEF Elsewhere, Cared
  <2>. QED  BY <2>2, <2>5, <2>6, <2>7 DEF Diligent
<1>7. ASSUME Fail(s) PROVE Idles(s)
  <2>1. PICK r \in {NoRun, Closed(s)} : Runs(s, "failed", r)
    BY <1>7, FailRuns
  <2>2. pc'[s] = "failed" /\ run'[s] = r
    BY <1>00, <2>1, RunsAt
  <2>3. steady'[s] = {}
    BY <1>00, <1>7 DEF Fail
  <2>. QED  BY <1>01, <2>1, <2>2, <2>3 DEF Idles, Underway
<1>8. ASSUME FinishRun(s) PROVE Idles(s)
  <2>1. pc'[s] = "done" /\ run'[s] = Closed(s)
    BY <1>00, <1>8, RunsAt DEF FinishRun
  <2>2. steady'[s] = {}
    BY <1>00, <1>8 DEF FinishRun
  <2>. QED  BY <1>01, <2>1, <2>2 DEF Idles, Underway
<1>. QED
  BY <1>0, <1>1, <1>2, <1>3, <1>4, <1>5, <1>6, <1>7, <1>8, IdleIsDiligent DEF SenderSteps

LEMMA DiligenceActs ==
    ASSUME TypeOK, RunsInHand, AssignInv, NudgeInv, DiligenceInv, NEW s \in Senders, SenderSteps(s)
    PROVE  DiligenceInv'
<1>0. Elsewhere(s)
  BY SenderElsewhere
<1>1. \A q \in Senders : Diligent(q)'
  BY <1>0, OthersAreDiligent, OwnIsDiligent
<1>2. ASSUME NEW r \in reminders
      PROVE  \E m \in mails' : m.to = r.to /\ pc'[m.by] = "done" /\ run'[m.by].began = r.day
  <2>1. PICK m \in mails : m.to = r.to /\ pc[m.by] = "done" /\ run[m.by].began = r.day
    BY DEF DiligenceInv, EvidenceHasMail
  <2>. QED  BY <1>0, <2>1, MailTypes DEF Elsewhere
<1>3. ASSUME NEW r \in reminders', r \notin reminders
      PROVE  \E m \in mails' : m.to = r.to /\ pc'[m.by] = "done" /\ run'[m.by].began = r.day
  <2>1. FinishRun(s)
    BY <1>3 DEF SenderSteps, Begin, AllowNudge, ReadClock, Resolve, Consider, Send, Fail, Sends
  <2>2. PICK w \in run[s].wrote : r = [for |-> w.for, to |-> w.to, day |-> run[s].began]
    BY <1>3, <2>1 DEF FinishRun
  <2>3. PICK m \in mails : m.to = w.to /\ m.by = s
    BY <2>2 DEF DiligenceInv, Diligent, NotesHaveMail
  <2>4. pc'[s] = "done" /\ run'[s] = Closed(s) /\ mails' = mails
    BY <2>1, ClosedIsRun, RunsAt DEF FinishRun, SenderPlaces
  <2>5. Closed(s).began = run[s].began
    BY DEF Closed, NoRun
  <2>. QED  BY <2>2, <2>3, <2>4, <2>5
<1>. QED
  BY <1>1, <1>2, <1>3 DEF DiligenceInv, EvidenceHasMail

\* A run that ends has mailed everybody who was outstanding all along, unless a
\* run of that day did, however many runs, assignments and learners there are.
THEOREM EverybodyIsReached == Spec => NobodyIsMissed
<1>1. ASSUME TypeOK, RunsInHand, AssignInv, NudgeInv, DiligenceInv, [Next]_vars
      PROVE  DiligenceInv'
  <2>1. CASE UNCHANGED vars
    <3>1. Settles
      BY <2>1 DEF vars, world, assigning, sending, Settles
    <3>. QED  BY <1>1, <3>1, DiligenceSettles
  <2>2. ASSUME NEW s \in Senders, SenderSteps(s) PROVE DiligenceInv'
    BY <1>1, <2>2, DiligenceActs
  <2>3. CASE Changing \/ \E a \in Assigners : Assigning(a)
    BY <1>1, <2>3, AroundShape, DiligenceSettles, DiligenceWatches
  <2>. QED  BY <1>1, <2>1, <2>2, <2>3 DEF Next, SenderSteps, Assigning, Changing
<1>2. ASSUME TypeOK, RunsInHand, DiligenceInv, [Next]_vars
      PROVE  [\A s \in Senders : pc[s] = "running" /\ pc'[s] = "done" =>
                \A l \in steady[s] : \E m \in mails :
                    /\ m.to = l
                    /\ m.by = s \/ (pc[m.by] = "done" /\ run[m.by].began = run[s].day)]_vars
  <2>. SUFFICES ASSUME NEW s \in Senders, pc[s] = "running", pc'[s] = "done", NEW l \in steady[s]
                PROVE  Mailed(s, l)
    BY DEF Mailed
  <2>1. \E q \in Senders : Acts(q)
    BY <1>2, ActsOrAround DEF Around
  <2>2. Finishes(s)
    BY <2>1 DEF Acts, Begins, Allows, Clocks, Works, Picks, Mails, Fails, Finishes
  <2>3. Cared(s, l)
    BY <1>2 DEF DiligenceInv, Diligent, Underway
  <2>. QED  BY <2>2, <2>3 DEF Finishes, Cared, Served, Awaited
<1>3. TypeOK /\ RunsInHand /\ NudgeInv /\ [Next]_vars => NudgeInv'
  BY ActsOrAround, NudgeActs, NudgeAround
<1>. QED
  BY <1>1, <1>2, <1>3, NudgeInit, AssignInit, DiligenceInit, AssignStep, TypeHolds, PTL
     DEF Spec, NobodyIsMissed
=============================================================================
