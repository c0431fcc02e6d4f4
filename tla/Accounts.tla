------------------------------- MODULE Accounts -------------------------------
(***************************************************************************)
(* One account and the requests that open, secure and close it:            *)
(* routes/auth.py, two_factor.py, invites.py, profile.py, the user half of *)
(* admin.py, and security/sessions.py under them.                          *)
(*                                                                         *)
(* No row is locked when it is read.  A handler checks what it has read,   *)
(* waits (for the password checker, the mail server, the database) and     *)
(* then writes: only the columns that differ from what it read, and holds  *)
(* the rows it wrote until it commits.  Helpers commit in the middle of a  *)
(* handler: get_valid_session before it starts, and revoke_other_sessions  *)
(* a while after it has looked for the sessions.  The audit entry that the *)
(* handlers of administrators add in a last commit is read by nobody here. *)
(*                                                                         *)
(* A request happens once; a session, a secret and a link are named after  *)
(* the request that made them.                                             *)
(***************************************************************************)
EXTENDS FiniteSets

CONSTANTS
    Requests,
    First,      \* whoever made what there was at the start
    None

ASSUME NameAssumption == First \notin Requests /\ None \notin Requests \cup {First}

VARIABLES
    user,       \* the row of `users`, and whether it holds the role in question
    session,    \* of each session: "none", "live" or "ended"
    cred,       \* the row of `two_factor_credentials`
    item,       \* of each one-time thing: "none", "fresh", "spent" or "gone"
    pc,         \* where each request is
    req,        \* what it was asked and what it has read
    before,     \* history: the requests that had acted when it read
    during,     \* history: the requests that acted between its read and its own act
    late        \* history: those of them that acted after it looked for sessions

rows == <<user, session, cred, item>>
history == <<before, during, late>>
vars == <<rows, pc, req, history>>

Makers == Requests \cup {First}
Sessions == Makers

Kinds == {"reset", "challenge", "recovery", "invite"}
Items == Kinds \X Makers

ByAccount == {"logout", "change_password", "enroll", "confirm", "disable_2fa", "update_name"}
ByVisitor == {"login", "verify", "forgot", "reset", "accept"}
ByAdmin == {"disable", "enable", "erase", "assign_role", "remove_role", "reset_2fa", "invite"}
\* An administrator changing their own roles does it from a session of the account.
ByEither == {"assign_role", "remove_role"}
Ops == ByAccount \cup ByVisitor \cup ByAdmin

\* What ends the other sessions of the account.
Changes == {"change_password", "reset", "confirm", "disable_2fa", "reset_2fa",
            "disable", "erase", "assign_role", "remove_role"}
\* What spends a one-time thing by using it.
Uses == {"reset", "verify", "accept"}

Credential == [secret : Makers \cup {None}, enabled : BOOLEAN]
NoCredential == [secret |-> None, enabled |-> FALSE]

User == [exists : BOOLEAN, disabled : BOOLEAN, erased : BOOLEAN, named : BOOLEAN, role : BOOLEAN]
Nobody == [exists |-> FALSE, disabled |-> FALSE, erased |-> FALSE, named |-> FALSE, role |-> FALSE]

Request == [op : Ops \cup {None}, session : Sessions \cup {None}, items : SUBSET Items,
            saw : Credential, named : BOOLEAN, found : SUBSET Sessions]
NoRequest == [op |-> None, session |-> None, items |-> {},
              saw |-> NoCredential, named |-> FALSE, found |-> {}]

Pending(r) == pc[r] \in {"read", "revoking"}
Acted(r) == pc[r] = "done"
Op(r) == req[r].op

\* An account with a session, a reset link and perhaps a second factor and a name,
\* or an address that was only invited.
Init ==
    /\ \/ /\ user = Nobody
          /\ cred = NoCredential
          /\ session = [s \in Sessions |-> "none"]
          /\ item = [i \in Items |-> IF i = <<"invite", First>> THEN "fresh" ELSE "none"]
       \/ /\ user \in {u \in User : u.exists /\ ~u.erased}
          /\ cred \in {c \in Credential : /\ c.secret \in {First, None}
                                          /\ c.enabled => c.secret = First}
          /\ session = [s \in Sessions |->
                           IF s = First THEN IF user.disabled THEN "ended" ELSE "live" ELSE "none"]
          /\ item = [i \in Items |->
                        IF \/ i = <<"reset", First>>
                           \/ i = <<"recovery", First>> /\ cred.enabled
                        THEN "fresh" ELSE "none"]
    /\ pc = [r \in Requests |-> "new"]
    /\ req = [r \in Requests |-> NoRequest]
    /\ before = [r \in Requests |-> {}]
    /\ during = [r \in Requests |-> {}]
    /\ late = [r \in Requests |-> {}]

-----------------------------------------------------------------------------
(* Admission                                                               *)

Fresh(kind) == {i \in Items : i[1] = kind /\ item[i] = "fresh"}

\* Mutant of MayEnroll: /enroll starts over whatever there is.
MayStartOver == TRUE
MayEnroll == ~cred.enabled

\* Mutant of MayEnable: only the column that is to change is looked at.
MayEnableAnybody == user.disabled
MayEnable == ~user.erased /\ user.disabled

\* What each handler checks in the rows it has read, before it decides.  An
\* erased account has lost its address, which a login and a lost password are
\* looked up by.
Active == user.exists /\ ~user.disabled
Admits(op) ==
    \/ op \in {"logout", "reset", "accept"}
    \/ op \in {"change_password", "update_name"} /\ Active
    \/ op = "enroll" /\ Active /\ MayEnroll
    \/ op = "confirm" /\ Active /\ cred.secret # None /\ ~cred.enabled
    \/ op \in {"disable_2fa", "verify"} /\ Active /\ cred.enabled
    \/ op = "login" /\ Active /\ ~user.erased
    \/ op = "forgot" /\ user.exists /\ ~user.erased
    \/ op = "disable" /\ Active
    \/ op = "enable" /\ user.exists /\ MayEnable
    \/ op = "erase" /\ user.exists /\ ~user.erased
    \/ op = "assign_role" /\ user.exists /\ ~user.erased /\ ~user.role
    \/ op = "remove_role" /\ user.exists /\ user.role
    \/ op = "reset_2fa" /\ user.exists /\ cred.enabled
    \/ op = "invite" /\ ~user.exists

\* What it takes in hand: the link, challenge or code it was given, or those a
\* new link will supersede.
LinkOf(op) == IF op \in {"reset", "forgot"} THEN "reset" ELSE "invite"
Takes(op) ==
    IF op \in {"reset", "accept"} THEN {{i} : i \in Fresh(LinkOf(op))}
    ELSE IF op \in {"forgot", "invite"} THEN {Fresh(LinkOf(op))}
    ELSE IF op = "verify"
         THEN {{c} : c \in Fresh("challenge")}
              \cup {{c, k} : c \in Fresh("challenge"), k \in Fresh("recovery")}
    ELSE {{}}

Moves(r, place) == pc' = [pc EXCEPT ![r] = place]
ActedSoFar == {q \in Requests : Acted(q)}

Reads(r, op, s) ==
    /\ Admits(op)
    /\ \E items \in Takes(op) :
          req' = [req EXCEPT ![r] = [op |-> op, session |-> s, items |-> items,
                                     saw |-> cred, named |-> user.named, found |-> {}]]
    /\ Moves(r, "read")
    /\ before' = [before EXCEPT ![r] = ActedSoFar]
    /\ UNCHANGED <<during, late>>

\* get_valid_session finds the session live ...
Gate(r) ==
    /\ pc[r] = "new"
    /\ \E s \in Sessions, op \in ByAccount \cup ByEither :
          /\ session[s] = "live"
          /\ req' = [req EXCEPT ![r].op = op, ![r].session = s]
    /\ Moves(r, "gated")
    /\ UNCHANGED <<rows, history>>

\* Mutant of Touched: the whole row is written back as it was read.
TouchedWhole(s) == [session EXCEPT ![s] = "live"]
\* ... and writes `last_active_at` alone, whatever has become of the row.
Touched(s) == session

Enter(r) ==
    /\ pc[r] = "gated"
    /\ session' = Touched(req[r].session)
    /\ Reads(r, Op(r), req[r].session)
    /\ UNCHANGED <<user, cred, item>>

\* A request that comes with a password, a link, a challenge, or from an administrator.
Arrive(r) ==
    /\ pc[r] = "new"
    /\ \E op \in ByVisitor \cup ByAdmin : Reads(r, op, None)
    /\ UNCHANGED rows

\* get_valid_session finds the session idle for too long.
EndIdle(s) ==
    /\ session[s] = "live"
    /\ session' = [session EXCEPT ![s] = "ended"]
    /\ UNCHANGED <<user, cred, item, pc, req, history>>

\* Every refusal, lost connection and dead process: what was not committed is
\* rolled back, and nobody remembers what was read.  After the commit of what it
\* decided a handler has only an audit entry left to write.
Fail(r) ==
    /\ pc[r] \in {"gated", "read", "revoking"}
    /\ Moves(r, "failed")
    /\ req' = [req EXCEPT ![r] = NoRequest]
    /\ before' = [before EXCEPT ![r] = {}]
    /\ during' = [during EXCEPT ![r] = {}]
    /\ late' = [late EXCEPT ![r] = {}]
    /\ UNCHANGED rows

-----------------------------------------------------------------------------
(* What each handler writes                                                *)

\* The rows a handler updates, inserts or deletes, by table; the links, challenges
\* and codes are told apart one by one.
Writers == {{"change_password", "reset", "update_name", "disable", "enable", "erase"},
            {"enroll", "confirm", "disable_2fa", "reset_2fa"},
            {"assign_role", "remove_role"}}
DropsCodes == {"confirm", "disable_2fa", "reset_2fa"}

\* Whoever looks for sessions has sent its own rows to the database: the query
\* flushes them.  Another request that writes one of them waits for the commit.
Held(r) ==
    \E q \in Requests \ {r} :
        /\ pc[q] = "revoking"
        /\ \/ \E w \in Writers : Op(q) \in w /\ Op(r) \in w
           \/ req[q].items \cap req[r].items # {}
           \/ Op(q) \in DropsCodes /\ Op(r) = "verify" /\ \E i \in req[r].items : i[1] = "recovery"

\* A row that was there when it was read and is updated, or deleted by its object,
\* must be there still; the row of a role must not.
Flushes(op) ==
    /\ op = "confirm" => cred.secret # None
    /\ op = "assign_role" => ~user.role
    /\ op = "remove_role" => user.role

\* Mutant of Others: the comparison is made in SQL, where nothing differs from NULL.
OthersInSQL(keep) == {s \in Sessions : session[s] = "live" /\ keep # None /\ s # keep}
\* revoke_other_sessions finds what is committed when it looks, not when the
\* handler began ...
Others(keep) == {s \in Sessions : session[s] = "live" /\ s # keep}

LookForSessions(r) ==
    /\ pc[r] = "read"
    /\ Op(r) \in Changes
    /\ ~Held(r)
    /\ Flushes(Op(r))
    /\ req' = [req EXCEPT ![r].found = Others(req[r].session)]
    /\ Moves(r, "revoking")
    /\ UNCHANGED <<rows, history>>

\* ... and ends those, with the commit of all that the handler has written.
Revoked(r) == [s \in Sessions |-> IF s \in req[r].found THEN "ended" ELSE session[s]]

\* The commit of r; the requests that are between their read and theirs miss it.
Acts(r, op) ==
    /\ Op(r) = op
    /\ pc[r] = (IF op \in Changes THEN "revoking" ELSE "read")
    /\ Moves(r, "done")
    /\ during' = [q \in Requests |-> IF q # r /\ Pending(q) THEN during[q] \cup {r} ELSE during[q]]
    /\ late' = [q \in Requests |->
                   IF q # r /\ pc[q] = "revoking" THEN late[q] \cup {r} ELSE late[q]]
    /\ UNCHANGED <<req, before>>

Becomes(items, fate) == [i \in Items |-> IF i \in items THEN fate ELSE item[i]]

\* Mutant of Spent: the link is not marked when it is used.
SpentOnChallenge(r) ==
    Becomes({i \in req[r].items : i[1] \in {"challenge", "recovery"}}, "spent")
Spent(r) == Becomes(req[r].items, "spent")
Issued(r, kind) == [Spent(r) EXCEPT ![<<kind, r>>] = "fresh"]
NoRecoveryCodes == Becomes({i \in Items : i[1] = "recovery" /\ item[i] # "none"}, "gone")

\* The second factor is looked up between the password and the session.
Login(r) ==
    /\ Acts(r, "login")
    /\ IF req[r].saw.enabled
       THEN item' = Issued(r, "challenge") /\ UNCHANGED session
       ELSE session' = [session EXCEPT ![r] = "live"] /\ UNCHANGED item
    /\ UNCHANGED <<user, cred>>

\* A recovery code that was deleted meanwhile cannot be marked as used.
Verify(r) ==
    /\ Acts(r, "verify")
    /\ ~Held(r)
    /\ \A i \in req[r].items : item[i] # "gone"
    /\ item' = Spent(r)
    /\ session' = [session EXCEPT ![r] = "live"]
    /\ UNCHANGED <<user, cred>>

Logout(r) ==
    /\ Acts(r, "logout")
    /\ session' = [session EXCEPT ![req[r].session] = "ended"]
    /\ UNCHANGED <<user, cred, item>>

ChangePassword(r) ==
    /\ Acts(r, "change_password")
    /\ session' = Revoked(r)
    /\ UNCHANGED <<user, cred, item>>

\* Committed only after the mail has gone out.
ForgotPassword(r) ==
    /\ Acts(r, "forgot")
    /\ ~Held(r)
    /\ item' = Issued(r, "reset")
    /\ UNCHANGED <<user, session, cred>>

ResetPassword(r) ==
    /\ Acts(r, "reset")
    /\ item' = Spent(r)
    /\ session' = Revoked(r)
    /\ UNCHANGED <<user, cred>>

\* A row it has read is updated, in one column; else a row is inserted.  Either
\* fails if the row has come or gone since.
Enroll(r) ==
    /\ Acts(r, "enroll")
    /\ ~Held(r)
    /\ (req[r].saw.secret = None) = (cred.secret = None)
    /\ cred' = [cred EXCEPT !.secret = r]
    /\ UNCHANGED <<user, session, item>>

Confirm(r) ==
    /\ Acts(r, "confirm")
    /\ cred' = [cred EXCEPT !.enabled = TRUE]
    /\ item' = [NoRecoveryCodes EXCEPT ![<<"recovery", r>>] = "fresh"]
    /\ session' = Revoked(r)
    /\ UNCHANGED user

DropsCredential ==
    /\ cred' = NoCredential
    /\ item' = NoRecoveryCodes

DisableTwoFactor(r) ==
    /\ Acts(r, "disable_2fa")
    /\ DropsCredential
    /\ session' = Revoked(r)
    /\ UNCHANGED user

AdminDisableTwoFactor(r) ==
    /\ Acts(r, "reset_2fa")
    /\ DropsCredential
    /\ session' = Revoked(r)
    /\ UNCHANGED user

\* A name that is the one it has read is not written.
UpdateName(r) ==
    /\ Acts(r, "update_name")
    /\ \/ ~Held(r) /\ user' = [user EXCEPT !.named = TRUE]
       \/ req[r].named /\ UNCHANGED user
    /\ UNCHANGED <<session, cred, item>>

DisableUser(r) ==
    /\ Acts(r, "disable")
    /\ user' = [user EXCEPT !.disabled = TRUE]
    /\ session' = Revoked(r)
    /\ UNCHANGED <<cred, item>>

EnableUser(r) ==
    /\ Acts(r, "enable")
    /\ ~Held(r)
    /\ user' = [user EXCEPT !.disabled = FALSE]
    /\ UNCHANGED <<session, cred, item>>

\* A name it has not read is not taken out: nothing of it has changed.
EraseUser(r) ==
    /\ Acts(r, "erase")
    /\ user' = [user EXCEPT !.erased = TRUE, !.disabled = TRUE, !.named = @ /\ ~req[r].named]
    /\ session' = Revoked(r)
    /\ UNCHANGED <<cred, item>>

AssignRole(r) ==
    /\ Acts(r, "assign_role")
    /\ user' = [user EXCEPT !.role = TRUE]
    /\ session' = Revoked(r)
    /\ UNCHANGED <<cred, item>>

RemoveRole(r) ==
    /\ Acts(r, "remove_role")
    /\ user' = [user EXCEPT !.role = FALSE]
    /\ session' = Revoked(r)
    /\ UNCHANGED <<cred, item>>

CreateInvite(r) ==
    /\ Acts(r, "invite")
    /\ item' = Issued(r, "invite")
    /\ UNCHANGED <<user, session, cred>>

\* ix_users_email_lower lets one account have the address.
AcceptInvite(r) ==
    /\ Acts(r, "accept")
    /\ ~user.exists
    /\ user' \in {[Nobody EXCEPT !.exists = TRUE, !.role = role] : role \in BOOLEAN}
    /\ item' = Spent(r)
    /\ UNCHANGED <<session, cred>>

Step(r) ==
    \/ Gate(r) \/ Enter(r) \/ Arrive(r) \/ LookForSessions(r) \/ Fail(r)
    \/ Login(r) \/ Verify(r) \/ Logout(r) \/ ChangePassword(r)
    \/ ForgotPassword(r) \/ ResetPassword(r)
    \/ Enroll(r) \/ Confirm(r) \/ DisableTwoFactor(r) \/ AdminDisableTwoFactor(r)
    \/ UpdateName(r) \/ DisableUser(r) \/ EnableUser(r) \/ EraseUser(r)
    \/ AssignRole(r) \/ RemoveRole(r) \/ CreateInvite(r) \/ AcceptInvite(r)

Next == (\E r \in Requests : Step(r)) \/ (\E s \in Sessions : EndIdle(s))

Spec == Init /\ [][Next]_vars

-----------------------------------------------------------------------------
(* Properties                                                              *)

\* The shape of the rows, the requests and the histories.
TypeOK ==
    /\ user \in User
    /\ session \in [Sessions -> {"none", "live", "ended"}]
    /\ cred \in Credential
    /\ item \in [Items -> {"none", "fresh", "spent", "gone"}]
    /\ pc \in [Requests -> {"new", "gated", "read", "revoking", "done", "failed"}]
    /\ req \in [Requests -> Request]
    /\ before \in [Requests -> SUBSET Requests]
    /\ during \in [Requests -> SUBSET Requests]
    /\ late \in [Requests -> SUBSET Requests]

\* A session that was revoked never works again, whatever requests were using
\* it at the time (get_valid_session writes to the row it found live).
EndedStaysEnded ==
    [][\A s \in Sessions : session[s] = "ended" => session'[s] = "ended"]_vars

Missed(q, r) == r \in during[q]
\* Neither saw what the other did.
Overlap(q, r) == q \notin before[r] /\ r \notin before[q]

Changers == {q \in Requests : Acted(q) /\ Op(q) \in Changes}

\* A change of the password, the second factor, a role or the account's status
\* leaves no session alive but the one it was made from, those of logins that had
\* the account read before it and answered after it, and those of logins that
\* answered between its look at the sessions and its commit.
SessionsAreExplained ==
    \A s \in Sessions, q \in Changers :
        session[s] = "live" =>
            \/ s = req[q].session
            \/ s \in Requests /\ (q \in before[s] \/ Missed(s, q) \/ s \in late[q])

\* Reset links, challenges, recovery codes and invitations work once, and a new
\* link ends the older ones, but between requests that overlap.
OneTimeItems ==
    /\ \A q, r \in Requests :
          /\ q # r /\ Acted(q) /\ Acted(r)
          /\ Op(q) \in Uses /\ Op(r) \in Uses /\ req[q].items \cap req[r].items # {}
          => Overlap(q, r)
    /\ \A kind \in {"reset", "invite"}, q, r \in Requests :
          q # r /\ item[<<kind, q>>] = "fresh" /\ item[<<kind, r>>] = "fresh" => Overlap(q, r)

Confirmers == {c \in Requests : Acted(c) /\ Op(c) = "confirm"}

\* A second factor that is asked for is one its owner has proved to have, but
\* after an enrolment that overlapped the confirmation.
EnabledWasConfirmed ==
    cred.enabled =>
        \/ cred.secret = First /\ Confirmers = {}
        \/ \E c \in Confirmers : req[c].saw.secret = cred.secret
        \/ \E c \in Confirmers, e \in Requests :
              e = cred.secret /\ (Missed(c, e) \/ Missed(e, c))

\* Some request of this kind had read the account before it was erased and wrote
\* to it afterwards.
Undone(op) ==
    \E q, e \in Requests : Acted(q) /\ Op(q) = op /\ Op(e) = "erase" /\ Missed(q, e)

\* Some erasure had read the account without a name and was overtaken by one.
NamedMeanwhile ==
    \E e, q \in Requests :
        Acted(e) /\ Op(e) = "erase" /\ ~req[e].named /\ Op(q) = "update_name" /\ Missed(e, q)

\* An erased account stays disabled and without a name, but for a request that
\* had read it before the erasure and wrote after it, for what an account that
\* was enabled in this way may do, and for a first name given to it between the
\* erasure's read and its commit, which the erasure leaves there.
ErasedStaysErased ==
    user.erased =>
        /\ user.disabled \/ Undone("enable")
        /\ ~user.named \/ Undone("update_name") \/ Undone("enable") \/ NamedMeanwhile
=============================================================================
