---------------------------- MODULE AccountsProofs ----------------------------
(***************************************************************************)
(* Theorems about Accounts, for any number of requests.                    *)
(*                                                                         *)
(* Every step is first reduced to its shape: what it does to the requests  *)
(* and their histories, and what to each row.  The invariants are then     *)
(* proved from the shapes and never look at a handler again.               *)
(***************************************************************************)
EXTENDS Accounts, TLAPS

-----------------------------------------------------------------------------
(* The shape of a step                                                     *)

\* A request reads the rows, and writes none.
Reading(r) ==
    /\ pc[r] \in {"new", "gated"}
    /\ \E op \in Ops \cup {None}, s \in {None, req[r].session} : Reads(r, op, s)
    /\ UNCHANGED rows

\* A request goes on or is given up, before it has committed anything.
Preparing(r) == Gate(r) \/ LookForSessions(r) \/ Fail(r)

\* Nobody reads or acts; at most a session runs out.
Idling ==
    /\ UNCHANGED <<user, cred, item, req, before, during, late>>
    /\ \/ session' = session
       \/ \E s \in Sessions : session[s] = "live" /\ session' = [session EXCEPT ![s] = "ended"]
    /\ \A q \in Requests :
          /\ Acted(q)' = Acted(q)
          /\ pc'[q] \in {"read", "revoking"} => pc'[q] = pc[q]
    /\ pc' \in [Requests -> {"new", "gated", "read", "revoking", "done", "failed"}]

ActsOnSession(r) ==
    \/ session' = session /\ Op(r) \notin Changes
    \/ Op(r) \in {"login", "verify"} /\ session' = [session EXCEPT ![r] = "live"]
    \/ Op(r) = "logout" /\ session' = [session EXCEPT ![req[r].session] = "ended"]
    \/ Op(r) \in Changes /\ session' = Revoked(r)

ActsOnItem(r) ==
    \/ item' = item /\ Op(r) \notin Uses \cup {"forgot", "invite"}
    \/ item' = Spent(r) /\ Op(r) \in Uses
    \/ item' = Issued(r, "challenge") /\ Op(r) = "login"
    \/ item' = Issued(r, "reset") /\ Op(r) = "forgot"
    \/ item' = Issued(r, "invite") /\ Op(r) = "invite"
    \/ item' = [NoRecoveryCodes EXCEPT ![<<"recovery", r>>] = "fresh"] /\ Op(r) = "confirm"
    \/ item' = NoRecoveryCodes /\ Op(r) \notin Uses \cup {"forgot", "invite"}

ActsOnCred(r) ==
    \/ cred' = cred /\ Op(r) \notin {"enroll", "confirm"}
    \/ cred' = NoCredential /\ Op(r) \in {"disable_2fa", "reset_2fa"}
    \/ cred' = [cred EXCEPT !.secret = r] /\ Op(r) = "enroll"
    \/ cred' = [cred EXCEPT !.enabled = TRUE] /\ Op(r) = "confirm"

ActsOnUser(r) ==
    \/ user' = user /\ Op(r) # "erase"
    \/ user' = [user EXCEPT !.named = TRUE] /\ Op(r) = "update_name"
    \/ user' = [user EXCEPT !.disabled = TRUE] /\ Op(r) # "erase"
    \/ user' = [user EXCEPT !.disabled = FALSE] /\ Op(r) = "enable"
    \/ /\ user' = [user EXCEPT !.erased = TRUE, !.disabled = TRUE, !.named = @ /\ ~req[r].named]
       /\ Op(r) = "erase"
    \/ (\E role \in BOOLEAN : user' = [user EXCEPT !.role = role]) /\ Op(r) # "erase"
    \/ (\E role \in BOOLEAN : user' = [Nobody EXCEPT !.exists = TRUE, !.role = role]) /\ Op(r) # "erase"

\* A request commits what it decided on.
Acting(r) ==
    /\ \E op \in Ops : Acts(r, op)
    /\ ActsOnSession(r) /\ ActsOnItem(r) /\ ActsOnCred(r) /\ ActsOnUser(r)

Shape ==
    \/ \E r \in Requests : Preparing(r) \/ Reading(r) \/ Acting(r)
    \/ Idling

LEMMA HandlerShape ==
    ASSUME TypeOK, NEW r \in Requests,
           \/ Login(r) \/ Verify(r) \/ Logout(r) \/ ChangePassword(r)
           \/ ForgotPassword(r) \/ ResetPassword(r)
           \/ Enroll(r) \/ Confirm(r) \/ DisableTwoFactor(r) \/ AdminDisableTwoFactor(r)
           \/ UpdateName(r) \/ DisableUser(r) \/ EnableUser(r) \/ EraseUser(r)
           \/ AssignRole(r) \/ RemoveRole(r) \/ CreateInvite(r) \/ AcceptInvite(r)
    PROVE  Acting(r)
<1>. USE DEF Acting, ActsOnSession, ActsOnItem, ActsOnCred, ActsOnUser,
             Ops, ByAccount, ByVisitor, ByAdmin, Changes, Uses
<1>1. CASE Login(r)
  <2>1. Acts(r, "login") /\ Op(r) = "login"
    BY <1>1 DEF Login, Acts
  <2>. QED  BY <1>1, <2>1 DEF Login
<1>2. CASE Verify(r)
  <2>1. Acts(r, "verify") /\ Op(r) = "verify"
    BY <1>2 DEF Verify, Acts
  <2>. QED  BY <1>2, <2>1 DEF Verify
<1>3. CASE Logout(r)
  <2>1. Acts(r, "logout") /\ Op(r) = "logout"
    BY <1>3 DEF Logout, Acts
  <2>. QED  BY <1>3, <2>1 DEF Logout
<1>4. CASE ChangePassword(r)
  <2>1. Acts(r, "change_password") /\ Op(r) = "change_password"
    BY <1>4 DEF ChangePassword, Acts
  <2>. QED  BY <1>4, <2>1 DEF ChangePassword
<1>5. CASE ForgotPassword(r)
  <2>1. Acts(r, "forgot") /\ Op(r) = "forgot"
    BY <1>5 DEF ForgotPassword, Acts
  <2>. QED  BY <1>5, <2>1 DEF ForgotPassword
<1>6. CASE ResetPassword(r)
  <2>1. Acts(r, "reset") /\ Op(r) = "reset"
    BY <1>6 DEF ResetPassword, Acts
  <2>. QED  BY <1>6, <2>1 DEF ResetPassword
<1>7. CASE Enroll(r)
  <2>1. Acts(r, "enroll") /\ Op(r) = "enroll"
    BY <1>7 DEF Enroll, Acts
  <2>. QED  BY <1>7, <2>1 DEF Enroll
<1>8. CASE Confirm(r)
  <2>1. Acts(r, "confirm") /\ Op(r) = "confirm"
    BY <1>8 DEF Confirm, Acts
  <2>. QED  BY <1>8, <2>1 DEF Confirm
<1>9. CASE DisableTwoFactor(r)
  <2>1. Acts(r, "disable_2fa") /\ Op(r) = "disable_2fa"
    BY <1>9 DEF DisableTwoFactor, Acts
  <2>. QED  BY <1>9, <2>1 DEF DisableTwoFactor, DropsCredential
<1>10. CASE AdminDisableTwoFactor(r)
  <2>1. Acts(r, "reset_2fa") /\ Op(r) = "reset_2fa"
    BY <1>10 DEF AdminDisableTwoFactor, Acts
  <2>. QED  BY <1>10, <2>1 DEF AdminDisableTwoFactor, DropsCredential
<1>11. CASE UpdateName(r)
  <2>1. Acts(r, "update_name") /\ Op(r) = "update_name"
    BY <1>11 DEF UpdateName, Acts
  <2>. QED  BY <1>11, <2>1 DEF UpdateName
<1>12. CASE DisableUser(r)
  <2>1. Acts(r, "disable") /\ Op(r) = "disable"
    BY <1>12 DEF DisableUser, Acts
  <2>. QED  BY <1>12, <2>1 DEF DisableUser
<1>13. CASE EnableUser(r)
  <2>1. Acts(r, "enable") /\ Op(r) = "enable"
    BY <1>13 DEF EnableUser, Acts
  <2>. QED  BY <1>13, <2>1 DEF EnableUser
<1>14. CASE EraseUser(r)
  <2>1. Acts(r, "erase") /\ Op(r) = "erase"
    BY <1>14 DEF EraseUser, Acts
  <2>. QED  BY <1>14, <2>1 DEF EraseUser
<1>15. CASE AssignRole(r)
  <2>1. Acts(r, "assign_role") /\ Op(r) = "assign_role"
    BY <1>15 DEF AssignRole, Acts
  <2>. QED  BY <1>15, <2>1 DEF AssignRole
<1>16. CASE RemoveRole(r)
  <2>1. Acts(r, "remove_role") /\ Op(r) = "remove_role"
    BY <1>16 DEF RemoveRole, Acts
  <2>. QED  BY <1>16, <2>1 DEF RemoveRole
<1>17. CASE CreateInvite(r)
  <2>1. Acts(r, "invite") /\ Op(r) = "invite"
    BY <1>17 DEF CreateInvite, Acts
  <2>. QED  BY <1>17, <2>1 DEF CreateInvite
<1>18. CASE AcceptInvite(r)
  <2>1. Acts(r, "accept") /\ Op(r) = "accept"
    BY <1>18 DEF AcceptInvite, Acts
  <2>. QED  BY <1>18, <2>1 DEF AcceptInvite
<1>. QED
  BY <1>1, <1>2, <1>3, <1>4, <1>5, <1>6, <1>7, <1>8, <1>9, <1>10, <1>11, <1>12,
     <1>13, <1>14, <1>15, <1>16, <1>17, <1>18

LEMMA StepShape == ASSUME TypeOK, [Next]_vars PROVE Shape
<1>1. ASSUME UNCHANGED vars PROVE Idling
  BY <1>1 DEF Idling, vars, rows, history, TypeOK, Acted
<1>2. ASSUME NEW s \in Sessions, EndIdle(s) PROVE Idling
  BY <1>2 DEF Idling, EndIdle, TypeOK, Acted, history
<1>3. ASSUME NEW r \in Requests, Enter(r) PROVE Reading(r)
  BY <1>3 DEF Reading, Enter, Touched, TypeOK, Request, Op, rows
<1>4. ASSUME NEW r \in Requests, Arrive(r) PROVE Reading(r)
  BY <1>4 DEF Reading, Arrive, Ops, rows
<1>. QED
  BY <1>1, <1>2, <1>3, <1>4, HandlerShape DEF Next, Step, Shape, Preparing

-----------------------------------------------------------------------------
(* The shape of the state                                                  *)

\* What a request takes in hand is there to be taken.
LEMMA TakenIsFresh ==
    ASSUME NEW op \in Ops \cup {None}, NEW items \in Takes(op)
    PROVE  items \subseteq {i \in Items : item[i] = "fresh"}
BY DEF Takes, Fresh

LEMMA TypeInit == Init => TypeOK
<1>. SUFFICES ASSUME Init PROVE TypeOK
  OBVIOUS
<1>. USE NameAssumption DEF Makers, Sessions
<1>1. user \in User
  <2>1. Nobody \in User
    BY DEF User, Nobody
  <2>2. user = Nobody \/ user \in User
    BY DEF Init
  <2>. QED  BY <2>1, <2>2
<1>2. cred \in Credential
  <2>1. NoCredential \in Credential
    BY DEF Credential, NoCredential
  <2>2. cred = NoCredential \/ cred \in Credential
    BY DEF Init
  <2>. QED  BY <2>1, <2>2
<1>3. session \in [Sessions -> {"none", "live", "ended"}]
  BY DEF Init
<1>4. item \in [Items -> {"none", "fresh", "spent", "gone"}]
  BY DEF Init
<1>5. req \in [Requests -> Request]
  BY DEF Init, Request, NoRequest, Credential, NoCredential
<1>. QED
  BY <1>1, <1>2, <1>3, <1>4, <1>5 DEF Init, TypeOK

LEMMA TypeStep == ASSUME TypeOK, [Next]_vars PROVE TypeOK'
<1>. USE NameAssumption
<1>5. ASSUME NEW r \in Requests, Gate(r) PROVE TypeOK'
  <2>. PICK s \in Sessions, op \in ByAccount \cup ByEither :
          req' = [req EXCEPT ![r].op = op, ![r].session = s]
    BY <1>5 DEF Gate
  <2>1. op \in Ops
    BY DEF Ops, ByAccount, ByEither, ByAdmin
  <2>2. req' = [req EXCEPT ![r] = [req[r] EXCEPT !.op = op, !.session = s]]
    BY DEF TypeOK
  <2>3. [req[r] EXCEPT !.op = op, !.session = s] \in Request
    <3>1. req[r] \in Request
      BY DEF TypeOK
    <3>2. [req[r] EXCEPT !.op = op] \in Request
      BY <2>1, <3>1 DEF Request
    <3>. QED  BY <3>2 DEF Request
  <2>4. req' \in [Requests -> Request]
    BY <2>2, <2>3 DEF TypeOK
  <2>. QED
    BY <1>5, <2>4 DEF Gate, Moves, TypeOK, rows, history
<1>6. ASSUME NEW r \in Requests, LookForSessions(r) PROVE TypeOK'
  <2>1. req' = [req EXCEPT ![r] = [req[r] EXCEPT !.found = Others(req[r].session)]]
    BY <1>6 DEF LookForSessions, TypeOK
  <2>2. [req[r] EXCEPT !.found = Others(req[r].session)] \in Request
    <3>1. req[r] \in Request /\ Others(req[r].session) \in SUBSET Sessions
      BY DEF TypeOK, Others
    <3>. QED  BY <3>1 DEF Request
  <2>3. req' \in [Requests -> Request]
    BY <2>1, <2>2 DEF TypeOK
  <2>. QED
    BY <1>6, <2>3 DEF LookForSessions, Moves, TypeOK, rows, history
<1>7. ASSUME NEW r \in Requests, Fail(r) PROVE TypeOK'
  <2>1. NoRequest \in Request
    BY DEF Request, NoRequest, Credential, NoCredential
  <2>2. req' \in [Requests -> Request]
    BY <1>7, <2>1 DEF Fail, TypeOK
  <2>. QED
    BY <1>7, <2>2 DEF Fail, Moves, TypeOK, rows
<1>1. ASSUME NEW r \in Requests, Preparing(r) PROVE TypeOK'
  BY <1>1, <1>5, <1>6, <1>7 DEF Preparing
<1>2. ASSUME NEW r \in Requests, Reading(r) PROVE TypeOK'
  <2>. PICK op \in Ops \cup {None}, s \in {None, req[r].session} : Reads(r, op, s)
    BY <1>2 DEF Reading
  <2>. PICK items \in Takes(op) :
          req' = [req EXCEPT ![r] = [op |-> op, session |-> s, items |-> items,
                                     saw |-> cred, named |-> user.named, found |-> {}]]
    BY DEF Reads
  <2>1. items \in SUBSET Items
    BY TakenIsFresh
  <2>2. [op |-> op, session |-> s, items |-> items,
         saw |-> cred, named |-> user.named, found |-> {}] \in Request
    BY <2>1 DEF Request, TypeOK, User
  <2>. QED
    BY <1>2, <2>2 DEF Reading, Reads, Moves, ActedSoFar, TypeOK, rows
<1>3. ASSUME NEW r \in Requests, Acting(r) PROVE TypeOK'
  <2>1. /\ pc' \in [Requests -> {"new", "gated", "read", "revoking", "done", "failed"}]
        /\ req' = req /\ before' = before
        /\ during' \in [Requests -> SUBSET Requests]
        /\ late' \in [Requests -> SUBSET Requests]
    BY <1>3 DEF Acting, Acts, Moves, TypeOK
  <2>2. session' \in [Sessions -> {"none", "live", "ended"}]
    BY <1>3 DEF Acting, ActsOnSession, Revoked, TypeOK, Sessions, Makers
  <2>3. item' \in [Items -> {"none", "fresh", "spent", "gone"}]
    BY <1>3 DEF Acting, ActsOnItem, Issued, Spent, NoRecoveryCodes, Becomes, TypeOK
  <2>4. cred' \in Credential
    <3>1. cred \in Credential /\ NoCredential \in Credential
      BY DEF TypeOK, Credential, NoCredential
    <3>2. [cred EXCEPT !.secret = r] \in Credential /\ [cred EXCEPT !.enabled = TRUE] \in Credential
      BY <3>1 DEF Credential, Makers
    <3>. QED  BY <1>3, <3>1, <3>2 DEF Acting, ActsOnCred
  <2>5. user' \in User
    <3>1. user \in User /\ ActsOnUser(r)
      BY <1>3 DEF Acting, TypeOK
    <3>. QED  BY <3>1 DEF ActsOnUser, User, Nobody
  <2>. QED
    BY <2>1, <2>2, <2>3, <2>4, <2>5 DEF TypeOK
<1>4. CASE Idling
  BY <1>4 DEF Idling, TypeOK, history
<1>. QED
  BY <1>1, <1>2, <1>3, <1>4, StepShape DEF Shape

\* The shape of the rows, the requests and the histories, for any number of
\* requests.
THEOREM AccountsTypeCorrect == Spec => []TypeOK
<1>. QED
  BY TypeInit, TypeStep, PTL DEF Spec

-----------------------------------------------------------------------------
(* Who acted when                                                          *)

LEMMA PreparingHistory ==
    ASSUME TypeOK, NEW r \in Requests, Preparing(r)
    PROVE  /\ UNCHANGED rows
           /\ ~Acted(r) /\ \A q \in Requests : Acted(q)' = Acted(q)
           /\ \A q \in Requests \ {r} :
                 /\ pc'[q] = pc[q] /\ req'[q] = req[q]
                 /\ before'[q] = before[q] /\ during'[q] = during[q] /\ late'[q] = late[q]
           /\ before'[r] \subseteq before[r] /\ during'[r] \subseteq during[r]
           /\ req'[r].items \subseteq req[r].items
           /\ \/ req'[r].session \in {None, req[r].session}
              \/ session[req'[r].session] = "live"
           /\ pc'[r] # "read"
           /\ pc'[r] = "revoking" => LookForSessions(r)
<1>1. CASE Gate(r)
  <2>. PICK s \in Sessions, op \in ByAccount \cup ByEither :
          session[s] = "live" /\ req' = [req EXCEPT ![r].op = op, ![r].session = s]
    BY <1>1 DEF Gate
  <2>1. req'[r].items = req[r].items /\ req'[r].session = s
    BY DEF TypeOK, Request
  <2>. QED  BY <1>1, <2>1 DEF Gate, Moves, TypeOK, Acted, rows, history
<1>2. CASE LookForSessions(r)
  <2>1. req'[r].items = req[r].items /\ req'[r].session = req[r].session
    BY <1>2 DEF LookForSessions, TypeOK, Request
  <2>. QED  BY <1>2, <2>1 DEF LookForSessions, Moves, TypeOK, Acted, rows, history
<1>3. CASE Fail(r)
  BY <1>3 DEF Fail, Moves, TypeOK, Acted, rows, NoRequest
<1>. QED
  BY <1>1, <1>2, <1>3 DEF Preparing

\* Who looks for sessions keeps what it has read.
LEMMA LookingHistory ==
    ASSUME TypeOK, NEW r \in Requests, LookForSessions(r)
    PROVE  /\ pc[r] = "read" /\ Op(r) \in Changes /\ ~Held(r) /\ Flushes(Op(r))
           /\ UNCHANGED history
           /\ Op(r)' = Op(r) /\ req'[r].items = req[r].items /\ req'[r].session = req[r].session
           /\ req'[r].saw = req[r].saw /\ req'[r].named = req[r].named
           /\ req'[r].found = Others(req[r].session)
BY DEF LookForSessions, TypeOK, Request, Op, history

LEMMA ReadingHistory ==
    ASSUME TypeOK, NEW r \in Requests, Reading(r)
    PROVE  /\ UNCHANGED <<rows, during, late>>
           /\ ~Acted(r) /\ pc'[r] = "read" /\ Admits(Op(r)')
           /\ \A q \in Requests : Acted(q)' = Acted(q)
           /\ \A q \in Requests \ {r} : pc'[q] = pc[q] /\ req'[q] = req[q] /\ before'[q] = before[q]
           /\ before'[r] = ActedSoFar
           /\ req'[r].items \in Takes(Op(r)') /\ req'[r].saw = cred /\ req'[r].named = user.named
           /\ req'[r].session \in {None, req[r].session}
           /\ Op(r)' \in Ops \cup {None}
<1>. PICK op \in Ops \cup {None}, s \in {None, req[r].session} : Reads(r, op, s)
  BY DEF Reading
<1>1. PICK items \in Takes(op) :
          req' = [req EXCEPT ![r] = [op |-> op, session |-> s, items |-> items,
                                     saw |-> cred, named |-> user.named, found |-> {}]]
  BY DEF Reads
<1>2. req'[r] = [op |-> op, session |-> s, items |-> items,
                 saw |-> cred, named |-> user.named, found |-> {}]
  BY <1>1 DEF TypeOK
<1>3. Op(r)' = op
  BY <1>2 DEF Op
<1>4. req'[r].items = items /\ req'[r].saw = cred /\ req'[r].named = user.named /\ req'[r].session = s
  BY <1>2
<1>. QED
  BY <1>1, <1>3, <1>4 DEF Reading, Reads, Moves, Acted, TypeOK

LEMMA ActingHistory ==
    ASSUME TypeOK, NEW r \in Requests, Acting(r)
    PROVE  /\ UNCHANGED <<req, before>>
           /\ pc[r] = (IF Op(r) \in Changes THEN "revoking" ELSE "read")
           /\ Pending(r) /\ ~Acted(r) /\ Acted(r)'
           /\ \A q \in Requests \ {r} : Acted(q)' = Acted(q) /\ pc'[q] = pc[q]
           /\ \A q \in Requests : during[q] \subseteq during'[q] /\ during'[q] \subseteq during[q] \cup {r}
           /\ \A q \in Requests \ {r} : Pending(q) => r \in during'[q]
           /\ \A q \in Requests : late[q] \subseteq late'[q]
           /\ \A q \in Requests \ {r} : pc[q] = "revoking" => r \in late'[q]
BY DEF Acting, Acts, Moves, Acted, Pending, TypeOK

\* What an act does to one session ...
LEMMA SessionShape ==
    ASSUME TypeOK, NEW r \in Requests, Acting(r), NEW s \in Sessions
    PROVE  \/ session'[s] = session[s]
           \/ session'[s] = "ended" /\ s \in req[r].found
           \/ session'[s] = "ended" /\ Op(r) = "logout" /\ s = req[r].session
           \/ session'[s] = "live" /\ s = r /\ Op(r) \in {"login", "verify"}
<1>1. CASE session' = session
  BY <1>1
<1>2. CASE Op(r) \in {"login", "verify"} /\ session' = [session EXCEPT ![r] = "live"]
  BY <1>2 DEF TypeOK
<1>3. CASE Op(r) = "logout" /\ session' = [session EXCEPT ![req[r].session] = "ended"]
  BY <1>3 DEF TypeOK
<1>4. CASE session' = Revoked(r)
  BY <1>4 DEF Revoked
<1>. QED
  BY <1>1, <1>2, <1>3, <1>4 DEF Acting, ActsOnSession

\* ... and to one thing that works once.
LEMMA ItemShape ==
    ASSUME TypeOK, NEW r \in Requests, Acting(r), NEW i \in Items
    PROVE  \/ item'[i] = item[i]
           \/ item'[i] = "gone" /\ item[i] # "none"
           \/ item'[i] = "spent" /\ i \in req[r].items
           \/ /\ item'[i] = "fresh" /\ i[2] = r
              /\ i[1] = "reset" => Op(r) = "forgot"
              /\ i[1] = "invite" => Op(r) = "invite"
<1>1. Spent(r) = [j \in Items |-> IF j \in req[r].items THEN "spent" ELSE item[j]]
  BY DEF Spent, Becomes
<1>2. NoRecoveryCodes = [j \in Items |-> IF j[1] = "recovery" /\ item[j] # "none" THEN "gone" ELSE item[j]]
  BY DEF NoRecoveryCodes, Becomes
<1>3. \A kind \in Kinds : <<kind, r>> \in Items
  BY DEF Items, Makers
<1>4. CASE item' = Spent(r)
  BY <1>1, <1>4
<1>5. CASE item' = NoRecoveryCodes
  BY <1>2, <1>5
<1>6. ASSUME NEW kind \in Kinds, item' = Issued(r, kind), i # <<kind, r>>
      PROVE  item'[i] = item[i] \/ (item'[i] = "spent" /\ i \in req[r].items)
  BY <1>1, <1>6 DEF Issued
<1>7. ASSUME NEW kind \in Kinds, item' = Issued(r, kind), i = <<kind, r>>
      PROVE  item'[i] = "fresh" /\ i[2] = r /\ i[1] = kind
  BY <1>1, <1>3, <1>7 DEF Issued
<1>8. CASE item' = [NoRecoveryCodes EXCEPT ![<<"recovery", r>>] = "fresh"] /\ i # <<"recovery", r>>
  BY <1>2, <1>8
<1>9. CASE item' = [NoRecoveryCodes EXCEPT ![<<"recovery", r>>] = "fresh"] /\ i = <<"recovery", r>>
  <2>1. item'[i] = "fresh"
    BY <1>2, <1>9
  <2>2. i[2] = r /\ i[1] = "recovery"
    BY <1>9
  <2>. QED  BY <2>1, <2>2
<1>10. {"challenge", "reset", "invite"} \subseteq Kinds
  BY DEF Kinds
<1>. QED
  <2>. SUFFICES ASSUME NEW kind \in Kinds,
                       item' = Issued(r, kind) /\ (kind = "reset" => Op(r) = "forgot")
                                               /\ (kind = "invite" => Op(r) = "invite")
                PROVE  \/ item'[i] = item[i]
                       \/ item'[i] = "spent" /\ i \in req[r].items
                       \/ /\ item'[i] = "fresh" /\ i[2] = r
                          /\ i[1] = "reset" => Op(r) = "forgot"
                          /\ i[1] = "invite" => Op(r) = "invite"
    BY <1>4, <1>5, <1>8, <1>9, <1>10 DEF Acting, ActsOnItem
  <2>. QED  BY <1>6, <1>7

\* What has acted when a request reads or acts is known to its history; and a
\* session or a one-time thing comes from the request it is named after.
HistoryInv ==
    /\ \A r \in Requests : before[r] \cup during[r] \subseteq ActedSoFar
    /\ \A q, r \in Requests : Pending(r) /\ Acted(q) => q \in before[r] \cup during[r]
    /\ \A s \in Requests : session[s] # "none" => Acted(s) /\ Op(s) \in {"login", "verify"}
    /\ \A i \in Items : i[2] \in Requests /\ item[i] # "none" =>
          /\ Acted(i[2])
          /\ i[1] = "reset" => Op(i[2]) = "forgot"
          /\ i[1] = "invite" => Op(i[2]) = "invite"
    /\ \A r \in Requests : \A i \in req[r].items : item[i] # "none"
    /\ \A r \in Requests : req[r].session # None => session[req[r].session] # "none"
    /\ \A r \in Requests : \A s \in req[r].found : session[s] # "none"
    /\ cred.secret \in Requests => Acted(cred.secret)

LEMMA HistoryInit == Init => HistoryInv
<1>. USE NameAssumption
<1>. SUFFICES ASSUME Init PROVE HistoryInv
  OBVIOUS
<1>1. \A s \in Requests : session[s] = "none"
  BY DEF Init, Sessions, Makers
<1>2. \A i \in Items : i[2] \in Requests => item[i] = "none"
  BY DEF Init
<1>3. \A r \in Requests : ~Acted(r) /\ before[r] = {} /\ during[r] = {} /\ pc[r] = "new" /\ req[r].items = {}
  BY DEF Init, Acted, NoRequest
<1>. QED
  <2>1. \A r \in Requests : req[r].session = None /\ req[r].found = {}
    BY DEF Init, NoRequest
  <2>2. cred.secret \notin Requests
    BY DEF Init, NoCredential, Credential
  <2>. QED  BY <1>1, <1>2, <1>3, <2>1, <2>2 DEF HistoryInv, ActedSoFar, Pending

LEMMA HistoryStep == ASSUME TypeOK, HistoryInv, [Next]_vars PROVE HistoryInv'
<1>. USE DEF HistoryInv, ActedSoFar
<1>1. ASSUME NEW r \in Requests, Preparing(r) PROVE HistoryInv'
  <2>1. \A q \in Requests : before'[q] \cup during'[q] \subseteq ActedSoFar'
    BY <1>1, PreparingHistory
  <2>2. \A q, p \in Requests : Pending(p)' /\ Acted(q)' => q \in before'[p] \cup during'[p]
    <3>1. \A p \in Requests : Pending(p)' =>
             Pending(p) /\ before'[p] = before[p] /\ during'[p] = during[p]
      BY <1>1, PreparingHistory, LookingHistory DEF Pending, history
    <3>. QED  BY <1>1, <3>1, PreparingHistory
  <2>3. \A q \in Requests : Acted(q) => Op(q)' = Op(q)
    BY <1>1, PreparingHistory DEF Op
  <2>4. \A q \in Requests : \A i \in req'[q].items : item'[i] # "none"
    BY <1>1, PreparingHistory DEF rows
  <2>5. \A q \in Requests : req'[q].session # None => session'[req'[q].session] # "none"
    BY <1>1, PreparingHistory DEF rows
  <2>6. \A q \in Requests : \A s \in req'[q].found : session'[s] # "none"
    <3>. SUFFICES ASSUME NEW s \in req'[r].found PROVE session'[s] # "none"
      BY <1>1, PreparingHistory DEF rows
    <3>1. CASE Gate(r)
      <4>1. req'[r].found = req[r].found
        BY <3>1 DEF Gate, TypeOK, Request
      <4>. QED  BY <1>1, <4>1, PreparingHistory DEF rows
    <3>2. CASE LookForSessions(r)
      BY <1>1, <3>2, PreparingHistory, LookingHistory DEF Others, rows
    <3>3. CASE Fail(r)
      BY <3>3 DEF Fail, TypeOK, NoRequest
    <3>. QED  BY <1>1, <3>1, <3>2, <3>3 DEF Preparing
  <2>. QED  BY <1>1, <2>1, <2>2, <2>3, <2>4, <2>5, <2>6, PreparingHistory DEF rows
<1>2. ASSUME NEW r \in Requests, Reading(r) PROVE HistoryInv'
  <2>1. \A i \in req'[r].items : item[i] = "fresh"
    BY <1>2, ReadingHistory, TakenIsFresh
  <2>2. \A q \in Requests : \A i \in req'[q].items : item'[i] # "none"
    BY <1>2, <2>1, ReadingHistory DEF rows
  <2>3. \A i \in Items : i[2] \in Requests /\ item'[i] # "none" =>
          /\ Acted(i[2])'
          /\ i[1] = "reset" => Op(i[2])' = "forgot"
          /\ i[1] = "invite" => Op(i[2])' = "invite"
    BY <1>2, ReadingHistory DEF rows, Op
  <2>4. \A s \in Requests : session'[s] # "none" => Acted(s)' /\ Op(s)' \in {"login", "verify"}
    BY <1>2, ReadingHistory DEF rows, Op
  <2>5. \A q \in Requests : before'[q] \cup during'[q] \subseteq ActedSoFar'
    BY <1>2, ReadingHistory
  <2>6. \A q, p \in Requests : Pending(p)' /\ Acted(q)' => q \in before'[p] \cup during'[p]
    BY <1>2, ReadingHistory DEF Pending
  <2>7. \A q \in Requests : req'[q].session # None => session'[req'[q].session] # "none"
    BY <1>2, ReadingHistory DEF rows
  <2>8. \A q \in Requests : \A s \in req'[q].found : session'[s] # "none"
    <3>1. req'[r].found = {}
      BY <1>2 DEF Reading, Reads, TypeOK
    <3>. QED  BY <1>2, <3>1, ReadingHistory DEF rows
  <2>9. cred' = cred /\ \A q \in Requests : Acted(q)' = Acted(q)
    BY <1>2, ReadingHistory DEF rows
  <2>. QED  BY <2>2, <2>3, <2>4, <2>5, <2>6, <2>7, <2>8, <2>9
<1>3. ASSUME NEW r \in Requests, Acting(r) PROVE HistoryInv'
  <2>1. \A q \in Requests : before'[q] \cup during'[q] \subseteq ActedSoFar'
    BY <1>3, ActingHistory
  <2>2. \A q, p \in Requests : Pending(p)' /\ Acted(q)' => q \in before'[p] \cup during'[p]
    <3>. TAKE q, p \in Requests
    <3>. HAVE Pending(p)' /\ Acted(q)'
    <3>1. p # r /\ Pending(p)
      BY <1>3, ActingHistory DEF Acted, Pending
    <3>2. CASE q = r
      BY <1>3, <3>1, <3>2, ActingHistory
    <3>3. CASE q # r
      BY <1>3, <3>1, <3>3, ActingHistory
    <3>. QED  BY <3>2, <3>3
  <2>3. \A s \in Requests : session'[s] # "none" => Acted(s)' /\ Op(s)' \in {"login", "verify"}
    <3>. TAKE s \in Requests
    <3>. HAVE session'[s] # "none"
    <3>1. s \in Sessions
      BY DEF Sessions, Makers
    <3>2. CASE session[s] # "none"
      BY <1>3, <3>2, ActingHistory DEF Op
    <3>3. CASE session[s] = "none" /\ s = r /\ Op(r) \in {"login", "verify"}
      BY <1>3, <3>3, ActingHistory DEF Op
    <3>. QED  BY <1>3, <3>1, <3>2, <3>3, NameAssumption, SessionShape DEF Sessions, Makers
  <2>4. \A q \in Requests : \A i \in req'[q].items : item'[i] # "none"
    <3>1. \A q \in Requests : req'[q].items = req[q].items /\ req[q].items \subseteq Items
      BY <1>3, ActingHistory DEF TypeOK, Request
    <3>. QED  BY <1>3, <3>1, ItemShape
  <2>5. ASSUME NEW i \in Items, i[2] \in Requests, item'[i] # "none"
        PROVE  /\ Acted(i[2])'
               /\ i[1] = "reset" => Op(i[2])' = "forgot"
               /\ i[1] = "invite" => Op(i[2])' = "invite"
    <3>1. CASE item[i] # "none"
      BY <1>3, <2>5, <3>1, ActingHistory DEF Op
    <3>2. CASE item[i] = "none"
      BY <1>3, <2>5, <3>2, ActingHistory, ItemShape DEF Op
    <3>. QED  BY <3>1, <3>2
  <2>6. \A q \in Requests : req'[q].session # None => session'[req'[q].session] # "none"
    <3>1. \A q \in Requests : req'[q].session = req[q].session /\ req[q].session \in Sessions \cup {None}
      BY <1>3, ActingHistory DEF TypeOK, Request
    <3>. QED  BY <1>3, <3>1, SessionShape
  <2>7. \A q \in Requests : \A s \in req'[q].found : session'[s] # "none"
    <3>1. \A q \in Requests : req'[q].found = req[q].found /\ req[q].found \subseteq Sessions
      BY <1>3, ActingHistory DEF TypeOK, Request
    <3>. QED  BY <1>3, <3>1, SessionShape
  <2>8. (cred.secret \in Requests => Acted(cred.secret))'
    <3>1. cred'.secret \in {cred.secret, None, r}
      BY <1>3 DEF Acting, ActsOnCred, NoCredential, TypeOK, Credential
    <3>2. \A q \in Requests : (cred'.secret = q => cred.secret = q \/ q = r) /\ (Acted(q) => Acted(q)')
      BY <1>3, <3>1, ActingHistory, NameAssumption
    <3>3. \A q \in Requests : cred'.secret = q => Acted(q)'
      BY <1>3, <3>2, ActingHistory
    <3>. QED  BY <3>3 DEF Acted
  <2>. QED  BY <2>1, <2>2, <2>3, <2>4, <2>5, <2>6, <2>7, <2>8
<1>4. CASE Idling
  <2>1. \A s \in Sessions : (session'[s] = "none") = (session[s] = "none")
    BY <1>4 DEF Idling, TypeOK
  <2>2. /\ Requests \subseteq Sessions
        /\ \A r \in Requests : req[r].session \in Sessions \cup {None} /\ req[r].found \subseteq Sessions
    BY DEF Sessions, Makers, TypeOK, Request
  <2>3. \A r \in Requests : Pending(r)' => Pending(r)
    BY <1>4 DEF Idling, Pending
  <2>4. UNCHANGED <<cred, item, req, before, during>> /\ \A q \in Requests : Acted(q)' = Acted(q)
    BY <1>4 DEF Idling, history
  <2>5. \A r \in Requests : req'[r].session # None => session'[req'[r].session] # "none"
    BY <2>1, <2>2, <2>4
  <2>6. \A r \in Requests : \A s \in req'[r].found : session'[s] # "none"
    BY <2>1, <2>2, <2>4
  <2>7. \A s \in Requests : session'[s] # "none" => Acted(s)' /\ Op(s)' \in {"login", "verify"}
    BY <2>1, <2>2, <2>4 DEF Op
  <2>8. \A q \in Requests : before'[q] \cup during'[q] \subseteq ActedSoFar'
    BY <2>4
  <2>9. \A q, p \in Requests : Pending(p)' /\ Acted(q)' => q \in before'[p] \cup during'[p]
    BY <2>3, <2>4
  <2>10. \A i \in Items : i[2] \in Requests /\ item'[i] # "none" =>
            /\ Acted(i[2])'
            /\ i[1] = "reset" => Op(i[2])' = "forgot"
            /\ i[1] = "invite" => Op(i[2])' = "invite"
    BY <2>4 DEF Op
  <2>11. \A q \in Requests : \A i \in req'[q].items : item'[i] # "none"
    BY <2>4
  <2>12. (cred.secret \in Requests => Acted(cred.secret))'
    BY <2>4 DEF Acted
  <2>. QED  BY <2>5, <2>6, <2>7, <2>8, <2>9, <2>10, <2>11, <2>12
<1>. QED
  BY <1>1, <1>2, <1>3, <1>4, StepShape DEF Shape

LEMMA HistoryHolds == Spec => [](TypeOK /\ HistoryInv)
<1>. QED
  BY TypeInit, TypeStep, HistoryInit, HistoryStep, PTL DEF Spec

\* What is known of a request that has acted does not change ...
LEMMA ActedIsPast ==
    ASSUME TypeOK, [Next]_vars, NEW q \in Requests, Acted(q)
    PROVE  /\ Acted(q)' /\ req'[q] = req[q] /\ before'[q] = before[q]
           /\ during[q] \subseteq during'[q] /\ late[q] \subseteq late'[q]
<1>. DEFINE Past == /\ Acted(q)' /\ req'[q] = req[q] /\ before'[q] = before[q]
                    /\ during[q] \subseteq during'[q] /\ late[q] \subseteq late'[q]
<1>1. ASSUME NEW r \in Requests, Preparing(r) PROVE Past
  <2>1. q # r
    BY <1>1, PreparingHistory
  <2>. QED  BY <1>1, <2>1, PreparingHistory
<1>2. ASSUME NEW r \in Requests, Reading(r) PROVE Past
  <2>1. q # r
    BY <1>2, ReadingHistory
  <2>. QED  BY <1>2, <2>1, ReadingHistory
<1>3. ASSUME NEW r \in Requests, Acting(r) PROVE Past
  <2>1. q # r
    BY <1>3, ActingHistory
  <2>. QED  BY <1>3, <2>1, ActingHistory
<1>4. CASE Idling
  BY <1>4 DEF Idling, history
<1>. QED
  BY <1>1, <1>2, <1>3, <1>4, StepShape DEF Shape

\* ... nor what a request had read, until it acts or is given up.
LEMMA PendingIsPast ==
    ASSUME TypeOK, [Next]_vars, NEW q \in Requests, Pending(q)', ~Reading(q)
    PROVE  /\ Pending(q) /\ (pc'[q] = "read" => pc[q] = "read")
           /\ Op(q)' = Op(q) /\ req'[q].items = req[q].items
           /\ req'[q].saw = req[q].saw /\ req'[q].named = req[q].named
           /\ before'[q] = before[q] /\ during[q] \subseteq during'[q]
<1>1. CASE Preparing(q)
  <2>1. LookForSessions(q)
    BY <1>1, PreparingHistory DEF Pending
  <2>2. pc'[q] = "revoking"
    BY <1>1, PreparingHistory DEF Pending
  <2>3. before'[q] = before[q] /\ during'[q] = during[q]
    BY <2>1, LookingHistory DEF history
  <2>. QED  BY <2>1, <2>2, <2>3, LookingHistory DEF Pending
<1>2. ASSUME NEW r \in Requests \ {q}, Preparing(r) \/ Reading(r)
      PROVE  pc'[q] = pc[q] /\ req'[q] = req[q] /\ before'[q] = before[q] /\ during'[q] = during[q]
  <2>1. CASE Preparing(r)
    BY <2>1, PreparingHistory
  <2>2. CASE Reading(r)
    BY <2>2, ReadingHistory
  <2>. QED  BY <1>2, <2>1, <2>2
<1>3. ASSUME NEW r \in Requests, Acting(r)
      PROVE  /\ pc'[q] = pc[q] /\ req'[q] = req[q] /\ before'[q] = before[q]
             /\ during[q] \subseteq during'[q]
  <2>1. q # r
    BY <1>3, ActingHistory DEF Pending, Acted
  <2>. QED  BY <1>3, <2>1, ActingHistory
<1>4. CASE Idling
  BY <1>4 DEF Idling, Op, Pending, history
<1>5. ASSUME NEW r \in Requests, Preparing(r) \/ Reading(r), r # q
      PROVE  pc'[q] = pc[q] /\ req'[q] = req[q] /\ before'[q] = before[q] /\ during'[q] = during[q]
  BY <1>2, <1>5
<1>6. CASE \E r \in Requests : (Preparing(r) \/ Reading(r)) /\ r # q
  BY <1>5, <1>6 DEF Op, Pending
<1>7. CASE \E r \in Requests : Acting(r)
  BY <1>3, <1>7 DEF Op, Pending
<1>. QED
  BY <1>1, <1>4, <1>6, <1>7, StepShape DEF Shape

-----------------------------------------------------------------------------
(* Sessions                                                                *)

\* A session that was revoked never works again, for any number of requests
\* that use it meanwhile.
THEOREM RevokedForGood == Spec => EndedStaysEnded
<1>1. ASSUME TypeOK, HistoryInv, [Next]_vars, NEW s \in Sessions, session[s] = "ended"
      PROVE  session'[s] = "ended"
  <2>1. ASSUME NEW r \in Requests, Acting(r) PROVE session'[s] = "ended"
    BY <1>1, <2>1, SessionShape, ActingHistory DEF HistoryInv
  <2>2. ASSUME NEW r \in Requests, Preparing(r) \/ Reading(r) PROVE session'[s] = "ended"
    BY <1>1, <2>2, PreparingHistory, ReadingHistory DEF rows
  <2>3. CASE Idling
    BY <1>1, <2>3 DEF Idling, TypeOK
  <2>. QED  BY <1>1, <2>1, <2>2, <2>3, StepShape DEF Shape
<1>2. ASSUME TypeOK, HistoryInv, [Next]_vars
      PROVE  \A s \in Sessions : session[s] = "ended" => session'[s] = "ended"
  BY <1>1, <1>2
<1>. QED
  BY <1>2, HistoryHolds, PTL DEF Spec, EndedStaysEnded

\* Between its look and its commit, what is alive and was not found is the
\* session it came from or was made since.
FoundInv ==
    \A q \in Requests, s \in Sessions :
        pc[q] = "revoking" /\ session[s] = "live" /\ s \notin req[q].found =>
            s = req[q].session \/ (s \in Requests /\ s \in late[q])

LEMMA FoundStep == ASSUME TypeOK, HistoryInv, FoundInv, [Next]_vars PROVE FoundInv'
<1>. SUFFICES ASSUME NEW q \in Requests, NEW s \in Sessions,
                     pc'[q] = "revoking", session'[s] = "live", s \notin req'[q].found
              PROVE  s = req'[q].session \/ (s \in Requests /\ s \in late'[q])
  BY DEF FoundInv
<1>. DEFINE Meanwhile == s = req[q].session \/ (s \in Requests /\ s \in late[q])
<1>1. CASE Preparing(q)
  <2>1. session[s] = "live" /\ s \notin Others(req[q].session) /\ req'[q].session = req[q].session
    BY <1>1, PreparingHistory, LookingHistory DEF rows
  <2>. QED  BY <2>1 DEF Others
<1>2. ASSUME NEW r \in Requests, r # q, Preparing(r) \/ Reading(r)
      PROVE  s = req'[q].session \/ (s \in Requests /\ s \in late'[q])
  <2>1. /\ pc'[q] = pc[q] /\ req'[q] = req[q] /\ late'[q] = late[q] /\ session' = session
    <3>1. CASE Preparing(r)
      BY <1>2, <3>1, PreparingHistory DEF rows
    <3>2. CASE Reading(r)
      BY <1>2, <3>2, ReadingHistory DEF rows
    <3>. QED  BY <1>2, <3>1, <3>2
  <2>2. Meanwhile
    BY <2>1 DEF FoundInv
  <2>. QED  BY <2>1, <2>2
<1>3. ~Reading(q)
  BY ReadingHistory
<1>4. ASSUME NEW r \in Requests, Acting(r)
      PROVE  s = req'[q].session \/ (s \in Requests /\ s \in late'[q])
  <2>1. q # r /\ pc[q] = "revoking" /\ req'[q] = req[q] /\ late[q] \subseteq late'[q] /\ r \in late'[q]
    BY <1>4, ActingHistory DEF Acted
  <2>2. CASE session[s] = "live"
    BY <2>1, <2>2 DEF FoundInv
  <2>3. CASE session[s] # "live"
    BY <1>4, <2>1, <2>3, SessionShape
  <2>. QED  BY <2>2, <2>3
<1>5. CASE Idling
  <2>1. pc[q] = "revoking" /\ session[s] = "live" /\ req' = req /\ late' = late
    BY <1>5 DEF Idling, history, TypeOK
  <2>. QED  BY <2>1 DEF FoundInv
<1>. QED
  BY <1>1, <1>2, <1>3, <1>4, <1>5, StepShape DEF Shape

LEMMA SessionsStep ==
    ASSUME TypeOK, HistoryInv, FoundInv, SessionsAreExplained, [Next]_vars
    PROVE  SessionsAreExplained'
<1>. SUFFICES ASSUME NEW s \in Sessions, NEW q \in Requests,
                     Acted(q)', Op(q)' \in Changes, session'[s] = "live"
              PROVE  \/ s = req'[q].session
                     \/ s \in Requests /\ (q \in before'[s] \cup during'[s] \/ s \in late'[q])
  BY DEF SessionsAreExplained, Changers, Missed
<1>. DEFINE Explained == \/ s = req[q].session
                         \/ s \in Requests /\ (q \in before[s] \cup during[s] \/ s \in late[q])
<1>1. ASSUME Acted(q), session[s] = "live" PROVE Explained
  <2>1. Op(q) \in Changes
    BY <1>1, ActedIsPast DEF Op
  <2>. QED  BY <1>1, <2>1 DEF SessionsAreExplained, Changers, Missed
<1>2. ASSUME Acted(q), session[s] = "live"
      PROVE  \/ s = req'[q].session
             \/ s \in Requests /\ (q \in before'[s] \cup during'[s] \/ s \in late'[q])
  <2>1. s \in Requests => Acted(s)
    BY <1>2 DEF HistoryInv
  <2>2. req'[q] = req[q] /\ late[q] \subseteq late'[q]
    BY <1>2, ActedIsPast
  <2>3. s \in Requests => before'[s] = before[s] /\ during[s] \subseteq during'[s]
    BY <2>1, ActedIsPast
  <2>. QED  BY <1>1, <1>2, <2>2, <2>3
<1>3. ASSUME NEW r \in Requests, Acting(r)
      PROVE  \/ s = req'[q].session
             \/ s \in Requests /\ (q \in before'[s] \cup during'[s] \/ s \in late'[q])
  <2>1. CASE q = r
    <3>1. Op(r) \in Changes /\ req'[q] = req[r] /\ late[r] \subseteq late'[r] /\ pc[r] = "revoking"
      BY <1>3, <2>1, ActingHistory DEF Op
    <3>2. session' = Revoked(r)
      BY <1>3, <3>1 DEF Acting, ActsOnSession, Changes
    <3>3. session[s] = "live" /\ s \notin req[r].found
      BY <3>2 DEF Revoked
    <3>. QED  BY <2>1, <3>1, <3>3 DEF FoundInv
  <2>2. CASE q # r /\ session[s] = "live"
    BY <1>2, <1>3, <2>2, ActingHistory
  <2>3. CASE q # r /\ session[s] # "live"
    <3>1. s = r
      BY <1>3, <2>3, SessionShape
    <3>2. Acted(q)
      BY <1>3, <2>3, ActingHistory
    <3>3. q \in before[r] \cup during[r]
      BY <1>3, <3>2, ActingHistory DEF HistoryInv
    <3>. QED  BY <1>3, <3>1, <3>3, ActingHistory
  <2>. QED  BY <2>1, <2>2, <2>3
<1>4. ASSUME NEW r \in Requests, Preparing(r) \/ Reading(r) PROVE Acted(q) /\ session[s] = "live"
  BY <1>4, PreparingHistory, ReadingHistory DEF rows
<1>5. ASSUME Idling PROVE Acted(q) /\ session[s] = "live"
  BY <1>5 DEF Idling, TypeOK
<1>. QED
  BY <1>2, <1>3, <1>4, <1>5, StepShape DEF Shape

\* After a change of the password, the second factor, a role or the status, for
\* any number of requests, no session is left but the one it was made from, those
\* of logins that had the account read before it, and those of logins that answered
\* between its look at the sessions and its commit.
THEOREM ChangesEndSessions == Spec => []SessionsAreExplained
<1>1. Init => SessionsAreExplained /\ FoundInv
  BY DEF Init, SessionsAreExplained, FoundInv, Changers, Acted
<1>. QED
  BY <1>1, FoundStep, SessionsStep, HistoryHolds, PTL DEF Spec

-----------------------------------------------------------------------------
(* Links, challenges, codes and invitations                                *)

Issues(kind) == IF kind = "reset" THEN "forgot" ELSE "invite"
Links == {"reset", "invite"}

\* What was used stays used; who reads later takes other things in hand; and who
\* issues a link knows the older ones, and ends them.
LinksInv ==
    /\ \A q \in Requests : Acted(q) /\ Op(q) \in Uses => \A i \in req[q].items : item[i] # "fresh"
    /\ \A q, r \in Requests :
          /\ q \in before[r] /\ Op(q) \in Uses
          /\ Pending(r) \/ Acted(r)
          => req[q].items \cap req[r].items = {}
    /\ \A kind \in Links, q, r \in Requests :
          pc[r] = "read" /\ Op(r) = Issues(kind) /\ q \in before[r] /\ item[<<kind, q>>] = "fresh"
          => <<kind, q>> \in req[r].items
    /\ \A kind \in Links, q, r \in Requests :
          Acted(r) /\ Op(r) = Issues(kind) /\ q \in before[r] => item[<<kind, q>>] # "fresh"

\* What is handed in is spent.
LEMMA HandedIn ==
    ASSUME TypeOK, NEW r \in Requests, Acting(r), Op(r) \in Uses \cup {"forgot", "invite"},
           NEW i \in Items, i \in req[r].items, i[2] # r
    PROVE  item'[i] = "spent"
<1>1. Spent(r) = [j \in Items |-> IF j \in req[r].items THEN "spent" ELSE item[j]]
  BY DEF Spent, Becomes
<1>2. ASSUME NEW kind, item' = Issued(r, kind) PROVE item'[i] = "spent"
  <2>1. i # <<kind, r>>
    OBVIOUS
  <2>. QED  BY <1>1, <1>2, <2>1 DEF Issued
<1>3. item' = Spent(r) => item'[i] = "spent"
  BY <1>1
<1>. QED
  BY <1>2, <1>3 DEF Acting, ActsOnItem, Uses

\* Only what the acting request makes becomes fresh.
LEMMA StaysUsed ==
    ASSUME TypeOK, HistoryInv, [Next]_vars, NEW i \in Items, item[i] # "fresh",
           item[i] # "none" \/ (i[2] \in Requests /\ Acted(i[2]))
    PROVE  item'[i] # "fresh"
<1>1. ASSUME NEW r \in Requests, Acting(r) PROVE item'[i] # "fresh"
  BY <1>1, ItemShape, ActingHistory DEF HistoryInv
<1>2. ASSUME NEW r \in Requests, Preparing(r) \/ Reading(r) PROVE item' = item
  BY <1>2, PreparingHistory, ReadingHistory DEF rows
<1>. QED
  BY <1>1, <1>2, StepShape DEF Shape, Idling

LEMMA LinksStep == ASSUME TypeOK, HistoryInv, LinksInv, [Next]_vars PROVE LinksInv'
<1>0. \A q \in Requests : req[q].items \subseteq Items
  BY DEF TypeOK, Request
<1>1. ASSUME NEW q \in Requests, Acted(q)', Op(q)' \in Uses, NEW i \in req'[q].items
      PROVE  item'[i] # "fresh"
  <2>1. CASE Acted(q)
    <3>1. Op(q) \in Uses /\ i \in req[q].items
      BY <1>1, <2>1, ActedIsPast DEF Op
    <3>2. item[i] # "fresh" /\ item[i] # "none" /\ i \in Items
      BY <2>1, <3>1, <1>0 DEF LinksInv, HistoryInv
    <3>. QED  BY <3>2, StaysUsed
  <2>2. CASE ~Acted(q)
    <3>1. Acting(q)
      BY <1>1, <2>2, PreparingHistory, ReadingHistory, ActingHistory, StepShape DEF Shape, Idling
    <3>2. Op(q) \in Uses /\ i \in req[q].items /\ i \in Items
      BY <1>1, <3>1, <1>0, ActingHistory DEF Op
    <3>3. i[2] # q
      BY <2>2, <3>2 DEF HistoryInv
    <3>. QED  BY <3>1, <3>2, <3>3, HandedIn
  <2>. QED  BY <2>1, <2>2
<1>2. ASSUME NEW q \in Requests, NEW r \in Requests, q \in before'[r], Op(q)' \in Uses,
             Pending(r)' \/ Acted(r)'
      PROVE  req'[q].items \cap req'[r].items = {}
  <2>1. CASE Reading(r)
    <3>1. Acted(q) /\ q # r
      BY <1>2, <2>1, ReadingHistory DEF ActedSoFar
    <3>2. req'[q] = req[q] /\ Op(q) \in Uses
      BY <1>2, <3>1, ActedIsPast DEF Op
    <3>3. \A i \in req[q].items : item[i] # "fresh"
      BY <3>1, <3>2 DEF LinksInv
    <3>4. \A i \in req'[r].items : item[i] = "fresh"
      BY <2>1, ReadingHistory, TakenIsFresh
    <3>. QED  BY <3>2, <3>3, <3>4
  <2>2. CASE ~Reading(r)
    <3>1. /\ req'[r].items = req[r].items /\ before'[r] = before[r]
          /\ Pending(r) \/ Acted(r)
      <4>1. CASE Acted(r)
        BY <4>1, ActedIsPast
      <4>2. CASE Pending(r)'
        BY <2>2, <4>2, PendingIsPast
      <4>3. CASE ~Acted(r) /\ Acted(r)'
        <5>1. Acting(r)
          BY <4>3, PreparingHistory, ReadingHistory, ActingHistory, StepShape DEF Shape, Idling
        <5>. QED  BY <5>1, ActingHistory
      <4>. QED  BY <1>2, <4>1, <4>2, <4>3
    <3>2. Acted(q)
      BY <1>2, <3>1 DEF HistoryInv, ActedSoFar
    <3>3. req'[q] = req[q] /\ Op(q) \in Uses
      BY <1>2, <3>2, ActedIsPast DEF Op
    <3>. QED  BY <1>2, <3>1, <3>3 DEF LinksInv
  <2>. QED  BY <2>1, <2>2
<1>3. ASSUME NEW kind \in Links, NEW q \in Requests, NEW r \in Requests,
             pc'[r] = "read", Op(r)' = Issues(kind), q \in before'[r], item'[<<kind, q>>] = "fresh"
      PROVE  <<kind, q>> \in req'[r].items
  <2>. <<kind, q>> \in Items /\ <<kind, q>>[2] = q /\ <<kind, q>>[1] = kind
    BY <1>3 DEF Items, Links, Kinds, Makers
  <2>1. CASE Reading(r)
    <3>1. item' = item
      BY <2>1, ReadingHistory DEF rows
    <3>2. Takes(Op(r)') = {Fresh(kind)}
      BY <1>3 DEF Takes, LinkOf, Issues, Links
    <3>3. req'[r].items = Fresh(kind)
      BY <2>1, <3>2, ReadingHistory
    <3>. QED  BY <1>3, <3>1, <3>3 DEF Fresh
  <2>2. CASE ~Reading(r)
    <3>1. /\ Op(r)' = Op(r) /\ req'[r].items = req[r].items /\ before'[r] = before[r]
          /\ pc[r] = "read"
      BY <1>3, <2>2, PendingIsPast DEF Pending
    <3>2. Acted(q)
      BY <1>3, <3>1 DEF HistoryInv, ActedSoFar
    <3>3. item[<<kind, q>>] = "fresh"
      BY <1>3, <3>2, StaysUsed
    <3>. QED  BY <1>3, <3>1, <3>3 DEF LinksInv, Op
  <2>. QED  BY <2>1, <2>2
<1>4. ASSUME NEW kind \in Links, NEW q \in Requests, NEW r \in Requests,
             Acted(r)', Op(r)' = Issues(kind), q \in before'[r]
      PROVE  item'[<<kind, q>>] # "fresh"
  <2>. <<kind, q>> \in Items /\ <<kind, q>>[2] = q /\ <<kind, q>>[1] = kind
    BY <1>4 DEF Items, Links, Kinds, Makers
  <2>1. CASE Acted(r)
    <3>1. Op(r) = Issues(kind) /\ q \in before[r]
      BY <1>4, <2>1, ActedIsPast DEF Op
    <3>2. Acted(q) /\ item[<<kind, q>>] # "fresh"
      BY <2>1, <3>1 DEF HistoryInv, ActedSoFar, LinksInv
    <3>. QED  BY <3>2, StaysUsed
  <2>2. CASE ~Acted(r)
    <3>1. Acting(r)
      BY <1>4, <2>2, PreparingHistory, ReadingHistory, ActingHistory, StepShape DEF Shape, Idling
    <3>2. /\ pc[r] = "read" /\ Op(r) = Issues(kind) /\ q \in before[r]
      BY <1>4, <3>1, ActingHistory DEF Op, Issues, Changes
    <3>3. Acted(q) /\ q # r
      BY <2>2, <3>2 DEF HistoryInv, ActedSoFar
    <3>4. CASE item[<<kind, q>>] # "fresh"
      BY <3>3, <3>4, StaysUsed
    <3>5. CASE item[<<kind, q>>] = "fresh"
      <4>1. <<kind, q>> \in req[r].items
        BY <3>2, <3>5 DEF LinksInv
      <4>2. Op(r) \in {"forgot", "invite"}
        BY <3>2 DEF Issues
      <4>. QED  BY <3>1, <3>3, <4>1, <4>2, HandedIn
    <3>. QED  BY <3>4, <3>5
  <2>. QED  BY <2>1, <2>2
<1>. QED
  BY <1>1, <1>2, <1>3, <1>4 DEF LinksInv

LEMMA LinksSuffice == ASSUME HistoryInv, LinksInv PROVE OneTimeItems
<1>1. ASSUME NEW q \in Requests, NEW r \in Requests, Acted(q), Acted(r),
             Op(q) \in Uses, Op(r) \in Uses, req[q].items \cap req[r].items # {}
      PROVE  Overlap(q, r)
  BY <1>1 DEF LinksInv, Overlap
<1>2. ASSUME NEW kind \in Links, NEW q \in Requests, NEW r \in Requests,
             item[<<kind, q>>] = "fresh", item[<<kind, r>>] = "fresh"
      PROVE  Overlap(q, r)
  <2>1. \A p \in Requests : item[<<kind, p>>] = "fresh" => Acted(p) /\ Op(p) = Issues(kind)
    <3>. TAKE p \in Requests
    <3>1. <<kind, p>> \in Items /\ <<kind, p>>[2] = p /\ <<kind, p>>[1] = kind
      BY <1>2 DEF Items, Links, Kinds, Makers
    <3>. QED  BY <3>1 DEF HistoryInv, Issues, Links
  <2>. QED  BY <1>2, <2>1 DEF LinksInv, Overlap
<1>. QED
  BY <1>1, <1>2 DEF OneTimeItems, Links

\* For any number of requests, what works once is used once and a new link ends
\* the older ones, but between requests that overlap.
THEOREM LinksWorkOnce == Spec => []OneTimeItems
<1>1. Init => LinksInv
  BY DEF Init, LinksInv, Acted
<1>. QED
  BY <1>1, LinksStep, LinksSuffice, HistoryHolds, PTL DEF Spec

-----------------------------------------------------------------------------
(* The second factor                                                       *)

\* A confirmation is for the secret it has read, but for an enrolment that came
\* after it; and an enrolment finds the factor enabled only by a confirmation
\* that came after it.
FactorInv ==
    /\ \A c \in Requests : Pending(c) /\ Op(c) = "confirm" =>
          cred.secret \in {req[c].saw.secret, None} \cup during[c]
    /\ \A c \in Requests : pc[c] = "revoking" /\ Op(c) = "confirm" => cred.secret # None
    /\ \A e \in Requests : pc[e] = "read" /\ Op(e) = "enroll" /\ cred.enabled =>
          Confirmers \cap during[e] # {}
    /\ EnabledWasConfirmed

LEMMA FactorInit == Init => FactorInv
BY DEF Init, FactorInv, EnabledWasConfirmed, Confirmers, Acted, Pending, Credential, NoCredential

\* Two requests that write the same rows do not both wait for their commit.
LocksInv ==
    \A q, r \in Requests :
        q # r /\ pc[q] = "revoking" /\ pc[r] = "revoking" =>
            ~\E w \in Writers : Op(q) \in w /\ Op(r) \in w

LEMMA LocksStep == ASSUME TypeOK, LocksInv, [Next]_vars PROVE LocksInv'
<1>. SUFFICES ASSUME NEW q \in Requests, NEW r \in Requests, q # r,
                     pc'[q] = "revoking", pc'[r] = "revoking"
              PROVE  ~\E w \in Writers : Op(q)' \in w /\ Op(r)' \in w
  BY DEF LocksInv
<1>1. ASSUME NEW p \in {q, r}
      PROVE  Op(p)' = Op(p) /\ (pc[p] = "revoking" \/ LookForSessions(p))
  <2>1. ~Reading(p)
    BY ReadingHistory
  <2>2. Op(p)' = Op(p) /\ Pending(p)
    BY <2>1, PendingIsPast DEF Pending
  <2>3. CASE Preparing(p)
    BY <2>2, <2>3, PreparingHistory
  <2>4. CASE ~Preparing(p)
    <3>1. \A z \in Requests : Preparing(z) \/ Reading(z) \/ Acting(z) => pc'[p] = pc[p]
      BY <2>1, <2>4, PreparingHistory, ReadingHistory, ActingHistory DEF Acted
    <3>2. Idling => pc'[p] = pc[p]
      BY DEF Idling
    <3>. QED  BY <2>2, <3>1, <3>2, StepShape DEF Shape
  <2>. QED  BY <2>3, <2>4
<1>2. ASSUME LookForSessions(q) PROVE ~\E w \in Writers : Op(q) \in w /\ Op(r) \in w
  <2>1. pc[r] = "revoking"
    BY <1>2, PreparingHistory DEF Preparing
  <2>. QED  BY <1>2, <2>1, LookingHistory DEF Held
<1>3. ASSUME LookForSessions(r) PROVE ~\E w \in Writers : Op(q) \in w /\ Op(r) \in w
  <2>1. pc[q] = "revoking"
    BY <1>3, PreparingHistory DEF Preparing
  <2>. QED  BY <1>3, <2>1, LookingHistory DEF Held
<1>. QED
  BY <1>1, <1>2, <1>3 DEF LocksInv

\* While nobody acts the rows stay, and what was said of the past still holds.
LEMMA FactorKept ==
    ASSUME TypeOK, HistoryInv, [Next]_vars, cred' = cred, Confirmers' = Confirmers,
           EnabledWasConfirmed
    PROVE  EnabledWasConfirmed'
<1>. SUFFICES ASSUME cred.enabled PROVE EnabledWasConfirmed'
  BY DEF EnabledWasConfirmed
<1>1. CASE cred.secret = First /\ Confirmers = {}
  BY <1>1 DEF EnabledWasConfirmed
<1>2. ASSUME NEW c \in Confirmers, req[c].saw.secret = cred.secret PROVE EnabledWasConfirmed'
  <2>1. req'[c] = req[c]
    BY ActedIsPast DEF Confirmers
  <2>. QED  BY <1>2, <2>1 DEF EnabledWasConfirmed
<1>3. ASSUME NEW c \in Confirmers, NEW e \in Requests, e = cred.secret,
             Missed(c, e) \/ Missed(e, c)
      PROVE  EnabledWasConfirmed'
  <2>1. c \in Requests /\ Acted(c) /\ during[c] \subseteq during'[c]
    BY ActedIsPast DEF Confirmers
  <2>2. during[e] \subseteq during'[e]
    <3>1. Acted(e)
      BY <1>3 DEF HistoryInv
    <3>. QED  BY <3>1, ActedIsPast
  <2>3. (Missed(c, e) \/ Missed(e, c))'
    BY <1>3, <2>1, <2>2 DEF Missed
  <2>. QED  BY <1>3, <2>3 DEF EnabledWasConfirmed
<1>. QED
  BY <1>1, <1>2, <1>3 DEF EnabledWasConfirmed

LEMMA FactorStep ==
    ASSUME TypeOK, HistoryInv, LocksInv, FactorInv, [Next]_vars PROVE FactorInv'
<1>1. ASSUME NEW r \in Requests, Preparing(r) PROVE FactorInv'
  <2>1. cred' = cred
    BY <1>1, PreparingHistory DEF rows
  <2>2. Confirmers' = Confirmers
    BY <1>1, PreparingHistory DEF Confirmers, Op
  <2>3. \A c \in Requests : Pending(c)' =>
           /\ Pending(c) /\ (pc'[c] = "read" => pc[c] = "read")
           /\ Op(c)' = Op(c) /\ req'[c].saw = req[c].saw /\ during'[c] = during[c]
    <3>. TAKE c \in Requests
    <3>1. CASE c # r
      BY <1>1, <3>1, PreparingHistory DEF Pending, Op
    <3>2. CASE c = r /\ LookForSessions(r)
      BY <1>1, <3>2, PreparingHistory, LookingHistory DEF Pending, history
    <3>3. CASE c = r /\ ~LookForSessions(r)
      BY <1>1, <3>3, PreparingHistory DEF Pending
    <3>. QED  BY <3>1, <3>2, <3>3
  <2>4. \A c \in Requests : pc'[c] = "revoking" /\ Op(c)' = "confirm" => cred.secret # None
    <3>. TAKE c \in Requests
    <3>. HAVE pc'[c] = "revoking" /\ Op(c)' = "confirm"
    <3>1. CASE c # r
      BY <1>1, <3>1, PreparingHistory DEF FactorInv, Op
    <3>2. CASE c = r
      BY <1>1, <3>2, PreparingHistory, LookingHistory DEF Flushes
    <3>. QED  BY <3>1, <3>2
  <2>. QED  BY <2>1, <2>2, <2>3, <2>4, FactorKept DEF FactorInv, Pending
<1>2. ASSUME NEW r \in Requests, Reading(r) PROVE FactorInv'
  <2>1. cred' = cred /\ during' = during
    BY <1>2, ReadingHistory DEF rows
  <2>2. Confirmers' = Confirmers
    BY <1>2, ReadingHistory DEF Confirmers, Op
  <2>3. \A c \in Requests \ {r} : pc'[c] = pc[c] /\ req'[c] = req[c]
    BY <1>2, ReadingHistory
  <2>4. pc'[r] = "read" /\ req'[r].saw = cred /\ (Op(r)' = "enroll" => ~cred.enabled)
    BY <1>2, ReadingHistory DEF Admits, MayEnroll
  <2>. QED  BY <2>1, <2>2, <2>3, <2>4, FactorKept DEF FactorInv, Op, Pending
<1>3. ASSUME NEW r \in Requests, Acting(r) PROVE FactorInv'
  <2>1. /\ \A c \in Requests : Pending(c)' =>
              c # r /\ pc'[c] = pc[c] /\ req'[c] = req[c] /\ r \in during'[c]
        /\ req' = req /\ \A c \in Requests : during[c] \subseteq during'[c]
    BY <1>3, ActingHistory DEF Acted, Pending
  <2>2. Confirmers' = Confirmers \cup (IF Op(r) = "confirm" THEN {r} ELSE {})
    BY <1>3, ActingHistory DEF Confirmers, Op
  <2>3. \A e \in Requests : pc[e] = "read" /\ Op(e) = "enroll" /\ cred.enabled =>
           Confirmers \cap during[e] # {}
    BY DEF FactorInv
  <2>4. CASE cred' = cred /\ Op(r) \notin {"enroll", "confirm"}
    BY <2>1, <2>2, <2>4, FactorKept DEF FactorInv, Op, Pending
  <2>5. CASE cred' = NoCredential /\ Op(r) \in {"disable_2fa", "reset_2fa"}
    <3>1. \A c \in Requests : pc'[c] = "revoking" => Op(c)' # "confirm"
      <4>. SUFFICES ASSUME NEW c \in Requests, pc'[c] = "revoking", Op(c)' = "confirm" PROVE FALSE
        OBVIOUS
      <4>1. c # r /\ pc[c] = "revoking" /\ Op(c) = "confirm"
        BY <2>1 DEF Op, Pending
      <4>2. pc[r] = "revoking"
        BY <1>3, <2>5, ActingHistory DEF Changes
      <4>. QED  BY <2>5, <4>1, <4>2 DEF LocksInv, Writers
    <3>. QED  BY <2>1, <2>2, <2>5, <3>1 DEF FactorInv, Op, NoCredential, EnabledWasConfirmed
  <2>6. CASE cred' = [cred EXCEPT !.secret = r] /\ Op(r) = "enroll"
    <3>1. cred'.secret = r /\ cred'.enabled = cred.enabled
      BY <2>6 DEF TypeOK, Credential
    <3>2. Confirmers' = Confirmers
      BY <2>2, <2>6
    <3>3. EnabledWasConfirmed'
      <4>. SUFFICES ASSUME cred.enabled PROVE EnabledWasConfirmed'
        BY <3>1 DEF EnabledWasConfirmed
      <4>1. PICK c \in Confirmers : c \in during[r]
        BY <1>3, <2>6, ActingHistory DEF FactorInv, Changes
      <4>2. Missed(r, c)'
        BY <2>1, <4>1 DEF Missed
      <4>. QED  BY <3>1, <3>2, <4>1, <4>2 DEF EnabledWasConfirmed
    <3>. QED  BY <2>1, <2>3, <3>1, <3>2, <3>3, NameAssumption DEF FactorInv, Op, Pending
  <2>7. CASE cred' = [cred EXCEPT !.enabled = TRUE] /\ Op(r) = "confirm"
    <3>1. cred'.secret = cred.secret /\ cred'.enabled = TRUE
      BY <2>7 DEF TypeOK, Credential
    <3>2. r \in Confirmers'
      BY <2>2, <2>7
    <3>3. cred.secret \in {req[r].saw.secret} \cup during[r]
      BY <1>3, <2>7, ActingHistory DEF FactorInv, Changes
    <3>4. EnabledWasConfirmed'
      <4>1. CASE cred.secret = req[r].saw.secret
        BY <2>1, <3>1, <3>2, <4>1 DEF EnabledWasConfirmed
      <4>2. CASE cred.secret \in during[r]
        <5>. PICK e \in during[r] : e = cred.secret
          BY <4>2
        <5>1. e \in Requests /\ Missed(r, e)'
          BY <2>1 DEF Missed, TypeOK
        <5>. QED  BY <3>1, <3>2, <5>1 DEF EnabledWasConfirmed
      <4>. QED  BY <3>3, <4>1, <4>2
    <3>. QED  BY <2>1, <2>2, <3>1, <3>2, <3>4 DEF FactorInv, Op, Pending
  <2>. QED  BY <1>3, <2>4, <2>5, <2>6, <2>7 DEF Acting, ActsOnCred
<1>4. CASE Idling
  <2>1. Confirmers' = Confirmers
    BY <1>4 DEF Confirmers, Op, Idling
  <2>2. cred' = cred /\ req' = req /\ during' = during
    BY <1>4 DEF Idling
  <2>3. \A c \in Requests : Pending(c)' => pc'[c] = pc[c]
    BY <1>4 DEF Idling, Pending
  <2>. QED  BY <2>1, <2>2, <2>3, FactorKept DEF FactorInv, Op, Pending
<1>. QED
  BY <1>1, <1>2, <1>3, <1>4, StepShape DEF Shape

\* For any number of requests, a second factor that is asked for was confirmed by
\* its owner, but after an enrolment that overlapped the confirmation.
THEOREM FactorsAreConfirmed == Spec => []EnabledWasConfirmed
<1>1. FactorInv => EnabledWasConfirmed
  BY DEF FactorInv
<1>2. Init => LocksInv
  BY DEF Init, LocksInv
<1>. QED
  BY <1>1, <1>2, FactorInit, FactorStep, LocksStep, HistoryHolds, PTL DEF Spec

-----------------------------------------------------------------------------
(* Erasure                                                                 *)

MissedErasure(q) == \E e \in during[q] : Op(e) = "erase"

\* Who may write to an erased account had read it before.
ErasureInv ==
    /\ \A e \in Requests : Pending(e) /\ Op(e) = "erase" /\ ~req[e].named /\ user.named =>
          \E q \in during[e] : Op(q) = "update_name"
    /\ \A q \in Requests : pc[q] = "read" /\ user.erased =>
          /\ Op(q) = "enable" => MissedErasure(q)
          /\ Op(q) = "update_name" => MissedErasure(q) \/ Undone("enable")
    /\ ErasedStaysErased

LEMMA MissedStays ==
    ASSUME TypeOK, HistoryInv, [Next]_vars, NEW q \in Requests, MissedErasure(q),
           Acted(q) \/ (Pending(q)' /\ ~Reading(q)) \/ Acting(q)
    PROVE  \E e \in during'[q] : Op(e)' = "erase"
<1>. PICK e \in during[q] : Op(e) = "erase"
  BY DEF MissedErasure
<1>1. e \in Requests /\ Acted(e)
  BY DEF HistoryInv, ActedSoFar
<1>2. Op(e)' = "erase"
  BY <1>1, ActedIsPast DEF Op
<1>3. during[q] \subseteq during'[q]
  BY ActedIsPast, PendingIsPast, ActingHistory
<1>. QED
  BY <1>2, <1>3

LEMMA UndoneStays ==
    ASSUME TypeOK, HistoryInv, [Next]_vars, NEW op, Undone(op)
    PROVE  Undone(op)'
<1>. PICK q \in Requests, e \in Requests : Acted(q) /\ Op(q) = op /\ Op(e) = "erase" /\ Missed(q, e)
  BY DEF Undone
<1>1. Acted(e) /\ Acted(q)
  BY DEF HistoryInv, ActedSoFar, Missed
<1>2. Op(q)' = op /\ Op(e)' = "erase" /\ Acted(q)' /\ Missed(q, e)'
  BY <1>1, ActedIsPast DEF Op, Missed
<1>. QED
  BY <1>2 DEF Undone

LEMMA NamedStays ==
    ASSUME TypeOK, HistoryInv, [Next]_vars, NamedMeanwhile
    PROVE  NamedMeanwhile'
<1>. PICK e \in Requests, q \in Requests :
        Acted(e) /\ Op(e) = "erase" /\ ~req[e].named /\ Op(q) = "update_name" /\ Missed(e, q)
  BY DEF NamedMeanwhile
<1>1. Acted(e) /\ Acted(q)
  BY DEF HistoryInv, ActedSoFar, Missed
<1>2. Acted(e)' /\ Op(e)' = "erase" /\ ~req'[e].named /\ Op(q)' = "update_name" /\ Missed(e, q)'
  BY <1>1, ActedIsPast DEF Op, Missed
<1>. QED
  BY <1>2 DEF NamedMeanwhile

\* Where nobody commits anything, what was known of those who wait stays known.
LEMMA ErasureKept ==
    ASSUME TypeOK, HistoryInv, ErasureInv, [Next]_vars, user' = user,
           NEW q \in Requests, Pending(q)', ~Reading(q)
    PROVE  /\ Op(q)' = "erase" /\ ~req'[q].named /\ user'.named =>
                 \E p \in during'[q] : Op(p)' = "update_name"
           /\ pc'[q] = "read" /\ user'.erased =>
                 /\ Op(q)' = "enable" => MissedErasure(q)'
                 /\ Op(q)' = "update_name" => MissedErasure(q)' \/ Undone("enable")'
<1>1. /\ Pending(q) /\ (pc'[q] = "read" => pc[q] = "read")
      /\ Op(q)' = Op(q) /\ req'[q].named = req[q].named /\ during[q] \subseteq during'[q]
  BY PendingIsPast
<1>2. \A p \in during[q] : Op(p)' = Op(p)
  <2>1. \A p \in during[q] : p \in Requests /\ Acted(p)
    BY DEF HistoryInv, ActedSoFar
  <2>. QED  BY <2>1, ActedIsPast DEF Op
<1>3. MissedErasure(q) => MissedErasure(q)'
  BY <1>1, <1>2 DEF MissedErasure
<1>. QED
  BY <1>1, <1>2, <1>3, UndoneStays DEF ErasureInv

\* What an erasure makes of the account.
LEMMA ErasingUser ==
    ASSUME TypeOK, NEW r \in Requests,
           user' = [user EXCEPT !.erased = TRUE, !.disabled = TRUE, !.named = @ /\ ~req[r].named]
    PROVE  user'.disabled /\ (user'.named => user.named /\ ~req[r].named)
<1>1. user = [exists |-> user.exists, disabled |-> user.disabled, erased |-> user.erased,
              named |-> user.named, role |-> user.role]
  BY DEF TypeOK, User
<1>2. user'.disabled = TRUE
  BY <1>1
<1>3. user'.named = (user.named /\ ~req[r].named)
  BY <1>1
<1>. QED
  BY <1>2, <1>3, Zenon

LEMMA ErasureStep == ASSUME TypeOK, HistoryInv, ErasureInv, [Next]_vars PROVE ErasureInv'
<1>0. /\ \A op \in {"enable", "update_name"} : Undone(op) => Undone(op)'
      /\ NamedMeanwhile => NamedMeanwhile'
  BY UndoneStays, NamedStays
<1>1. ASSUME user' = user, \A r \in Requests : ~Reading(r) PROVE ErasureInv'
  <2>1. ErasedStaysErased'
    BY <1>0, <1>1 DEF ErasureInv, ErasedStaysErased
  <2>. QED  BY <1>1, <2>1, ErasureKept DEF ErasureInv, Pending
<1>2. ASSUME NEW r \in Requests, Reading(r) PROVE ErasureInv'
  <2>1. user' = user
    BY <1>2, ReadingHistory DEF rows
  <2>2. \A q \in Requests \ {r} : ~Reading(q) \/ ~Pending(q)'
    <3>1. \A q \in Requests : Reading(q) => pc[q] \in {"new", "gated"}
      BY DEF Reading
    <3>2. \A q \in Requests \ {r} : pc'[q] = pc[q]
      BY <1>2, ReadingHistory
    <3>. QED  BY <3>1, <3>2 DEF Pending
  <2>3. /\ pc'[r] = "read" /\ req'[r].named = user.named
        /\ Op(r)' = "enable" => ~user.erased
        /\ Op(r)' = "update_name" => ~user.disabled
    BY <1>2, ReadingHistory DEF Admits, Active, MayEnable
  <2>4. user.erased /\ ~user.disabled => Undone("enable")
    BY DEF ErasureInv, ErasedStaysErased
  <2>5. ErasedStaysErased'
    BY <1>0, <2>1 DEF ErasureInv, ErasedStaysErased
  <2>6. /\ Op(r)' = "erase" /\ ~req'[r].named => ~user'.named
        /\ user'.erased =>
              /\ Op(r)' = "enable" => MissedErasure(r)'
              /\ Op(r)' = "update_name" => MissedErasure(r)' \/ Undone("enable")'
    BY <1>0, <2>1, <2>3, <2>4
  <2>7. \A q \in Requests \ {r} : Pending(q)' => ~Reading(q)
    BY <2>2
  <2>. QED  BY <2>1, <2>5, <2>6, <2>7, ErasureKept DEF ErasureInv, Pending
<1>3. ASSUME NEW r \in Requests, Acting(r) PROVE ErasureInv'
  <2>1. /\ \A q \in Requests : Pending(q)' =>
              /\ Pending(q) /\ pc'[q] = pc[q] /\ q # r
              /\ r \in during'[q] /\ during[q] \subseteq during'[q]
        /\ req' = req /\ \A q \in Requests : Op(q)' = Op(q)
        /\ Pending(r) /\ Acted(r)' /\ during[r] \subseteq during'[r]
        /\ Op(r) \in {"enable", "update_name"} => pc[r] = "read"
    BY <1>3, ActingHistory DEF Acted, Op, Pending, Changes
  <2>2. Op(r) = "erase" => \A q \in Requests : Pending(q)' => MissedErasure(q)'
    BY <2>1 DEF MissedErasure
  <2>3. Op(r) # "erase" /\ user'.erased => user.erased
    BY <1>3 DEF Acting, ActsOnUser, TypeOK, User, Nobody
  <2>4. \A q \in Requests : pc'[q] = "read" /\ user'.erased =>
           /\ Op(q)' = "enable" => MissedErasure(q)'
           /\ Op(q)' = "update_name" => MissedErasure(q)' \/ Undone("enable")'
    <3>1. \A q \in Requests : Pending(q)' /\ MissedErasure(q) => MissedErasure(q)'
      BY <2>1 DEF MissedErasure, Op
    <3>. QED  BY <1>0, <2>1, <2>2, <2>3, <3>1 DEF ErasureInv, Pending
  <2>5. user'.named => user.named \/ Op(r) = "update_name"
    <3>1. ASSUME user' = [user EXCEPT !.erased = TRUE, !.disabled = TRUE, !.named = @ /\ ~req[r].named]
          PROVE  user'.named => user.named
      BY <3>1, ErasingUser
    <3>2. user' # [user EXCEPT !.erased = TRUE, !.disabled = TRUE, !.named = @ /\ ~req[r].named] =>
             (user'.named => user.named \/ Op(r) = "update_name")
      BY <1>3 DEF Acting, ActsOnUser, TypeOK, User, Nobody
    <3>. QED  BY <3>1, <3>2
  <2>6. \A e \in Requests : Pending(e)' /\ Op(e)' = "erase" /\ ~req'[e].named /\ user'.named =>
           \E q \in during'[e] : Op(q)' = "update_name"
    BY <2>1, <2>5 DEF ErasureInv, Op
  <2>7. MissedErasure(r) /\ Op(r) \in {"enable", "update_name"} => Undone(Op(r))'
    <3>. SUFFICES ASSUME MissedErasure(r), Op(r) \in {"enable", "update_name"} PROVE Undone(Op(r))'
      OBVIOUS
    <3>. PICK e \in during'[r] : Op(e)' = "erase"
      BY <1>3, MissedStays
    <3>1. TypeOK'
      BY TypeStep
    <3>2. e \in Requests
      BY <3>1 DEF TypeOK
    <3>. QED  BY <2>1, <3>2 DEF Undone, Missed
  <2>8. ErasedStaysErased'
    <3>. SUFFICES ASSUME user'.erased
                  PROVE  /\ user'.disabled \/ Undone("enable")'
                         /\ ~user'.named \/ Undone("update_name")' \/ Undone("enable")' \/ NamedMeanwhile'
      BY DEF ErasedStaysErased
    <3>1. ASSUME Op(r) = "erase",
                 user' = [user EXCEPT !.erased = TRUE, !.disabled = TRUE, !.named = @ /\ ~req[r].named]
          PROVE  user'.disabled /\ (~user'.named \/ NamedMeanwhile')
      <4>1. user'.disabled /\ (user'.named => user.named /\ ~req[r].named)
        BY <3>1, ErasingUser
      <4>2. ASSUME user.named, ~req[r].named PROVE NamedMeanwhile'
        <5>1. PICK q \in during[r] : Op(q) = "update_name"
          BY <2>1, <3>1, <4>2 DEF ErasureInv
        <5>2. q \in Requests
          BY <5>1 DEF HistoryInv, ActedSoFar
        <5>. QED  BY <2>1, <3>1, <4>2, <5>1, <5>2 DEF NamedMeanwhile, Missed
      <4>. QED  BY <4>1, <4>2
    <3>2. ASSUME Op(r) # "erase"
          PROVE  /\ user'.disabled \/ Undone("enable")'
                 /\ ~user'.named \/ Undone("update_name")' \/ Undone("enable")' \/ NamedMeanwhile'
      <4>1. /\ user.erased
            /\ user.disabled \/ Undone("enable")'
            /\ ~user.named \/ Undone("update_name")' \/ Undone("enable")' \/ NamedMeanwhile'
        BY <1>0, <2>3, <3>2 DEF ErasureInv, ErasedStaysErased
      <4>2. CASE user' = [user EXCEPT !.named = TRUE] /\ Op(r) = "update_name"
        <5>1. Undone("update_name")' \/ Undone("enable")'
          BY <1>0, <2>1, <2>7, <4>1, <4>2 DEF ErasureInv
        <5>. QED  BY <4>1, <4>2, <5>1 DEF TypeOK, User
      <4>3. CASE user' = [user EXCEPT !.disabled = FALSE] /\ Op(r) = "enable"
        <5>1. Undone("enable")'
          BY <2>1, <2>7, <4>1, <4>3 DEF ErasureInv
        <5>. QED  BY <5>1
      <4>4. CASE user'.disabled \in {user.disabled, TRUE} /\ user'.named = user.named
        BY <4>1, <4>4
      <4>5. ASSUME NEW role \in BOOLEAN, user' = [Nobody EXCEPT !.exists = TRUE, !.role = role]
            PROVE  FALSE
        BY <4>5 DEF Nobody
      <4>. QED
        BY <1>3, <3>2, <4>2, <4>3, <4>4, <4>5 DEF Acting, ActsOnUser, TypeOK, User
    <3>. QED  BY <1>3, <3>1, <3>2 DEF Acting, ActsOnUser
  <2>. QED  BY <2>4, <2>6, <2>8 DEF ErasureInv
<1>4. ASSUME NEW r \in Requests, Preparing(r) PROVE user' = user
  BY <1>4, PreparingHistory DEF rows
<1>5. CASE Idling
  BY <1>1, <1>2, <1>5 DEF Idling
<1>. QED
  BY <1>1, <1>2, <1>3, <1>4, <1>5, StepShape DEF Shape

\* For any number of requests, what was erased stays so, but for requests that had
\* read the account before and for a name the erasure had not read.
THEOREM ErasureStays == Spec => []ErasedStaysErased
<1>1. Init => ErasureInv
  BY DEF Init, ErasureInv, ErasedStaysErased, Nobody, Pending
<1>2. ErasureInv => ErasedStaysErased
  BY DEF ErasureInv
<1>. QED
  BY <1>1, <1>2, ErasureStep, HistoryHolds, PTL DEF Spec
=============================================================================
