-------------------------- MODULE TranslationsProofs --------------------------
(***************************************************************************)
(* Theorems about Translations, for any modules and any number of          *)
(* requests.                                                               *)
(*                                                                         *)
(* No handler locks a group, so that every group is whole rests on what    *)
(* each request still knows when it writes: who holds the module, who      *)
(* holds the group it joins, and whose checks are still true of rows that  *)
(* were read without a lock.                                               *)
(***************************************************************************)
EXTENDS Translations, TLAPS

-----------------------------------------------------------------------------
(* The inductive invariant                                                 *)

\* A request names rows that there are; deleted modules keep theirs.
Asking ==
    \A r \in Requests : pc[r] # "new" /\ Op(r) # "create" =>
        /\ req[r].module \in Modules /\ Exists(req[r].module)
        /\ Op(r) \in {"link", "primary", "assign", "read"} => req[r].group \in Groups

\* A module or a group that is named after a request is there once it is done.
Naming ==
    \A r \in Requests :
        /\ r \in groups \/ Exists(r) => pc[r] = "done"
        /\ req[r].group \in Requests => pc[req[r].group] = "done"

Holding(r) == pc[r] \in {"checked", "moved"}

\* The lock of a module's row is held by one request.
Exclusive ==
    \A q, r \in Requests : Holding(q) /\ Holding(r) /\ req[q].module = req[r].module => q = r

Links(r) == At(r, "link", "checked") \/ At(r, "link", "moved")

\* A link that has passed its checks: its module is elsewhere, and has no
\* progress and gets none.  One that has also written its row: its new group
\* stays, and nobody brings it the same language.
Linking ==
    /\ \A r \in Requests : Links(r) =>
          /\ row[req[r].module].group # req[r].group
          /\ \A q \in Requests : q \in progress \/ At(q, "read", "inserted") =>
                req[q].module # req[r].module
    /\ \A r \in Requests : At(r, "link", "moved") =>
          /\ req[r].group \in groups
          /\ Language(r) \notin Spoken(req[r].group)
    /\ \A q, r \in Requests :
          At(q, "link", "moved") /\ At(r, "link", "moved") /\ req[q].group = req[r].group /\ q # r
          => Language(q) # Language(r)

\* What was read without a lock is out of date only if the group is gone, and a
\* row that is being written keeps its group.
Filing ==
    \A r \in Requests :
        /\ /\ pc[r] \in {"asked", "inserted"} /\ Op(r) \in {"primary", "assign", "read"}
           /\ req[r].group \in groups
           => req[r].module \in Variants(req[r].group)
        /\ pc[r] = "inserted" => Op(r) \in {"assign", "read"} /\ req[r].group \in groups

Records ==
    \A r \in assigned \cup progress :
        /\ pc[r] = "done" /\ Op(r) \in {"assign", "read"}
        /\ row[req[r].module].group = req[r].group

IInv == TypeOK /\ Asking /\ Naming /\ Exclusive /\ Linking /\ GroupsAreWhole /\ Filing /\ Records

-----------------------------------------------------------------------------
(* What a step keeps                                                       *)

LEMMA RequestKept ==
    ASSUME TypeOK, [Next]_vars, NEW q \in Requests, pc[q] # "new"
    PROVE  /\ req'[q] = req[q] /\ pc'[q] # "new"
           /\ pc[q] = "done" => pc'[q] = "done"
<1>. USE DEF TypeOK
<1>1. ASSUME NEW r \in Requests, Begin(r) PROVE q # r /\ req'[q] = req[q] /\ pc'[q] = pc[q]
  BY <1>1 DEF Begin, Moves
<1>2. ASSUME NEW r \in Requests, Fail(r) \/ CreateModule(r) \/ CheckLink(r) \/ MoveModule(r)
      PROVE  req' = req /\ pc'[q] # "new" /\ (pc[q] = "done" => pc'[q] = "done")
  BY <1>2 DEF Fail, CreateModule, CheckLink, MoveModule, At, Moves
<1>3. ASSUME NEW r \in Requests,
             LinkVariant(r) \/ SetPrimary(r) \/ Insert(r) \/ CommitInsert(r) \/ LockForDelete(r) \/ DeleteModule(r)
      PROVE  req' = req /\ pc'[q] # "new" /\ (pc[q] = "done" => pc'[q] = "done")
  BY <1>3 DEF LinkVariant, SetPrimary, Insert, CommitInsert, LockForDelete, DeleteModule, At, Moves
<1>. QED
  BY <1>1, <1>2, <1>3 DEF Next, Step, Unassign, Publishes, vars

LEMMA RequestBegins ==
    ASSUME TypeOK, [Next]_vars, NEW q \in Requests, pc[q] = "new", pc'[q] # "new"
    PROVE  Begin(q)
<1>. USE DEF TypeOK
<1>1. ASSUME NEW r \in Requests, Begin(r) PROVE q = r
  BY <1>1 DEF Begin, Moves
<1>2. ASSUME NEW r \in Requests, Fail(r) \/ CreateModule(r) \/ CheckLink(r) \/ MoveModule(r)
      PROVE  FALSE
  BY <1>2 DEF Fail, CreateModule, CheckLink, MoveModule, At, Moves
<1>3. ASSUME NEW r \in Requests,
             LinkVariant(r) \/ SetPrimary(r) \/ Insert(r) \/ CommitInsert(r) \/ LockForDelete(r) \/ DeleteModule(r)
      PROVE  FALSE
  BY <1>3 DEF LinkVariant, SetPrimary, Insert, CommitInsert, LockForDelete, DeleteModule, At, Moves
<1>. QED
  BY <1>1, <1>2, <1>3 DEF Next, Step, Unassign, Publishes, vars

LEMMA RequestQuiet ==
    ASSUME TypeOK, [Next]_vars, NEW q \in Requests, pc[q] = "new", pc'[q] = "new"
    PROVE  req'[q] = req[q]
<1>1. ASSUME NEW r \in Requests, Begin(r) PROVE req'[q] = req[q]
  BY <1>1 DEF Begin, Moves, TypeOK
<1>. QED
  BY <1>1 DEF Next, Step, Fail, CreateModule, CheckLink, MoveModule, LinkVariant, SetPrimary, Insert,
              CommitInsert, LockForDelete, DeleteModule, Unassign, Publishes, vars

\* The row of a module never goes, nor its language; its group changes by a link.
LEMMA RowKept ==
    ASSUME TypeOK, Naming, [Next]_vars, NEW m \in Modules, Exists(m)
    PROVE  /\ Exists(m)' /\ row'[m].language = row[m].language
           /\ \/ row'[m].group = row[m].group
              \/ \E r \in Requests : LinkVariant(r) /\ req[r].module = m
<1>. USE DEF TypeOK, Row, Exists
<1>1. ASSUME NEW r \in Requests, CreateModule(r) PROVE row'[m] = row[m]
  BY <1>1 DEF CreateModule, At, Naming, Modules
<1>2. ASSUME NEW r \in Requests, LinkVariant(r)
      PROVE  /\ row'[m].status = row[m].status /\ row'[m].language = row[m].language
             /\ req[r].module # m => row'[m].group = row[m].group
  BY <1>2 DEF LinkVariant
<1>3. ASSUME NEW r \in Requests, DeleteModule(r)
      PROVE  /\ row'[m].group = row[m].group /\ row'[m].language = row[m].language
             /\ row'[m].status # "none"
  BY <1>3 DEF DeleteModule
<1>4. ASSUME NEW n \in Modules, Publishes(n)
      PROVE  /\ row'[m].group = row[m].group /\ row'[m].language = row[m].language
             /\ row'[m].status # "none"
  BY <1>4 DEF Publishes
<1>. QED
  BY <1>1, <1>2, <1>3, <1>4
     DEF Next, Step, Begin, Fail, CheckLink, MoveModule, SetPrimary, Insert, CommitInsert,
         LockForDelete, Unassign, vars

LEMMA TypeInit == Init => TypeOK
<1>. SUFFICES ASSUME Init PROVE TypeOK
  OBVIOUS
<1>. PICK given \in [Given -> [group : Given, language : Languages, status : {"draft", "published"}]] :
        row = [m \in Modules |-> IF m \in Given THEN given[m] ELSE NoRow]
  BY DEF Init
<1>1. \A m \in Given : /\ row[m].group \in Given /\ row[m].language \in Languages
                       /\ row[m].status \in {"draft", "published"} /\ row[m] \in Row
  BY DEF Modules, Groups, Row, Statuses
<1>2. \A m \in Modules \ Given : row[m] = NoRow /\ NoRow \in Row
  BY DEF Row, NoRow, Statuses
<1>3. row \in [Modules -> Row]
  BY <1>1, <1>2
<1>4. \A m \in Modules : (row[m].status = "none") = (row[m].group = None)
  BY <1>1, <1>2, NameAssumption DEF NoRow
<1>5. groups \subseteq Groups
  BY <1>1 DEF Init, Groups, Modules
<1>6. primary \in [Groups -> Groups \cup {None}]
  BY DEF Init
<1>7. req \in [Requests -> Request]
  BY DEF Init, Request, NoRequest
<1>. QED
  BY <1>3, <1>4, <1>5, <1>6, <1>7 DEF Init, TypeOK

LEMMA InitInv == Init => IInv
<1>. SUFFICES ASSUME Init PROVE IInv
  OBVIOUS
<1>0. TypeOK
  BY TypeInit
<1>1. \A r \in Requests : pc[r] = "new" /\ req[r] = NoRequest
  BY DEF Init
<1>2. Asking /\ Exclusive /\ Linking /\ Filing
  BY <1>1 DEF Asking, Exclusive, Holding, Linking, Links, Filing, At
<1>3. PICK given \in [Given -> [group : Given, language : Languages, status : {"draft", "published"}]] :
        /\ \A m \in Given : given[given[m].group].group = given[m].group
        /\ \A m, n \in Given :
              m # n /\ given[m].group = given[n].group => given[m].language # given[n].language
        /\ row = [m \in Modules |-> IF m \in Given THEN given[m] ELSE NoRow]
  BY DEF Init
<1>4. \A m \in Modules : Exists(m) <=> m \in Given
  BY <1>3 DEF Exists, NoRow
<1>5. \A m \in Given : row[m] = given[m] /\ row[m].group \in Given
  BY <1>3 DEF Modules
<1>6. groups = {row[m].group : m \in Given} /\ groups \subseteq Given
  BY <1>5 DEF Init
<1>7. Naming
  BY <1>1, <1>4, <1>6, NameAssumption DEF Naming, NoRequest, Modules
<1>8. GroupsAreWhole
  <2>1. \A m \in Modules : Exists(m) => row[m].group \in groups
    BY <1>4, <1>6
  <2>2. ASSUME NEW g \in groups PROVE primary[g] \in Variants(g)
    <3>1. primary[g] = g /\ g \in Modules
      BY <1>6 DEF Init, Groups, Modules
    <3>2. PICK m \in Given : g = row[m].group
      BY <1>6
    <3>3. row[g] = given[g] /\ g = given[m].group
      BY <1>5, <1>6, <3>2
    <3>4. row[g].group = g
      BY <1>3, <3>3
    <3>. QED  BY <1>4, <1>6, <3>1, <3>4 DEF Variants
  <2>3. \A m, n \in Modules :
           Exists(m) /\ Exists(n) /\ m # n /\ row[m].group = row[n].group
           => row[m].language # row[n].language
    BY <1>3, <1>4, <1>5
  <2>. QED  BY <2>1, <2>2, <2>3 DEF GroupsAreWhole
<1>9. Records
  BY DEF Init, Records
<1>. QED
  BY <1>0, <1>2, <1>7, <1>8, <1>9 DEF IInv

-----------------------------------------------------------------------------
(* What a step brings and takes                                            *)

LEMMA RowComes ==
    ASSUME TypeOK, Asking, [Next]_vars, NEW m \in Modules, Exists(m)', ~Exists(m)
    PROVE  m \in Requests /\ CreateModule(m)
<1>. USE DEF TypeOK, Row, Exists
<1>1. ASSUME NEW r \in Requests, CreateModule(r) PROVE m = r
  BY <1>1 DEF CreateModule
<1>2. ASSUME NEW r \in Requests, LinkVariant(r) PROVE FALSE
  BY <1>2 DEF LinkVariant
<1>3. ASSUME NEW r \in Requests, DeleteModule(r) PROVE FALSE
  BY <1>3 DEF DeleteModule, At, Asking
<1>4. ASSUME NEW n \in Modules, Publishes(n) PROVE FALSE
  BY <1>4 DEF Publishes, Editable
<1>. QED
  BY <1>1, <1>2, <1>3, <1>4
     DEF Next, Step, Begin, Fail, CheckLink, MoveModule, SetPrimary, Insert, CommitInsert,
         LockForDelete, Unassign, vars

LEMMA GroupComes ==
    ASSUME [Next]_vars, NEW g \in groups', g \notin groups
    PROVE  g \in Requests /\ CreateModule(g)
<1>1. ASSUME NEW r \in Requests, CreateModule(r) PROVE g = r
  BY <1>1 DEF CreateModule
<1>2. ASSUME NEW r \in Requests, LinkVariant(r) PROVE FALSE
  BY <1>2 DEF LinkVariant, Dissolves
<1>. QED
  BY <1>1, <1>2
     DEF Next, Step, Begin, Fail, CheckLink, MoveModule, SetPrimary, Insert, CommitInsert,
         LockForDelete, DeleteModule, Publishes, Unassign, vars

LEMMA GroupGoes ==
    ASSUME [Next]_vars, NEW g \in groups, g \notin groups'
    PROVE  \E r \in Requests : LinkVariant(r) /\ g = row[req[r].module].group
<1>1. ASSUME NEW r \in Requests, CreateModule(r) PROVE FALSE
  BY <1>1 DEF CreateModule
<1>2. ASSUME NEW r \in Requests, LinkVariant(r) PROVE g = row[req[r].module].group
  BY <1>2 DEF LinkVariant, Dissolves
<1>. QED
  BY <1>1, <1>2
     DEF Next, Step, Begin, Fail, CheckLink, MoveModule, SetPrimary, Insert, CommitInsert,
         LockForDelete, DeleteModule, Publishes, Unassign, vars

LEMMA PlaceComes ==
    ASSUME TypeOK, [Next]_vars, NEW r \in Requests, pc'[r] # pc[r]
    PROVE  /\ Step(r)
           /\ \A q \in Requests \ {r} : pc'[q] = pc[q]
<1>. USE DEF TypeOK, Moves
<1>1. ASSUME NEW q \in Requests, Begin(q) \/ Fail(q) \/ CreateModule(q) \/ CheckLink(q) \/ MoveModule(q)
      PROVE  q = r /\ \A p \in Requests \ {r} : pc'[p] = pc[p]
  BY <1>1 DEF Begin, Fail, CreateModule, CheckLink, MoveModule
<1>2. ASSUME NEW q \in Requests,
             LinkVariant(q) \/ SetPrimary(q) \/ Insert(q) \/ CommitInsert(q) \/ LockForDelete(q) \/ DeleteModule(q)
      PROVE  q = r /\ \A p \in Requests \ {r} : pc'[p] = pc[p]
  BY <1>2 DEF LinkVariant, SetPrimary, Insert, CommitInsert, LockForDelete, DeleteModule
<1>. QED
  BY <1>1, <1>2 DEF Next, Step, Unassign, Publishes, vars

\* Which step brings a request where.
LEMMA PlaceShape ==
    ASSUME TypeOK, [Next]_vars, NEW r \in Requests, pc'[r] # pc[r]
    PROVE  /\ pc'[r] = "asked" => Begin(r)
           /\ pc'[r] = "checked" => CheckLink(r) \/ LockForDelete(r)
           /\ pc'[r] = "moved" => MoveModule(r)
           /\ pc'[r] = "inserted" => Insert(r)
<1>. USE DEF TypeOK, Moves
<1>1. CASE Fail(r) \/ CreateModule(r) \/ SetPrimary(r) \/ CommitInsert(r)
  BY <1>1 DEF Fail, CreateModule, SetPrimary, CommitInsert
<1>2. CASE LinkVariant(r) \/ DeleteModule(r)
  BY <1>2 DEF LinkVariant, DeleteModule
<1>3. CASE Begin(r) \/ Insert(r)
  BY <1>3 DEF Begin, Insert
<1>4. CASE CheckLink(r) \/ MoveModule(r) \/ LockForDelete(r)
  BY <1>4 DEF CheckLink, MoveModule, LockForDelete
<1>. QED
  BY <1>1, <1>2, <1>3, <1>4, PlaceComes DEF Step

LEMMA RecordComes ==
    ASSUME [Next]_vars, NEW r \in Requests, r \in assigned' \cup progress', r \notin assigned \cup progress
    PROVE  CommitInsert(r)
<1>1. ASSUME NEW q \in Requests, LinkVariant(q) PROVE FALSE
  BY <1>1 DEF LinkVariant, Dissolves
<1>2. ASSUME NEW q \in Requests, CommitInsert(q) PROVE q = r
  BY <1>2 DEF CommitInsert
<1>. QED
  BY <1>1, <1>2
     DEF Next, Step, Begin, Fail, CreateModule, CheckLink, MoveModule, SetPrimary, Insert,
         LockForDelete, DeleteModule, Publishes, Unassign, vars

LEMMA ProgressComes ==
    ASSUME [Next]_vars, NEW r \in Requests, r \in progress', r \notin progress
    PROVE  CommitInsert(r) /\ Op(r) # "assign"
<1>1. ASSUME NEW q \in Requests, LinkVariant(q) PROVE FALSE
  BY <1>1 DEF LinkVariant, Dissolves
<1>2. ASSUME NEW q \in Requests, CommitInsert(q) PROVE q = r /\ Op(r) # "assign"
  BY <1>2 DEF CommitInsert
<1>. QED
  BY <1>1, <1>2
     DEF Next, Step, Begin, Fail, CreateModule, CheckLink, MoveModule, SetPrimary, Insert,
         LockForDelete, DeleteModule, Publishes, Unassign, vars

-----------------------------------------------------------------------------
(* Each part is kept by every step                                         *)

LEMMA TypeStep == ASSUME IInv, [Next]_vars PROVE TypeOK'
<1>. USE NameAssumption DEF IInv, TypeOK, Moves
<1>1. ASSUME NEW r \in Requests, Begin(r) PROVE TypeOK'
  <2>1. req' \in [Requests -> Request]
    BY <1>1 DEF Begin, Request
  <2>. QED  BY <1>1, <2>1 DEF Begin
<1>2. ASSUME NEW r \in Requests, Fail(r) \/ CheckLink(r) \/ MoveModule(r) \/ Insert(r) \/ LockForDelete(r)
      PROVE  TypeOK'
  BY <1>2 DEF Fail, CheckLink, MoveModule, Insert, LockForDelete
<1>3. ASSUME NEW r \in Requests, CreateModule(r) PROVE TypeOK'
  <2>1. NewModule(r) \in Row /\ NewModule(r).group = r /\ NewModule(r).status = "draft"
    BY DEF NewModule, Row, Request, Groups, Modules, Statuses
  <2>2. row' \in [Modules -> Row]
    BY <1>3, <2>1 DEF CreateModule
  <2>3. \A m \in Modules : (row'[m].status = "none") = (row'[m].group = None)
    BY <1>3, <2>1 DEF CreateModule, Modules
  <2>. QED  BY <1>3, <2>2, <2>3 DEF CreateModule, Groups, Modules
<1>4. ASSUME NEW r \in Requests, LinkVariant(r) PROVE TypeOK'
  <2>. DEFINE m == req[r].module
  <2>1. m \in Modules /\ Exists(m) /\ req[r].group \in Groups
    BY <1>4 DEF LinkVariant, At, Asking
  <2>2. row' = [row EXCEPT ![m] = [row[m] EXCEPT !.group = req[r].group]]
    BY <1>4 DEF LinkVariant
  <2>3. [row[m] EXCEPT !.group = req[r].group] \in Row
    BY <2>1 DEF Row
  <2>4. row' \in [Modules -> Row]
    BY <2>2, <2>3
  <2>5. \A n \in Modules : (row'[n].status = "none") = (row'[n].group = None)
    BY <2>1, <2>2 DEF Row, Exists, Groups, Modules
  <2>6. groups' \subseteq Groups /\ primary' \in [Groups -> Groups \cup {None}]
        /\ assigned' \subseteq Requests /\ progress' \subseteq Requests
    BY <1>4 DEF LinkVariant, Dissolves
  <2>. QED  BY <1>4, <2>4, <2>5, <2>6 DEF LinkVariant
<1>5. ASSUME NEW r \in Requests, SetPrimary(r) PROVE TypeOK'
  <2>1. req[r].module \in Groups
    BY <1>5 DEF SetPrimary, At, Asking, Groups
  <2>. QED  BY <1>5, <2>1 DEF SetPrimary
<1>6. ASSUME NEW r \in Requests, CommitInsert(r) PROVE TypeOK'
  BY <1>6 DEF CommitInsert
<1>7. ASSUME NEW r \in Requests, DeleteModule(r) PROVE TypeOK'
  <2>. DEFINE m == req[r].module
  <2>1. m \in Modules /\ Exists(m)
    BY <1>7 DEF DeleteModule, At, Asking
  <2>2. row' = [row EXCEPT ![m] = [row[m] EXCEPT !.status = "deleted"]]
    BY <1>7 DEF DeleteModule
  <2>3. [row[m] EXCEPT !.status = "deleted"] \in Row
    BY <2>1 DEF Row, Statuses
  <2>4. row' \in [Modules -> Row]
    BY <2>2, <2>3
  <2>5. \A n \in Modules : (row'[n].status = "none") = (row'[n].group = None)
    BY <2>1, <2>2 DEF Row, Exists
  <2>. QED  BY <1>7, <2>4, <2>5 DEF DeleteModule
<1>8. ASSUME NEW m \in Modules, Publishes(m) PROVE TypeOK'
  <2>1. PICK status \in {"draft", "published"} : row' = [row EXCEPT ![m].status = status]
    BY <1>8 DEF Publishes
  <2>2. row' = [row EXCEPT ![m] = [row[m] EXCEPT !.status = status]]
    BY <2>1
  <2>3. [row[m] EXCEPT !.status = status] \in Row
    BY DEF Row, Statuses
  <2>4. row' \in [Modules -> Row]
    BY <2>2, <2>3
  <2>5. \A n \in Modules : (row'[n].status = "none") = (row'[n].group = None)
    BY <1>8, <2>2 DEF Row, Publishes, Editable
  <2>. QED  BY <1>8, <2>4, <2>5 DEF Publishes
<1>9. ASSUME NEW r \in Requests, Unassign(r) PROVE TypeOK'
  BY <1>9 DEF Unassign
<1>10. CASE UNCHANGED vars
  BY <1>10 DEF vars
<1>. QED
  BY <1>1, <1>2, <1>3, <1>4, <1>5, <1>6, <1>7, <1>8, <1>9, <1>10 DEF Next, Step

LEMMA AskingStep == ASSUME IInv, [Next]_vars PROVE Asking'
<1>. SUFFICES ASSUME NEW r \in Requests, pc'[r] # "new", Op(r)' # "create"
              PROVE  /\ req'[r].module \in Modules /\ row'[req'[r].module].status # "none"
                     /\ Op(r)' \in {"link", "primary", "assign", "read"} => req'[r].group \in Groups
  BY DEF Asking, Exists
<1>1. CASE pc[r] # "new"
  BY <1>1, RequestKept, RowKept DEF IInv, Asking, Op, Exists
<1>2. CASE Begin(r)
  <2>1. PICK op \in Ops, m \in Modules \cup {None}, g \in Groups \cup {None}, l \in Languages \cup {None} :
          /\ \/ op = "create" /\ m = None /\ g = None /\ l # None
             \/ m # None /\ Asks(op, m, g, l)
          /\ req' = [req EXCEPT ![r] = [op |-> op, module |-> m, group |-> g, language |-> l]]
    BY <1>2 DEF Begin
  <2>2. req'[r] = [op |-> op, module |-> m, group |-> g, language |-> l]
    BY <2>1 DEF IInv, TypeOK
  <2>3. m \in Modules /\ Exists(m) /\ Asks(op, m, g, l)
    BY <2>1, <2>2 DEF Op, Asks, Editable, Exists, MayBePrimary, Variants
  <2>4. op \in {"link", "primary", "assign", "read"} => g \in Groups
    BY <2>3 DEF Asks, MayBePrimary, Exists, IInv, TypeOK, Row
  <2>5. row'[m].status # "none"
    BY <2>3, RowKept DEF IInv, Exists
  <2>. QED  BY <2>2, <2>3, <2>4, <2>5 DEF Op
<1>3. CASE pc'[r] = "new"
  BY <1>3
<1>. QED
  BY <1>1, <1>2, <1>3, RequestBegins DEF IInv

LEMMA NamingStep == ASSUME IInv, [Next]_vars PROVE Naming'
<1>1. ASSUME NEW r \in Requests, r \in groups' \/ Exists(r)' PROVE pc'[r] = "done"
  <2>1. CASE r \in groups \/ Exists(r)
    BY <2>1, RequestKept DEF IInv, Naming
  <2>2. CASE CreateModule(r)
    BY <2>2 DEF CreateModule, Moves, IInv, TypeOK
  <2>. QED  BY <1>1, <2>1, <2>2, RowComes, GroupComes DEF IInv, Modules
<1>2. ASSUME NEW r \in Requests, req'[r].group \in Requests PROVE pc'[req'[r].group] = "done"
  <2>1. CASE req'[r] = req[r]
    BY <1>2, <2>1, RequestKept DEF IInv, Naming
  <2>2. CASE Begin(r)
    <3>1. PICK op \in Ops, m \in Modules \cup {None}, g \in Groups \cup {None}, l \in Languages \cup {None} :
            /\ \/ op = "create" /\ m = None /\ g = None /\ l # None
               \/ m # None /\ Asks(op, m, g, l)
            /\ req' = [req EXCEPT ![r] = [op |-> op, module |-> m, group |-> g, language |-> l]]
      BY <2>2 DEF Begin
    <3>2. req'[r].group = g /\ g # None
      BY <1>2, <3>1, NameAssumption DEF IInv, TypeOK
    <3>3. g \in groups
      BY <3>1, <3>2 DEF Asks, MayBePrimary, IInv, GroupsAreWhole, Exists, Editable
    <3>. QED  BY <1>2, <3>2, <3>3, RequestKept DEF IInv, Naming
  <2>3. CASE pc[r] = "new" /\ pc'[r] = "new"
    <3>1. req'[r] = req[r]
      BY <2>3, RequestQuiet DEF IInv
    <3>. QED  BY <2>1, <3>1
  <2>. QED  BY <2>1, <2>2, <2>3, RequestKept, RequestBegins DEF IInv
<1>. QED
  BY <1>1, <1>2 DEF Naming

LEMMA ExclusiveStep == ASSUME IInv, [Next]_vars PROVE Exclusive'
<1>1. ASSUME NEW r \in Requests, Holding(r)', ~Holding(r)
      PROVE  ~Locked(req[r].module) /\ req' = req /\ \A q \in Requests \ {r} : pc'[q] = pc[q]
  <2>1. CheckLink(r) \/ LockForDelete(r) \/ MoveModule(r)
    BY <1>1, PlaceShape DEF IInv, Holding
  <2>. QED
    BY <1>1, <2>1, PlaceComes DEF CheckLink, LockForDelete, MoveModule, Free, Holding, At, IInv
<1>2. ASSUME NEW q \in Requests, NEW r \in Requests, q # r, ~Holding(r), Holding(q)', Holding(r)'
      PROVE  req'[q].module # req'[r].module
  <2>1. Holding(q)
    BY <1>1, <1>2 DEF Holding
  <2>. QED  BY <1>1, <1>2, <2>1 DEF Locked, Holding
<1>3. ASSUME NEW q \in Requests, NEW r \in Requests, q # r, Holding(q), Holding(r)
      PROVE  req'[q].module # req'[r].module
  BY <1>3, RequestKept DEF IInv, Exclusive, Holding
<1>. QED
  BY <1>2, <1>3 DEF Exclusive

\* Nobody reads, for the first time, a module that is about to be linked.
LEMMA ReadComes ==
    ASSUME IInv, [Next]_vars, NEW q \in Requests,
           q \in progress' \/ At(q, "read", "inserted")',
           ~(q \in progress \/ At(q, "read", "inserted"))
    PROVE  Insert(q) /\ ~Locked(req[q].module) /\ req' = req
<1>1. CASE q \in progress'
  BY <1>1, ProgressComes DEF CommitInsert, At, Filing, IInv
<1>2. CASE At(q, "read", "inserted")' /\ pc'[q] # pc[q]
  BY <1>2, PlaceShape DEF Insert, At, IInv, Op
<1>3. CASE At(q, "read", "inserted")' /\ pc'[q] = pc[q]
  BY <1>3, RequestKept DEF At, IInv, Op
<1>. QED
  BY <1>1, <1>2, <1>3

LEMMA LinkingStep == ASSUME IInv, [Next]_vars PROVE Linking'
<1>0. ASSUME NEW r \in Requests, Links(r)
      PROVE  /\ req[r].module \in Modules /\ Exists(req[r].module) /\ req'[r] = req[r]
             /\ Holding(r) /\ Locked(req[r].module)
             /\ row'[req[r].module].language = Language(r)
             /\ Holding(r)' => row'[req[r].module].group = row[req[r].module].group
  <2>1. /\ req[r].module \in Modules /\ Exists(req[r].module) /\ req'[r] = req[r]
        /\ Holding(r) /\ Locked(req[r].module)
    BY <1>0, RequestKept DEF IInv, Asking, Links, At, Holding, Locked
  <2>2. row'[req[r].module].language = Language(r)
    BY <2>1, RowKept DEF IInv, Language
  <2>3. ASSUME NEW p \in Requests, LinkVariant(p), req[p].module = req[r].module
        PROVE  ~Holding(r)'
    <3>1. p = r
      BY <2>1, <2>3 DEF LinkVariant, At, IInv, Exclusive, Holding
    <3>. QED  BY <2>3, <3>1 DEF LinkVariant, Moves, IInv, TypeOK, Holding
  <2>. QED  BY <2>1, <2>2, <2>3, RowKept DEF IInv
<1>1. ASSUME NEW r \in Requests, Links(r)'
      PROVE  /\ row'[req'[r].module].group # req'[r].group
             /\ \A q \in Requests : q \in progress' \/ At(q, "read", "inserted")' =>
                   req'[q].module # req'[r].module
  <2>1. CASE Links(r)
    <3>1. row'[req'[r].module].group # req'[r].group
      BY <1>0, <1>1, <2>1 DEF IInv, Linking, Links, At, Holding
    <3>2. ASSUME NEW q \in Requests, q \in progress' \/ At(q, "read", "inserted")'
          PROVE  req'[q].module # req'[r].module
      <4>1. CASE q \in progress \/ At(q, "read", "inserted")
        <5>1. req'[q] = req[q]
          BY <4>1, RequestKept DEF IInv, Records, At
        <5>. QED  BY <1>0, <2>1, <4>1, <5>1 DEF IInv, Linking
      <4>2. CASE ~(q \in progress \/ At(q, "read", "inserted"))
        BY <1>0, <2>1, <3>2, <4>2, ReadComes
      <4>. QED  BY <4>1, <4>2
    <3>. QED  BY <3>1, <3>2
  <2>2. CASE ~Links(r)
    <3>1. CheckLink(r)
      BY <1>1, <2>2, PlaceShape, RequestKept
         DEF IInv, Links, At, Op, LockForDelete, MoveModule, Holding
    <3>2. /\ req' = req /\ row' = row /\ progress' = progress
          /\ MayLink(req[r].module, req[r].group) /\ ~Named(req[r].module)
          /\ req[r].module \in Modules
      BY <3>1 DEF CheckLink, Free, IInv, Asking, At
    <3>3. ASSUME NEW q \in Requests, q \in progress' \/ At(q, "read", "inserted")'
          PROVE  req[q].module # req[r].module
      <4>1. CASE q \in progress
        BY <3>2, <4>1 DEF MayLink, Under, IInv, Records
      <4>2. CASE q \notin progress
        <5>1. q # r /\ At(q, "read", "inserted")
          BY <3>1, <3>2, <3>3, <4>2, PlaceComes DEF At, Op, IInv, CheckLink, TypeOK, Moves
        <5>. QED  BY <3>2, <5>1 DEF Named
      <4>. QED  BY <4>1, <4>2
    <3>. QED  BY <3>2, <3>3 DEF MayLink
  <2>. QED  BY <2>1, <2>2
<1>2. ASSUME NEW r \in Requests, At(r, "link", "moved")', ~At(r, "link", "moved")
      PROVE  MoveModule(r) /\ Links(r) /\ \A q \in Requests \ {r} : pc'[q] = pc[q]
  BY <1>2, PlaceShape, PlaceComes, RequestKept DEF IInv, At, Op, MoveModule, Links
<1>3. ASSUME NEW r \in Requests, At(r, "link", "moved")'
      PROVE  (req[r].group \in groups /\ Language(r) \notin Spoken(req[r].group))'
  <2>1. CASE At(r, "link", "moved")
    <3>. DEFINE g == req[r].group
    <3>1. Links(r) /\ req'[r] = req[r] /\ g \in groups /\ Language(r) \notin Spoken(g)
      BY <1>0, <2>1 DEF Links, IInv, Linking
    <3>2. g \in groups'
      <4>. SUFFICES ASSUME g \notin groups' PROVE FALSE
        OBVIOUS
      <4>. PICK p \in Requests : LinkVariant(p) /\ g = row[req[p].module].group
        BY <3>1, GroupGoes
      <4>. QED  BY <2>1 DEF LinkVariant, Held
    <3>3. ASSUME NEW n \in Modules, Exists(n)', row'[n].group = g, row'[n].language = Language(r)
          PROVE  FALSE
      <4>1. CASE ~Exists(n)
        <5>1. CreateModule(n) /\ n \in Requests
          BY <3>3, <4>1, RowComes DEF IInv
        <5>2. row'[n].group = n
          BY <3>3, <5>1 DEF CreateModule, NewModule, IInv, TypeOK
        <5>. QED  BY <3>1, <3>3, <5>1, <5>2 DEF CreateModule, At, IInv, Naming
      <4>2. CASE Exists(n) /\ row'[n].group = row[n].group
        <5>1. row[n].language = Language(r)
          BY <3>3, <4>2, RowKept DEF IInv
        <5>. QED  BY <3>1, <3>3, <4>2, <5>1 DEF Spoken, Variants
      <4>3. ASSUME Exists(n), NEW p \in Requests, LinkVariant(p), req[p].module = n
            PROVE  FALSE
        <5>1. p # r
          BY <1>3, <4>3 DEF LinkVariant, Moves, At, IInv, TypeOK
        <5>2. row'[n].group = req[p].group
          BY <3>3, <4>3 DEF LinkVariant, IInv, TypeOK, Row
        <5>3. Language(p) = Language(r)
          BY <3>3, <4>3, RowKept DEF IInv, Language
        <5>. QED  BY <2>1, <3>3, <4>3, <5>1, <5>2, <5>3 DEF LinkVariant, IInv, Linking
      <4>. QED  BY <3>3, <4>1, <4>2, <4>3, RowKept DEF IInv
    <3>4. Language(r)' = Language(r)
      BY <1>0, <3>1 DEF Language
    <3>. QED  BY <3>1, <3>2, <3>3, <3>4 DEF Spoken, Variants
  <2>2. CASE ~At(r, "link", "moved")
    <3>1. MoveModule(r)
      BY <1>2, <1>3, <2>2
    <3>. QED  BY <3>1 DEF MoveModule, Language, Spoken, Variants, Exists
  <2>. QED  BY <2>1, <2>2
<1>4. ASSUME NEW q \in Requests, NEW r \in Requests, q # r,
             At(q, "link", "moved")', At(r, "link", "moved")', req'[q].group = req'[r].group,
             At(q, "link", "moved")
      PROVE  Language(q)' # Language(r)'
  <2>1. CASE At(r, "link", "moved")
    <3>1. Language(q)' = Language(q) /\ Language(r)' = Language(r) /\ req'[q] = req[q] /\ req'[r] = req[r]
      BY <1>0, <1>4, <2>1 DEF Links, Language
    <3>. QED  BY <1>4, <2>1, <3>1 DEF IInv, Linking
  <2>2. CASE ~At(r, "link", "moved")
    <3>1. MoveModule(r)
      BY <1>2, <1>4, <2>2
    <3>. QED  BY <1>4, <3>1 DEF MoveModule, Language
  <2>. QED  BY <2>1, <2>2
<1>5. ASSUME NEW q \in Requests, NEW r \in Requests, q # r,
             At(q, "link", "moved")', At(r, "link", "moved")', req'[q].group = req'[r].group
      PROVE  Language(q)' # Language(r)'
  <2>1. At(q, "link", "moved") \/ At(r, "link", "moved")
    BY <1>2, <1>5 DEF At, Links, MoveModule, Op
  <2>. QED  BY <1>4, <1>5, <2>1
<1>. QED
  BY <1>1, <1>3, <1>5 DEF Linking

\* A module leaves its group only with the group.
LEMMA VariantStays ==
    ASSUME IInv, [Next]_vars, NEW g \in groups, g \in groups', NEW n \in Variants(g)
    PROVE  n \in Modules /\ Exists(n)' /\ row'[n].group = g
<1>1. n \in Modules /\ Exists(n) /\ row[n].group = g
  BY DEF Variants
<1>2. ASSUME NEW p \in Requests, LinkVariant(p), req[p].module = n PROVE FALSE
  BY <1>1, <1>2 DEF LinkVariant, Dissolves
<1>. QED
  BY <1>1, <1>2, RowKept DEF IInv

LEMMA PrimaryStays ==
    ASSUME IInv, [Next]_vars, NEW g \in groups, g \in groups'
    PROVE  \/ primary'[g] = primary[g]
           \/ \E r \in Requests : SetPrimary(r) /\ req[r].group = g /\ primary'[g] = req[r].module
<1>. USE DEF IInv, TypeOK
<1>1. ASSUME NEW r \in Requests, CreateModule(r) PROVE primary'[g] = primary[g]
  BY <1>1 DEF CreateModule, At, Naming
<1>2. ASSUME NEW r \in Requests, LinkVariant(r) PROVE primary'[g] = primary[g]
  BY <1>2 DEF LinkVariant, Dissolves
<1>3. ASSUME NEW r \in Requests, SetPrimary(r), req[r].group # g PROVE primary'[g] = primary[g]
  BY <1>3 DEF SetPrimary
<1>4. ASSUME NEW r \in Requests, SetPrimary(r), req[r].group = g PROVE primary'[g] = req[r].module
  BY <1>4 DEF SetPrimary
<1>. QED
  BY <1>1, <1>2, <1>3, <1>4
     DEF Next, Step, Begin, Fail, CheckLink, MoveModule, Insert, CommitInsert,
         LockForDelete, DeleteModule, Publishes, Unassign, vars

\* What a new module, and a linked one, look like.
LEMMA CreateShape ==
    ASSUME IInv, NEW r \in Requests, CreateModule(r)
    PROVE  /\ row'[r].group = r /\ row'[r].status = "draft"
           /\ \A m \in Modules \ {r} : row'[m] = row[m]
           /\ groups' = groups \cup {r} /\ r \notin groups /\ ~Exists(r) /\ primary'[r] = r
BY DEF CreateModule, NewModule, At, Naming, IInv, TypeOK, Modules, Groups

LEMMA LinkShape ==
    ASSUME IInv, NEW p \in Requests, LinkVariant(p), NEW m, m = req[p].module
    PROVE  /\ m \in Modules /\ Exists(m)
           /\ row'[m].group = req[p].group /\ row'[m].language = row[m].language
           /\ \A n \in Modules \ {m} : row'[n] = row[n]
           /\ groups' = groups \ {row[m].group} /\ Variants(row[m].group) = {m}
           /\ req[p].group \in groups /\ req[p].group # row[m].group
           /\ row[m].language \notin Spoken(req[p].group)
<1>1. At(p, "link", "moved") /\ m \in Modules /\ Exists(m)
  BY DEF LinkVariant, At, Asking, IInv
<1>2. /\ row'[m].group = req[p].group /\ row'[m].language = row[m].language
      /\ \A n \in Modules \ {m} : row'[n] = row[n]
  BY <1>1 DEF LinkVariant, IInv, TypeOK, Row
<1>3. groups' = groups \ {row[m].group} /\ Variants(row[m].group) = {m}
  BY DEF LinkVariant, Dissolves
<1>4. /\ req[p].group \in groups /\ req[p].group # row[m].group
      /\ row[m].language \notin Spoken(req[p].group)
  BY <1>1 DEF IInv, Linking, Links, Language
<1>. QED
  BY <1>1, <1>2, <1>3, <1>4

LEMMA GroupsStep == ASSUME IInv, [Next]_vars PROVE GroupsAreWhole'
<1>1. ASSUME NEW m \in Modules, Exists(m)' PROVE row'[m].group \in groups'
  <2>1. CASE ~Exists(m)
    BY <1>1, <2>1, RowComes, CreateShape DEF IInv
  <2>2. ASSUME Exists(m), NEW p \in Requests, LinkVariant(p), req[p].module = m
        PROVE  row'[m].group \in groups'
    BY <2>2, LinkShape
  <2>3. CASE Exists(m) /\ row'[m].group = row[m].group
    <3>1. row[m].group \in groups /\ m \in Variants(row[m].group)
      BY <2>3 DEF IInv, GroupsAreWhole, Variants
    <3>2. ASSUME row[m].group \notin groups' PROVE FALSE
      <4>. PICK p \in Requests : LinkVariant(p) /\ row[m].group = row[req[p].module].group
        BY <3>1, <3>2, GroupGoes
      <4>1. m = req[p].module
        BY <3>1, LinkShape
      <4>. QED  BY <2>3, <4>1, LinkShape
    <3>. QED  BY <2>3, <3>2
  <2>. QED  BY <2>1, <2>2, <2>3, RowKept DEF IInv
<1>2. ASSUME NEW g \in groups' PROVE (primary[g] \in Variants(g))'
  <2>. SUFFICES primary'[g] \in Modules /\ row'[primary'[g]].status # "none" /\ row'[primary'[g]].group = g
    BY DEF Variants, Exists
  <2>1. CASE g \notin groups
    BY <1>2, <2>1, GroupComes, CreateShape DEF Modules
  <2>2. ASSUME NEW r \in Requests, g \in groups, SetPrimary(r), req[r].group = g, primary'[g] = req[r].module
        PROVE  primary'[g] \in Modules /\ row'[primary'[g]].status # "none" /\ row'[primary'[g]].group = g
    <3>1. req[r].module \in Variants(g)
      BY <2>2 DEF SetPrimary, At, IInv, Filing
    <3>. QED  BY <1>2, <2>2, <3>1, VariantStays DEF Exists
  <2>3. CASE g \in groups /\ primary'[g] = primary[g]
    BY <1>2, <2>3, VariantStays DEF IInv, GroupsAreWhole, Exists
  <2>. QED  BY <1>2, <2>1, <2>2, <2>3, PrimaryStays
<1>3. ASSUME NEW m \in Modules, NEW n \in Modules, Exists(m)', Exists(n)', m # n,
             row'[m].group = row'[n].group
      PROVE  row'[m].language # row'[n].language
  <2>1. ASSUME NEW k \in Modules, NEW l \in Modules, k # l, ~Exists(k), Exists(k)', Exists(l)',
               row'[k].group = row'[l].group
        PROVE  FALSE
    <3>1. k \in Requests /\ CreateModule(k)
      BY <2>1, RowComes DEF IInv
    <3>2. row[l].group = k /\ Exists(l) /\ k \notin groups
      BY <2>1, <3>1, CreateShape DEF Exists
    <3>. QED  BY <3>2 DEF IInv, GroupsAreWhole
  <2>2. ASSUME NEW k \in Modules, NEW l \in Modules, k # l, Exists(k), Exists(l),
               row'[k].group = row'[l].group, row'[k].group # row[k].group
        PROVE  row'[k].language # row'[l].language
    <3>1. PICK p \in Requests : LinkVariant(p) /\ req[p].module = k
      BY <2>2, RowKept DEF IInv
    <3>2. row[l] = row'[l] /\ row[l].group = req[p].group
      BY <2>2, <3>1, LinkShape
    <3>3. row[l].language \in Spoken(req[p].group)
      BY <2>2, <3>2 DEF Spoken, Variants
    <3>. QED  BY <3>1, <3>2, <3>3, LinkShape
  <2>3. CASE Exists(m) /\ Exists(n) /\ row'[m].group = row[m].group /\ row'[n].group = row[n].group
    <3>1. row'[m].language = row[m].language /\ row'[n].language = row[n].language
      BY <2>3, RowKept DEF IInv
    <3>2. row[m].language # row[n].language
      BY <1>3, <2>3 DEF IInv, GroupsAreWhole
    <3>. QED  BY <3>1, <3>2
  <2>. QED  BY <1>3, <2>1, <2>2, <2>3
<1>. QED
  BY <1>1, <1>2, <1>3 DEF GroupsAreWhole

LEMMA FilingStep == ASSUME IInv, [Next]_vars PROVE Filing'
<1>1. ASSUME NEW r \in Requests, pc'[r] \in {"asked", "inserted"},
             Op(r)' \in {"primary", "assign", "read"}, req'[r].group \in groups'
      PROVE  (req[r].module \in Variants(req[r].group))'
  <2>. DEFINE g == req'[r].group
  <2>. SUFFICES /\ req'[r].module \in Modules /\ row'[req'[r].module].status # "none"
                /\ row'[req'[r].module].group = g
    BY DEF Variants, Exists
  <2>1. CASE Begin(r)
    <3>1. PICK op \in Ops, m \in Modules \cup {None}, h \in Groups \cup {None}, l \in Languages \cup {None} :
            /\ \/ op = "create" /\ m = None /\ h = None /\ l # None
               \/ m # None /\ Asks(op, m, h, l)
            /\ req' = [req EXCEPT ![r] = [op |-> op, module |-> m, group |-> h, language |-> l]]
      BY <2>1 DEF Begin
    <3>2. req'[r] = [op |-> op, module |-> m, group |-> h, language |-> l] /\ row' = row
      BY <2>1, <3>1 DEF Begin, IInv, TypeOK
    <3>3. Asks(op, m, h, l) /\ op \in {"primary", "assign", "read"} /\ m \in Modules
      BY <1>1, <3>1, <3>2 DEF Op
    <3>4. Exists(m) /\ row[m].group = h
      BY <3>3 DEF Asks, MayBePrimary, Variants, Editable, Exists
    <3>. QED  BY <3>2, <3>3, <3>4 DEF Exists
  <2>2. CASE ~Begin(r)
    <3>1. pc[r] \in {"asked", "inserted"} /\ req'[r] = req[r]
      BY <1>1, <2>2, PlaceShape, RequestKept DEF IInv, Insert, At
    <3>2. ASSUME g \notin groups PROVE FALSE
      <4>1. g \in Requests /\ CreateModule(g)
        BY <1>1, <3>2, GroupComes
      <4>. QED  BY <3>1, <4>1 DEF CreateModule, At, IInv, Naming
    <3>3. req[r].module \in Variants(g)
      BY <1>1, <3>1, <3>2 DEF IInv, Filing, Op
    <3>. QED  BY <1>1, <3>1, <3>2, <3>3, VariantStays DEF Exists
  <2>. QED  BY <2>1, <2>2
<1>2. ASSUME NEW r \in Requests, pc'[r] = "inserted"
      PROVE  Op(r)' \in {"assign", "read"} /\ req'[r].group \in groups'
  <2>1. CASE Insert(r)
    BY <2>1 DEF Insert, At, Op
  <2>2. CASE ~Insert(r)
    <3>1. pc[r] = "inserted" /\ req'[r] = req[r]
      BY <1>2, <2>2, PlaceShape, RequestKept DEF IInv
    <3>2. ASSUME req[r].group \notin groups' PROVE FALSE
      <4>. PICK p \in Requests : LinkVariant(p) /\ req[r].group = row[req[p].module].group
        BY <3>1, <3>2, GroupGoes DEF IInv, Filing
      <4>. QED  BY <3>1 DEF LinkVariant, Held
    <3>. QED  BY <3>1, <3>2 DEF IInv, Filing, Op
  <2>. QED  BY <2>1, <2>2
<1>. QED
  BY <1>1, <1>2 DEF Filing

LEMMA RecordsStep == ASSUME IInv, [Next]_vars PROVE Records'
<1>. SUFFICES ASSUME NEW r \in Requests, r \in assigned' \cup progress'
              PROVE  /\ pc'[r] = "done" /\ Op(r)' \in {"assign", "read"}
                     /\ row'[req'[r].module].group = req'[r].group
  BY TypeStep DEF Records, TypeOK
<1>1. CASE r \in assigned \cup progress
  <2>1. pc'[r] = "done" /\ req'[r] = req[r] /\ Op(r) \in {"assign", "read"}
    BY <1>1, RequestKept DEF IInv, Records
  <2>2. req[r].module \in Modules /\ Exists(req[r].module) /\ row[req[r].module].group = req[r].group
    BY <1>1 DEF IInv, Records, Asking
  <2>3. ASSUME NEW p \in Requests, LinkVariant(p), req[p].module = req[r].module PROVE FALSE
    BY <2>2, <2>3 DEF LinkVariant, Dissolves, Under
  <2>. QED  BY <2>1, <2>2, <2>3, RowKept DEF IInv, Op
<1>2. CASE r \notin assigned \cup progress
  <2>1. CommitInsert(r)
    BY <1>2, RecordComes
  <2>. QED  BY <2>1 DEF CommitInsert, IInv, Filing, Variants, Moves, TypeOK, Op
<1>. QED
  BY <1>1, <1>2

LEMMA Invariance == Spec => []IInv
<1>1. ASSUME IInv, [Next]_vars PROVE IInv'
  BY <1>1, TypeStep, AskingStep, NamingStep, ExclusiveStep, LinkingStep, GroupsStep, FilingStep, RecordsStep
     DEF IInv
<1>. QED
  BY <1>1, InitInv, PTL DEF Spec

-----------------------------------------------------------------------------
(* The theorems                                                            *)

\* The shape of the rows and the requests, for any modules and any number of
\* requests.
THEOREM TranslationsTypeCorrect == Spec => []TypeOK
<1>1. IInv => TypeOK
  BY DEF IInv
<1>. QED
  BY <1>1, Invariance, PTL

\* However many links, nominations and deletions race, every module is in a group
\* there is, every group has a primary of its own, and one variant a language.
THEOREM GroupsStayWhole == Spec => []GroupsAreWhole
<1>1. IInv => GroupsAreWhole
  BY DEF IInv
<1>. QED
  BY <1>1, Invariance, PTL

\* No assignment and no progress is left behind by a link, however many requests
\* write while it runs.
THEOREM RecordsFollow == Spec => []RecordsFollowTheirModule
<1>1. IInv => RecordsFollowTheirModule
  BY DEF IInv, Records, RecordsFollowTheirModule
<1>. QED
  BY <1>1, Invariance, PTL

\* The cascade of a link takes no progress, however many learners open the module
\* while it runs.
THEOREM NoProgressIsLost == Spec => ProgressIsKept
<1>1. ASSUME IInv, [Next]_vars, NEW q \in progress PROVE q \in progress'
  <2>1. ASSUME NEW p \in Requests, LinkVariant(p), q \notin progress' PROVE FALSE
    <3>1. q \in Requests /\ req[q].group = row[req[p].module].group
      BY <1>1, <2>1 DEF LinkVariant, Dissolves, Under, IInv, TypeOK
    <3>2. req[q].module \in Variants(row[req[p].module].group)
      BY <1>1, <3>1 DEF IInv, Records, Asking, Variants
    <3>3. req[q].module = req[p].module
      BY <2>1, <3>2 DEF LinkVariant
    <3>. QED  BY <1>1, <2>1, <3>1, <3>3 DEF LinkVariant, Links, IInv, Linking
  <2>2. ASSUME NEW p \in Requests, CommitInsert(p) PROVE q \in progress'
    BY <1>1, <2>2 DEF CommitInsert
  <2>. QED
    BY <1>1, <2>1, <2>2
       DEF Next, Step, Begin, Fail, CreateModule, CheckLink, MoveModule, SetPrimary, Insert,
           LockForDelete, DeleteModule, Publishes, Unassign, vars
<1>2. ASSUME IInv, [Next]_vars PROVE progress \subseteq progress'
  BY <1>1, <1>2
<1>. QED
  BY <1>2, Invariance, PTL DEF Spec, ProgressIsKept
=============================================================================
