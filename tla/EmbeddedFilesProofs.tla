------------------------- MODULE EmbeddedFilesProofs -------------------------
(***************************************************************************)
(* Theorems about EmbeddedFiles, for any number of authors, copies, files  *)
(* and versions.                                                           *)
(*                                                                         *)
(* What both properties rest on is that no text, list or version names a   *)
(* file whose upload is still under way (`Settled`): a file that is named  *)
(* somewhere and is not there was deleted, and does not come back.         *)
(***************************************************************************)
EXTENDS EmbeddedFiles, FiniteSetTheorems, TLAPS

Uploading(t) == pc[t] = "writing" /\ req[t].op = "upload"
\* The files whose upload has ended, one way or the other.
Settled == {f \in Files : dated[f] > 0 /\ \A t \in Authors : Uploading(t) => req[t].file # f}

\* An upload under way has a file, and a file of its own.
OwnFiles ==
    \A t \in Authors : Uploading(t) =>
        /\ req[t].file \in Files
        /\ dated[req[t].file] > 0
        /\ \A u \in Authors : Uploading(u) /\ req[u].file = req[t].file => u = t

OnlySettled ==
    /\ files \subseteq Settled
    /\ body \subseteq Settled
    /\ \A t \in Authors : panel[t].listed \subseteq Settled
    /\ \A t \in Authors : req[t].listed \subseteq Settled
    /\ \A t \in Authors : editor[t] \subseteq Settled
    /\ \A n \in 1..Len(intact) : intact[n] \subseteq Settled
    /\ \A m \in Makers : made[m].text \subseteq Settled

\* Screens have counted no version that is still to come.
NoneCountedAhead ==
    /\ status = "deleted" => Len(versions) = 0
    /\ \A t \in Authors : status = "live" => panel[t].seen <= Len(versions)

PanelsTell ==
    \A t \in Authors : \A n \in 1..Len(versions) : \A f \in intact[n] \cap files :
        n <= panel[t].seen => panel[t].use[f] = "version"

IntactIsNamed == \A n \in 1..Len(versions) : intact[n] \subseteq versions[n]

\* A duplicate has every file it will name but those added since it looked; an
\* archive has every file it names.
CopyInv(m) ==
    /\ made[m].at # "unasked" => made[m].op \in {"duplicate", "export"}
    /\ At(m, "duplicate", "text") => files \ made[m].files \subseteq late[m]
    /\ At(m, "duplicate", "made") => LeftAlone(m) \cap files \subseteq late[m]
    /\ At(m, "export", "packed") \/ At(m, "export", "made") => LeftAlone(m) \cap files = {}

FilesInv ==
    /\ TypeOK
    /\ OwnFiles
    /\ OnlySettled
    /\ NoneCountedAhead
    /\ IntactIsNamed
    /\ PanelsTell
    /\ GapsAreExplained
    /\ \A m \in Makers : CopyInv(m)
---------------------------------------------------------------------------
(* The shape of the state.                                                 *)

LEMMA TypeInit == Init => TypeOK
BY NoneAssumption, VersionsAssumption
   DEF Init, TypeOK, Use, Uses, Blank, NoRequest, Unread, Panel, Request, Making

\* Dates are numbers.
LEMMA BegunIsFinite == Cardinality(Begun) \in Nat
BY FilesAssumption, FS_Subset, FS_CardinalityType DEF Begun

LEMMA TypeStep == TypeOK /\ OwnFiles /\ [Next]_vars => TypeOK'
<1> SUFFICES ASSUME TypeOK, OwnFiles, [Next]_vars PROVE TypeOK'
  OBVIOUS
<1>t. NoRequest \in Request
  BY DEF Request, NoRequest
<1> USE DEF TypeOK
<1>1. ASSUME NEW t \in Authors, InsertFile(t) PROVE TypeOK'
  BY <1>1 DEF InsertFile, makers, Panel
<1>2. ASSUME NEW t \in Authors, SavePage(t) PROVE TypeOK'
  BY <1>2 DEF SavePage, makers
<1>3. CASE TakeOut
  BY <1>3 DEF TakeOut, makers
<1>4. CASE PublishModule
  <2>1. versions' \in Seq(SUBSET Files) /\ Len(versions') = Len(versions) + 1
    BY <1>4 DEF PublishModule
  <2>2. intact' \in Seq(SUBSET Files) /\ Len(intact') = Len(intact) + 1
    BY <1>4 DEF PublishModule
  <2>3. Len(versions) < MaxVersions /\ Len(versions) \in Nat
    BY <1>4 DEF PublishModule
  <2> QED
    BY <1>4, <2>1, <2>2, <2>3, VersionsAssumption DEF PublishModule, makers
<1>5. CASE DeleteModule
  BY <1>5, VersionsAssumption DEF DeleteModule, makers
<1>6. ASSUME NEW t \in Authors, OpenScreen(t) PROVE TypeOK'
  <2>1. req' \in [Authors -> Request]
    <3>1. [NoRequest EXCEPT !.op = "open"] \in Request
      BY DEF NoRequest, Request
    <3> QED BY <1>6, <1>t, <3>1 DEF OpenScreen
  <2>2. Blank \in Panel
    BY DEF Panel, Blank, Use, Uses
  <2> QED
    BY <1>6, <2>1, <2>2 DEF OpenScreen, module, makers
<1>7. ASSUME NEW t \in Authors, Upload(t) PROVE TypeOK'
  <2>1. PICK f \in Files \ Begun :
             /\ dated' = [dated EXCEPT ![f] = Cardinality(Begun) + 1]
             /\ req' = [req EXCEPT ![t] = [NoRequest EXCEPT !.op = "upload", !.file = f]]
    BY <1>7 DEF Upload
  <2>2. req' \in [Authors -> Request]
    <3>1. [NoRequest EXCEPT !.op = "upload", !.file = f] \in Request
      BY DEF NoRequest, Request
    <3> QED BY <2>1, <3>1
  <2>3. dated' \in [Files -> Nat]
    BY <2>1, BegunIsFinite
  <2> QED
    BY <1>7, <2>2, <2>3 DEF Upload, module, makers
<1>8. ASSUME NEW t \in Authors, StoreFile(t) PROVE TypeOK'
  <2>1. req[t].file \in Files
    BY <1>8 DEF StoreFile, OwnFiles, Uploading
  <2>2. late' \in [Makers -> SUBSET Files]
    BY <1>8, <2>1 DEF StoreFile
  <2> QED
    BY <1>8, <2>1, <2>2 DEF StoreFile, module
<1>9. ASSUME NEW t \in Authors, AskRemove(t) PROVE TypeOK'
  <2>1. PICK f \in panel[t].listed :
             req' = [req EXCEPT ![t] = [NoRequest EXCEPT !.op = "remove", !.file = f]]
    BY <1>9 DEF AskRemove
  <2>2. req' \in [Authors -> Request]
    <3>1. [NoRequest EXCEPT !.op = "remove", !.file = f] \in Request
      BY DEF NoRequest, Request, Panel
    <3> QED BY <2>1, <3>1
  <2> QED
    BY <1>9, <2>2 DEF AskRemove, module, makers
<1>10. ASSUME NEW t \in Authors, RemoveFile(t) PROVE TypeOK'
  <2>1. [use |-> panel[t].use[req[t].file], seen |-> panel[t].seen] \in [use : Uses, seen : Nat]
    BY <1>10 DEF RemoveFile, Use, Panel
  <2>2. removal' \in [Files -> [use : Uses, seen : Nat]]
    BY <1>10, <2>1 DEF RemoveFile
  <2> QED
    BY <1>10, <2>2 DEF RemoveFile, module, makers
<1>11. ASSUME NEW t \in Authors, NoAnswer(t) PROVE TypeOK'
  <2>1. req' \in [Authors -> Request]
    <3> QED BY <1>11, <1>t DEF NoAnswer
  <2> QED
    BY <1>11, <2>1 DEF NoAnswer, module, makers
<1>12. ASSUME NEW t \in Authors, ListFiles(t) PROVE TypeOK'
  <2>1. req' \in [Authors -> Request]
    <3>1. req[t] \in Request /\ files \subseteq Files
      OBVIOUS
    <3>3. [req[t] EXCEPT !.listed = files] \in Request
      BY <3>1 DEF Request
    <3>2. req' = [req EXCEPT ![t] = [req[t] EXCEPT !.listed = files]]
      BY <1>12 DEF ListFiles
    <3> QED BY <3>3, <3>2
  <2> QED
    BY <1>12, <2>1 DEF ListFiles, module, makers
<1>13. ASSUME NEW t \in Authors, CountUses(t) PROVE TypeOK'
  <2>1. [f \in Files |-> UseOf(f)] \in Use
    BY DEF Use, Uses, UseOf
  <2>2. Len(versions) \in Nat
    OBVIOUS
  <2>3. panel' \in [Authors -> Panel]
    <3> DEFINE answer == [listed |-> req[t].listed, use |-> [f \in Files |-> UseOf(f)],
                          seen |-> Len(versions)]
    <3>1. answer \in Panel
      BY <2>1, <2>2 DEF Panel, Request
    <3>2. panel' = [panel EXCEPT ![t] = answer]
      BY <1>13 DEF CountUses
    <3> HIDE DEF answer
    <3> QED BY <3>1, <3>2
  <2>4. editor' \in [Authors -> SUBSET Files]
    <3>1. req[t].listed \subseteq Files
      BY DEF Request
    <3>2. Newest(req[t].listed) \subseteq Files
      BY <3>1 DEF Newest
    <3>3. CASE UNCHANGED editor
      BY <3>3
    <3>4. CASE \E f \in Newest(req[t].listed) : editor' = [editor EXCEPT ![t] = @ \cup {f}]
      BY <3>4, <3>2
    <3> QED BY <1>13, <3>3, <3>4 DEF CountUses
  <2>5. req' \in [Authors -> Request]
    <3> QED BY <1>13, <1>t DEF CountUses
  <2> QED
    BY <1>13, <2>3, <2>4, <2>5 DEF CountUses, module, makers
<1>14. ASSUME NEW m \in Makers, BeginDuplicate(m) \/ BeginExport(m) PROVE TypeOK'
  <2>1. [made[m] EXCEPT !.op = "duplicate", !.at = "files"] \in Making
    BY DEF Making
  <2>2. [made[m] EXCEPT !.op = "export", !.at = "text"] \in Making
    BY DEF Making
  <2>3. \/ made' = [made EXCEPT ![m] = [made[m] EXCEPT !.op = "duplicate", !.at = "files"]]
        \/ made' = [made EXCEPT ![m] = [made[m] EXCEPT !.op = "export", !.at = "text"]]
    BY <1>14 DEF BeginDuplicate, BeginExport, Order
  <2>4. made' \in [Makers -> Making]
    BY <2>1, <2>2, <2>3
  <2> QED
    BY <1>14, <2>4 DEF BeginDuplicate, BeginExport, module
<1>15. ASSUME NEW m \in Makers, ReadFiles(m) \/ ReadPages(m) PROVE TypeOK'
  <2>1. After(m, "files") \in {"text", "made", "packed"} /\ After(m, "text") \in {"files", "made"}
    BY <1>15 DEF After, Order, ReadFiles, ReadPages
  <2>2. /\ [made[m] EXCEPT !.files = files, !.at = After(m, "files")] \in Making
        /\ [made[m] EXCEPT !.text = body, !.at = After(m, "text")] \in Making
    <3>1. made[m] \in Making /\ files \subseteq Files /\ body \subseteq Files
      OBVIOUS
    <3> QED BY <2>1, <3>1 DEF Making
  <2>3. \/ made' = [made EXCEPT ![m] = [made[m] EXCEPT !.files = files, !.at = After(m, "files")]]
        \/ made' = [made EXCEPT ![m] = [made[m] EXCEPT !.text = body, !.at = After(m, "text")]]
    BY <1>15 DEF ReadFiles, ReadPages
  <2>4. made' \in [Makers -> Making]
    BY <2>2, <2>3
  <2> QED
    BY <1>15, <2>4 DEF ReadFiles, ReadPages, module
<1>16. ASSUME NEW m \in Makers, ImportModule(m) \/ GiveUp(m) PROVE TypeOK'
  <2>1. \A at \in {"made", "failed"} : [made[m] EXCEPT !.at = at] \in Making
    BY DEF Making
  <2>2. \E at \in {"made", "failed"} : made' = [made EXCEPT ![m] = [made[m] EXCEPT !.at = at]]
    BY <1>16 DEF ImportModule, GiveUp
  <2> QED
    BY <1>16, <2>1, <2>2 DEF ImportModule, GiveUp, module
<1>17. CASE UNCHANGED vars
  BY <1>17 DEF vars
<1> QED
  BY <1>1, <1>2, <1>3, <1>4, <1>5, <1>6, <1>7, <1>8, <1>9, <1>10, <1>11, <1>12, <1>13,
     <1>14, <1>15, <1>16, <1>17 DEF Next
---------------------------------------------------------------------------
(* Which uploads are under way: only `Upload` begins one.                  *)

\* What a step does to the uploads.
LEMMA UploadBegins ==
    ASSUME TypeOK, NEW t \in Authors, Upload(t)
    PROVE  \E f \in Files \ Begun :
              /\ dated' = [dated EXCEPT ![f] = Cardinality(Begun) + 1]
              /\ pc' = [pc EXCEPT ![t] = "writing"]
              /\ req'[t].op = "upload" /\ req'[t].file = f
              /\ \A u \in Authors \ {t} : req'[u] = req[u]
<1>1. PICK f \in Files \ Begun :
           /\ dated' = [dated EXCEPT ![f] = Cardinality(Begun) + 1]
           /\ req' = [req EXCEPT ![t] = [NoRequest EXCEPT !.op = "upload", !.file = f]]
  BY DEF Upload
<1>2. req'[t] = [NoRequest EXCEPT !.op = "upload", !.file = f] /\ \A u \in Authors \ {t} : req'[u] = req[u]
  BY <1>1 DEF TypeOK
<1>3. req'[t].op = "upload" /\ req'[t].file = f
  BY <1>2 DEF NoRequest
<1>4. pc' = [pc EXCEPT ![t] = "writing"]
  BY DEF Upload
<1> QED
  BY <1>1, <1>2, <1>3, <1>4, Zenon

LEMMA OthersBeginNone ==
    ASSUME TypeOK, [Next]_vars, ~\E t \in Authors : Upload(t)
    PROVE  /\ dated' = dated
           /\ \A t \in Authors : Uploading(t)' => Uploading(t) /\ req'[t].file = req[t].file
<1>1. ASSUME NEW t \in Authors,
             OpenScreen(t) \/ StoreFile(t) \/ NoAnswer(t) \/ ListFiles(t) \/ CountUses(t)
      PROVE  /\ dated' = dated
             /\ pc'[t] # "writing"
             /\ \A u \in Authors \ {t} : pc'[u] = pc[u] /\ req'[u] = req[u]
  <2>1. CASE OpenScreen(t)
    BY <2>1 DEF TypeOK, OpenScreen
  <2>2. CASE StoreFile(t)
    BY <2>2 DEF TypeOK, StoreFile
  <2>3. CASE NoAnswer(t)
    BY <2>3 DEF TypeOK, NoAnswer
  <2>4. CASE ListFiles(t)
    BY <2>4 DEF TypeOK, ListFiles
  <2>5. CASE CountUses(t)
    BY <2>5 DEF TypeOK, CountUses
  <2> QED
    BY <1>1, <2>1, <2>2, <2>3, <2>4, <2>5
<1>2. ASSUME NEW t \in Authors, AskRemove(t)
      PROVE  /\ dated' = dated
             /\ req'[t].op # "upload"
             /\ \A u \in Authors \ {t} : pc'[u] = pc[u] /\ req'[u] = req[u]
  <2>1. PICK f \in panel[t].listed :
             req' = [req EXCEPT ![t] = [NoRequest EXCEPT !.op = "remove", !.file = f]]
    BY <1>2 DEF AskRemove
  <2>2. req'[t] = [NoRequest EXCEPT !.op = "remove", !.file = f]
    BY <2>1 DEF TypeOK
  <2> QED BY <1>2, <2>1, <2>2 DEF AskRemove, TypeOK, NoRequest
<1>3. ASSUME NEW t \in Authors, RemoveFile(t)
      PROVE  /\ dated' = dated
             /\ pc'[t] # "writing"
             /\ \A u \in Authors \ {t} : pc'[u] = pc[u] /\ req'[u] = req[u]
  BY <1>3 DEF TypeOK, RemoveFile
<1>4. CASE UNCHANGED <<dated, pc, req>>
  BY <1>4 DEF Uploading
<1>5. ASSUME NEW t \in Authors,
             /\ dated' = dated
             /\ pc'[t] # "writing" \/ req'[t].op # "upload"
             /\ \A u \in Authors \ {t} : pc'[u] = pc[u] /\ req'[u] = req[u]
      PROVE  \A u \in Authors : Uploading(u)' => Uploading(u) /\ req'[u].file = req[u].file
  BY <1>5 DEF Uploading
<1> QED
  BY <1>1, <1>2, <1>3, <1>4, <1>5
     DEF Next, vars, InsertFile, SavePage, TakeOut, PublishModule, DeleteModule, BeginDuplicate,
         BeginExport, ReadFiles, ReadPages, ImportModule, GiveUp

\* A file stays settled, and uploads keep a file of their own.
LEMMA Settling ==
    ASSUME TypeOK, OwnFiles, [Next]_vars
    PROVE  OwnFiles' /\ Settled \subseteq Settled'
<1>1. ASSUME NEW t \in Authors, Upload(t) PROVE OwnFiles' /\ Settled \subseteq Settled'
  <2>1. PICK f \in Files \ Begun :
             /\ dated' = [dated EXCEPT ![f] = Cardinality(Begun) + 1]
             /\ pc' = [pc EXCEPT ![t] = "writing"]
             /\ req'[t].op = "upload" /\ req'[t].file = f
             /\ \A u \in Authors \ {t} : req'[u] = req[u]
    BY <1>1, UploadBegins
  <2>2. dated'[f] > 0 /\ \A g \in Files \ {f} : dated'[g] = dated[g]
    BY <2>1, BegunIsFinite DEF TypeOK
  <2>3. \A u \in Authors \ {t} : (Uploading(u)' <=> Uploading(u)) /\ req'[u] = req[u]
    BY <2>1 DEF Uploading, TypeOK
  <2>4. \A u \in Authors \ {t} : Uploading(u) => req[u].file # f
    BY <2>1 DEF OwnFiles, Begun, TypeOK
  <2>5. OwnFiles'
    BY <2>1, <2>2, <2>3, <2>4 DEF OwnFiles
  <2>6. \A g \in Settled : g # f
    BY <2>1 DEF Settled, Begun
  <2> QED
    BY <2>1, <2>2, <2>3, <2>5, <2>6 DEF Settled
<1>2. CASE ~\E t \in Authors : Upload(t)
  <2>1. /\ dated' = dated
        /\ \A t \in Authors : Uploading(t)' => Uploading(t) /\ req'[t].file = req[t].file
    BY <1>2, OthersBeginNone
  <2> QED
    BY <2>1 DEF OwnFiles, Settled
<1> QED BY <1>1, <1>2

\* The file an upload stores is settled from then on.
LEMMA StoredIsSettled ==
    ASSUME TypeOK, OwnFiles, NEW t \in Authors, StoreFile(t)
    PROVE  req[t].file \in Settled'
<1>1. Uploading(t)
  BY DEF StoreFile, Uploading
<1>2. /\ dated' = dated /\ req' = req
      /\ ~Uploading(t)'
      /\ \A u \in Authors \ {t} : Uploading(u)' => Uploading(u)
  BY DEF StoreFile, Uploading, TypeOK
<1> QED
  BY <1>1, <1>2 DEF OwnFiles, Settled
---------------------------------------------------------------------------
(* Nothing names a file that is still being uploaded.                      *)

LEMMA OnlySettledStep ==
    ASSUME TypeOK, OwnFiles, OnlySettled, [Next]_vars
    PROVE  OnlySettled'
<1> DEFINE S == Settled'
<1>1. Settled \subseteq S
  BY Settling
<1>2. files' \subseteq S
  <2>1. ASSUME NEW t \in Authors, StoreFile(t) PROVE files' \subseteq S
    BY <2>1, <1>1, StoredIsSettled DEF StoreFile, OnlySettled
  <2>2. CASE files' \subseteq files
    BY <2>2, <1>1 DEF OnlySettled
  <2> QED
    BY <2>1, <2>2
       DEF Next, vars, InsertFile, SavePage, TakeOut, PublishModule, DeleteModule, OpenScreen, Upload,
           AskRemove, RemoveFile, NoAnswer, ListFiles, CountUses, BeginDuplicate, BeginExport,
           ReadFiles, ReadPages, ImportModule, GiveUp
<1>3. body' \subseteq S
  <2>1. ASSUME NEW t \in Authors, SavePage(t) PROVE body' \subseteq S
    BY <2>1, <1>1 DEF SavePage, OnlySettled
  <2>2. CASE body' \subseteq body
    BY <2>2, <1>1 DEF OnlySettled
  <2> QED
    BY <2>1, <2>2
       DEF Next, vars, module, InsertFile, StoreFile, TakeOut, PublishModule, DeleteModule, OpenScreen,
           Upload, AskRemove, RemoveFile, NoAnswer, ListFiles, CountUses, BeginDuplicate, BeginExport,
           ReadFiles, ReadPages, ImportModule, GiveUp
<1>4. \A t \in Authors : panel'[t].listed \subseteq S
  <2>1. ASSUME NEW t \in Authors, OpenScreen(t) PROVE \A u \in Authors : panel'[u].listed \subseteq S
    <3>1. panel'[t].listed = {} /\ \A u \in Authors \ {t} : panel'[u] = panel[u]
      BY <2>1 DEF OpenScreen, Blank, TypeOK
    <3> QED BY <3>1, <1>1 DEF OnlySettled
  <2>2. ASSUME NEW t \in Authors, CountUses(t) PROVE \A u \in Authors : panel'[u].listed \subseteq S
    <3>1. panel'[t].listed = req[t].listed /\ \A u \in Authors \ {t} : panel'[u] = panel[u]
      BY <2>2 DEF CountUses, TypeOK
    <3> QED BY <3>1, <1>1 DEF OnlySettled
  <2>3. CASE panel' = panel
    BY <2>3, <1>1 DEF OnlySettled
  <2> QED
    BY <2>1, <2>2, <2>3
       DEF Next, vars, InsertFile, SavePage, TakeOut, PublishModule, DeleteModule, Upload, StoreFile,
           AskRemove, RemoveFile, NoAnswer, ListFiles, BeginDuplicate, BeginExport,
           ReadFiles, ReadPages, ImportModule, GiveUp
<1>5. \A t \in Authors : req'[t].listed \subseteq S
  <2>1. ASSUME NEW t \in Authors,
               OpenScreen(t) \/ Upload(t) \/ AskRemove(t) \/ NoAnswer(t) \/ CountUses(t)
        PROVE  \A u \in Authors : req'[u].listed \subseteq S
    <3>1. req'[t].listed = {}
      <4>1. CASE OpenScreen(t)
        BY <4>1 DEF OpenScreen, NoRequest, TypeOK
      <4>2. CASE Upload(t)
        BY <4>2 DEF Upload, NoRequest, TypeOK
      <4>3. CASE AskRemove(t)
        BY <4>3 DEF AskRemove, NoRequest, TypeOK
      <4>4. CASE NoAnswer(t)
        BY <4>4 DEF NoAnswer, NoRequest, TypeOK
      <4>5. CASE CountUses(t)
        BY <4>5 DEF CountUses, NoRequest, TypeOK
      <4> QED BY <2>1, <4>1, <4>2, <4>3, <4>4, <4>5
    <3>2. \A u \in Authors \ {t} : req'[u] = req[u]
      <4>1. CASE OpenScreen(t)
        BY <4>1 DEF OpenScreen, TypeOK
      <4>2. CASE Upload(t)
        BY <4>2, UploadBegins
      <4>3. CASE AskRemove(t)
        BY <4>3 DEF AskRemove, TypeOK
      <4>4. CASE NoAnswer(t)
        BY <4>4 DEF NoAnswer, TypeOK
      <4>5. CASE CountUses(t)
        BY <4>5 DEF CountUses, TypeOK
      <4> QED BY <2>1, <4>1, <4>2, <4>3, <4>4, <4>5
    <3> QED BY <3>1, <3>2, <1>1 DEF OnlySettled
  <2>2. ASSUME NEW t \in Authors, ListFiles(t) PROVE \A u \in Authors : req'[u].listed \subseteq S
    <3>1. req'[t].listed = files /\ \A u \in Authors \ {t} : req'[u] = req[u]
      BY <2>2 DEF ListFiles, TypeOK, Request
    <3> QED BY <3>1, <1>1 DEF OnlySettled
  <2>3. CASE req' = req
    BY <2>3, <1>1 DEF OnlySettled
  <2> QED
    BY <2>1, <2>2, <2>3
       DEF Next, vars, InsertFile, SavePage, TakeOut, PublishModule, DeleteModule, StoreFile,
           RemoveFile, BeginDuplicate, BeginExport, ReadFiles, ReadPages, ImportModule, GiveUp
<1>6. \A t \in Authors : editor'[t] \subseteq S
  <2>1. ASSUME NEW t \in Authors, NEW F, F \subseteq Settled,
               editor' = [editor EXCEPT ![t] = F]
        PROVE  \A u \in Authors : editor'[u] \subseteq S
    BY <2>1, <1>1 DEF OnlySettled, TypeOK
  <2>2. CASE editor' = editor
    BY <2>2, <1>1 DEF OnlySettled
  <2>3. ASSUME NEW t \in Authors, InsertFile(t) PROVE \A u \in Authors : editor'[u] \subseteq S
    <3>1. PICK f \in panel[t].listed : editor' = [editor EXCEPT ![t] = editor[t] \cup {f}]
      BY <2>3 DEF InsertFile
    <3>2. editor[t] \cup {f} \subseteq Settled
      BY <3>1 DEF OnlySettled
    <3> QED BY <3>1, <3>2, <2>1
  <2>4. ASSUME NEW t \in Authors, SavePage(t) \/ OpenScreen(t)
        PROVE  \A u \in Authors : editor'[u] \subseteq S
    <3>1. editor' = [editor EXCEPT ![t] = {}]
      BY <2>4 DEF SavePage, OpenScreen
    <3> QED BY <3>1, <2>1
  <2>5. ASSUME NEW t \in Authors, CountUses(t) PROVE \A u \in Authors : editor'[u] \subseteq S
    <3>1. ASSUME NEW f \in Newest(req[t].listed), editor' = [editor EXCEPT ![t] = editor[t] \cup {f}]
          PROVE  \A u \in Authors : editor'[u] \subseteq S
      <4>1. editor[t] \cup {f} \subseteq Settled
        BY <3>1 DEF OnlySettled, Newest
      <4> QED BY <3>1, <4>1, <2>1
    <3> QED BY <2>5, <2>2, <3>1 DEF CountUses
  <2> QED
    BY <2>2, <2>3, <2>4, <2>5
       DEF Next, vars, TakeOut, PublishModule, DeleteModule, Upload, StoreFile, AskRemove, RemoveFile,
           NoAnswer, ListFiles, BeginDuplicate, BeginExport, ReadFiles, ReadPages, ImportModule, GiveUp
<1>7. \A n \in 1..Len(intact') : intact'[n] \subseteq S
  <2>1. CASE PublishModule
    <3>1. \A n \in 1..Len(intact') : (intact'[n] = intact[n] /\ n \in 1..Len(intact)) \/ intact'[n] \subseteq files
      BY <2>1 DEF PublishModule, TypeOK
    <3> QED BY <3>1, <1>1 DEF OnlySettled
  <2>2. CASE DeleteModule
    BY <2>2 DEF DeleteModule
  <2>3. CASE intact' = intact
    BY <2>3, <1>1 DEF OnlySettled
  <2> QED
    BY <2>1, <2>2, <2>3
       DEF Next, vars, module, InsertFile, SavePage, TakeOut, OpenScreen, Upload, StoreFile, AskRemove,
           RemoveFile, NoAnswer, ListFiles, CountUses, BeginDuplicate, BeginExport, ReadFiles, ReadPages,
           ImportModule, GiveUp
<1>8. \A m \in Makers : made'[m].text \subseteq S
  <2>1. ASSUME NEW m \in Makers, ReadPages(m) PROVE \A k \in Makers : made'[k].text \subseteq S
    <3>1. made'[m].text = body /\ \A k \in Makers \ {m} : made'[k] = made[k]
      BY <2>1 DEF ReadPages, TypeOK, Making
    <3> QED BY <3>1, <1>1 DEF OnlySettled
  <2>2. ASSUME NEW m \in Makers,
               BeginDuplicate(m) \/ BeginExport(m) \/ ReadFiles(m) \/ ImportModule(m) \/ GiveUp(m)
        PROVE  \A k \in Makers : made'[k].text \subseteq S
    <3>1. made'[m].text = made[m].text /\ \A k \in Makers \ {m} : made'[k] = made[k]
      BY <2>2 DEF BeginDuplicate, BeginExport, ReadFiles, ImportModule, GiveUp, TypeOK, Making
    <3> QED BY <3>1, <1>1 DEF OnlySettled
  <2>3. CASE made' = made
    BY <2>3, <1>1 DEF OnlySettled
  <2> QED
    BY <2>1, <2>2, <2>3
       DEF Next, vars, makers, InsertFile, SavePage, TakeOut, PublishModule, DeleteModule, OpenScreen,
           Upload, StoreFile, AskRemove, RemoveFile, NoAnswer, ListFiles, CountUses
<1> QED
  BY <1>2, <1>3, <1>4, <1>5, <1>6, <1>7, <1>8 DEF OnlySettled
---------------------------------------------------------------------------
(* What screens have counted, and what they tell of it.                    *)

\* What a step does to a screen's knowledge: it is replaced, or stays.
LEMMA PanelChanges ==
    ASSUME TypeOK, [Next]_vars
    PROVE  \A t \in Authors :
              \/ panel'[t] = panel[t]
              \/ panel'[t] = Blank
              \/ /\ panel'[t].seen = Len(versions)
                 /\ \A f \in Files : panel'[t].use[f] = UseOf(f)
                 /\ UNCHANGED <<status, files, versions, body, intact>>
<1>1. ASSUME NEW u \in Authors, OpenScreen(u)
      PROVE  \A t \in Authors : panel'[t] = panel[t] \/ panel'[t] = Blank
  BY <1>1 DEF OpenScreen, TypeOK
<1>2. ASSUME NEW u \in Authors, CountUses(u)
      PROVE  /\ UNCHANGED <<status, files, versions, body, intact>>
             /\ \A t \in Authors :
                   \/ panel'[t] = panel[t]
                   \/ /\ panel'[t].seen = Len(versions)
                      /\ \A f \in Files : panel'[t].use[f] = UseOf(f)
  <2>1. UNCHANGED <<status, files, versions, body, intact>>
    BY <1>2 DEF CountUses, module
  <2>2. panel'[u] = [listed |-> req[u].listed, use |-> [f \in Files |-> UseOf(f)],
                     seen |-> Len(versions)]
    BY <1>2 DEF CountUses, TypeOK
  <2>3. panel'[u].seen = Len(versions) /\ \A f \in Files : panel'[u].use[f] = UseOf(f)
    BY <2>2
  <2>4. \A t \in Authors \ {u} : panel'[t] = panel[t]
    BY <1>2 DEF CountUses, TypeOK
  <2> QED BY <2>1, <2>3, <2>4
<1>3. CASE panel' = panel
  BY <1>3
<1> QED
  BY <1>1, <1>2, <1>3
     DEF Next, vars, InsertFile, SavePage, TakeOut, PublishModule, DeleteModule, Upload, StoreFile,
         AskRemove, RemoveFile, NoAnswer, ListFiles, BeginDuplicate, BeginExport, ReadFiles, ReadPages,
         ImportModule, GiveUp

\* What a step does to the versions and the files.
LEMMA VersionChanges ==
    ASSUME TypeOK, [Next]_vars
    PROVE  \/ /\ UNCHANGED <<status, versions, intact>>
              /\ \/ files' \subseteq files
                 \/ \E t \in Authors : StoreFile(t)
           \/ PublishModule
           \/ DeleteModule
BY DEF Next, vars, module, InsertFile, SavePage, TakeOut, OpenScreen, Upload, StoreFile, AskRemove,
       RemoveFile, NoAnswer, ListFiles, CountUses, BeginDuplicate, BeginExport, ReadFiles, ReadPages,
       ImportModule, GiveUp

LEMMA Published ==
    ASSUME TypeOK, PublishModule
    PROVE  /\ status = "live" /\ status' = "live" /\ files' = files
           /\ Len(versions') = Len(versions) + 1
           /\ \A n \in 1..Len(versions) : versions'[n] = versions[n] /\ intact'[n] = intact[n]
           /\ versions'[Len(versions) + 1] = body
           /\ intact'[Len(versions) + 1] = body \cap files
BY DEF PublishModule, TypeOK

LEMMA CountedStep ==
    ASSUME TypeOK, NoneCountedAhead, [Next]_vars
    PROVE  NoneCountedAhead'
<1>0. Len(versions) \in Nat /\ \A t \in Authors : panel[t].seen \in Nat
  BY DEF TypeOK, Panel
<1>1. CASE DeleteModule
  BY <1>1 DEF DeleteModule, NoneCountedAhead
<1>2. CASE PublishModule
  BY <1>0, <1>2, Published DEF PublishModule, NoneCountedAhead
<1>3. CASE UNCHANGED <<status, versions>>
  BY <1>0, <1>3, PanelChanges DEF NoneCountedAhead, Blank
<1> QED
  BY <1>1, <1>2, <1>3, VersionChanges

LEMMA IntactStep ==
    ASSUME TypeOK, IntactIsNamed, [Next]_vars
    PROVE  IntactIsNamed'
<1>1. CASE DeleteModule
  BY <1>1 DEF DeleteModule, IntactIsNamed
<1>2. CASE PublishModule
  <2>1. \A n \in 1..Len(versions') : n \in 1..Len(versions) \/ n = Len(versions) + 1
    BY <1>2, Published DEF TypeOK
  <2> QED BY <1>2, <2>1, Published DEF IntactIsNamed
<1>3. CASE UNCHANGED <<versions, intact>>
  BY <1>3 DEF IntactIsNamed
<1> QED
  BY <1>1, <1>2, <1>3, VersionChanges

\* What a version names is not being uploaded, so a file that comes is in none.
LEMMA StoredIsNew ==
    ASSUME TypeOK, OnlySettled, NEW t \in Authors, StoreFile(t)
    PROVE  /\ files' = files \cup {req[t].file}
           /\ req[t].file \notin Settled
           /\ \A n \in 1..Len(versions) : req[t].file \notin intact[n]
BY DEF StoreFile, OnlySettled, Settled, Uploading, TypeOK

LEMMA PanelsStep ==
    ASSUME TypeOK, OnlySettled, NoneCountedAhead, IntactIsNamed, PanelsTell, [Next]_vars
    PROVE  PanelsTell'
<1>0. Len(versions) \in Nat /\ \A t \in Authors : panel[t].seen \in Nat
  BY DEF TypeOK, Panel
<1>1. CASE DeleteModule
  BY <1>1 DEF DeleteModule, PanelsTell
<1>2. CASE PublishModule
  <2>1. panel' = panel
    BY <1>2 DEF PublishModule
  <2>2. \A n \in 1..Len(versions') : n \in 1..Len(versions) \/ n = Len(versions) + 1
    BY <1>2, Published DEF TypeOK
  <2>3. \A t \in Authors : panel[t].seen < Len(versions) + 1
    BY <1>0, <1>2, Published DEF NoneCountedAhead
  <2> QED BY <1>0, <1>2, <2>1, <2>2, <2>3, Published DEF PanelsTell
<1>3. ASSUME UNCHANGED <<versions, intact>>,
             \A n \in 1..Len(versions) : intact[n] \cap files' \subseteq files
      PROVE  PanelsTell'
  <2> SUFFICES ASSUME NEW t \in Authors, NEW n \in 1..Len(versions), NEW f \in intact[n] \cap files,
                      n <= panel'[t].seen
               PROVE  panel'[t].use[f] = "version"
    BY <1>3 DEF PanelsTell
  <2>1. CASE panel'[t] = panel[t]
    BY <2>1 DEF PanelsTell
  <2>2. CASE panel'[t] = Blank
    BY <2>2 DEF Blank
  <2>3. CASE \A g \in Files : panel'[t].use[g] = UseOf(g)
    <3>1. f \in Files /\ InVersion(f)
      BY DEF IntactIsNamed, InVersion, TypeOK
    <3> QED BY <2>3, <3>1 DEF UseOf
  <2> QED
    BY <2>1, <2>2, <2>3, PanelChanges
<1> QED
  BY <1>1, <1>2, <1>3, VersionChanges, StoredIsNew

\* Who takes a file out had been told what the screen tells.
LEMMA GapsStep ==
    ASSUME TypeOK, OnlySettled, PanelsTell, GapsAreExplained, [Next]_vars
    PROVE  GapsAreExplained'
<1>0. Len(versions) \in Nat
  BY DEF TypeOK
<1>1. CASE DeleteModule
  BY <1>1 DEF DeleteModule, GapsAreExplained
<1>2. CASE PublishModule
  <2>1. removal' = removal
    BY <1>2 DEF PublishModule
  <2>2. \A n \in 1..Len(versions') : n \in 1..Len(versions) \/ n = Len(versions) + 1
    BY <1>2, Published DEF TypeOK
  <2> QED BY <1>0, <1>2, <2>1, <2>2, Published DEF GapsAreExplained
<1>3. ASSUME NEW t \in Authors, RemoveFile(t) PROVE GapsAreExplained'
  <2> DEFINE g == req[t].file
  <2>1. /\ UNCHANGED <<versions, intact>>
        /\ files' = files \ {g} /\ g \in files /\ g \in Files
        /\ removal'[g] = [use |-> panel[t].use[g], seen |-> panel[t].seen]
        /\ \A f \in Files \ {g} : removal'[f] = removal[f]
    BY <1>3 DEF RemoveFile, module, TypeOK
  <2>2. \A n \in 1..Len(versions) : g \in intact[n] => panel[t].use[g] = "version" \/ panel[t].seen < n
    BY <2>1 DEF PanelsTell, TypeOK, Panel
  <2>3. \A n \in 1..Len(versions) : intact[n] \subseteq Files
    BY DEF TypeOK
  <2> QED BY <2>1, <2>2, <2>3 DEF GapsAreExplained
<1>4. ASSUME UNCHANGED <<versions, intact, removal>>, files \subseteq files' PROVE GapsAreExplained'
  BY <1>4 DEF GapsAreExplained
<1> QED
  BY <1>1, <1>2, <1>3, <1>4
     DEF Next, vars, module, InsertFile, SavePage, TakeOut, OpenScreen, Upload, StoreFile, AskRemove,
         NoAnswer, ListFiles, CountUses, BeginDuplicate, BeginExport, ReadFiles, ReadPages,
         ImportModule, GiveUp
---------------------------------------------------------------------------
(* What copies leave alone.                                                *)

\* A copy that is not at work is affected by files only: by those that go, and
\* by one that comes.
LEMMA CopyIsLeft ==
    ASSUME TypeOK, OnlySettled, NEW m \in Makers, CopyInv(m), made'[m] = made[m],
           \/ files' \subseteq files /\ late'[m] = late[m]
           \/ \E t \in Authors : StoreFile(t)
    PROVE  CopyInv(m)'
<1>1. CASE files' \subseteq files /\ late'[m] = late[m]
  BY <1>1 DEF CopyInv, At, LeftAlone
<1>2. ASSUME NEW t \in Authors, StoreFile(t) PROVE CopyInv(m)'
  <2> DEFINE f == req[t].file
  <2>1. files' = files \cup {f} /\ f \notin made[m].text
    BY <1>2, StoredIsNew DEF OnlySettled
  <2>2. late'[m] = IF made[m].op = "duplicate" /\ made[m].at = "text" THEN late[m] \cup {f} ELSE late[m]
    BY <1>2 DEF StoreFile
  <2> QED
    BY <2>1, <2>2 DEF CopyInv, At, LeftAlone
<1> QED BY <1>1, <1>2

\* A copy's own step.
LEMMA CopyGoesOn ==
    ASSUME TypeOK, NEW m \in Makers, CopyInv(m),
           \/ BeginDuplicate(m) \/ BeginExport(m) \/ ReadFiles(m) \/ ReadPages(m)
           \/ ImportModule(m) \/ GiveUp(m)
    PROVE  /\ CopyInv(m)'
           /\ \A k \in Makers \ {m} : made'[k] = made[k]
           /\ files' = files /\ late' = late
<1>1. files' = files /\ late' = late
  BY DEF BeginDuplicate, BeginExport, ReadFiles, ReadPages, ImportModule, GiveUp
<1>2. \A k \in Makers \ {m} : made'[k] = made[k]
  BY DEF BeginDuplicate, BeginExport, ReadFiles, ReadPages, ImportModule, GiveUp, TypeOK
<1>3. CASE BeginDuplicate(m) \/ BeginExport(m) \/ GiveUp(m)
  <2>1. made'[m].at \in {"files", "failed"} \/ (made'[m].op = "export" /\ made'[m].at = "text")
    BY <1>3 DEF BeginDuplicate, BeginExport, GiveUp, Order, TypeOK, Making
  <2>2. made'[m].op \in {"duplicate", "export"}
    BY <1>3 DEF BeginDuplicate, BeginExport, GiveUp, TypeOK, Making, CopyInv
  <2> QED BY <1>1, <1>2, <2>1, <2>2 DEF CopyInv, At
<1>4. CASE ReadFiles(m)
  <2>1. /\ made'[m].op = made[m].op /\ made'[m].files = files /\ made'[m].text = made[m].text
        /\ made'[m].at = IF made[m].op = "duplicate" THEN "text" ELSE "packed"
    BY <1>4 DEF ReadFiles, After, Order, TypeOK, Making
  <2>2. made[m].at = "files"
    BY <1>4 DEF ReadFiles
  <2> QED BY <1>1, <1>2, <2>1, <2>2 DEF CopyInv, At, LeftAlone
<1>5. CASE ReadPages(m)
  <2>1. /\ made'[m].op = made[m].op /\ made'[m].files = made[m].files /\ made'[m].text = body
        /\ made'[m].at = IF made[m].op = "duplicate" THEN "made" ELSE "files"
    BY <1>5 DEF ReadPages, After, Order, TypeOK, Making
  <2>2. made[m].at = "text"
    BY <1>5 DEF ReadPages
  <2> QED BY <1>1, <1>2, <2>1, <2>2 DEF CopyInv, At, LeftAlone
<1>6. CASE ImportModule(m)
  <2>1. /\ made'[m].op = made[m].op /\ made'[m].files = made[m].files
        /\ made'[m].text = made[m].text /\ At(m, "export", "packed")
    BY <1>6 DEF ImportModule, TypeOK, Making
  <2> QED BY <1>1, <1>2, <2>1 DEF CopyInv, At, LeftAlone
<1> QED
  BY <1>1, <1>2, <1>3, <1>4, <1>5, <1>6

LEMMA CopiesStep ==
    ASSUME TypeOK, OnlySettled, \A m \in Makers : CopyInv(m), [Next]_vars
    PROVE  \A m \in Makers : CopyInv(m)'
<1>1. ASSUME NEW m \in Makers,
             \/ BeginDuplicate(m) \/ BeginExport(m) \/ ReadFiles(m) \/ ReadPages(m)
             \/ ImportModule(m) \/ GiveUp(m)
      PROVE  \A k \in Makers : CopyInv(k)'
  <2>1. CopyInv(m)' /\ files' = files /\ late' = late /\ \A k \in Makers \ {m} : made'[k] = made[k]
    BY <1>1, CopyGoesOn
  <2>2. \A k \in Makers \ {m} : CopyInv(k)'
    BY <2>1, CopyIsLeft
  <2> QED BY <2>1, <2>2
<1>2. ASSUME made' = made,
             \/ files' \subseteq files /\ late' = late
             \/ \E t \in Authors : StoreFile(t)
      PROVE  \A k \in Makers : CopyInv(k)'
  BY <1>2, CopyIsLeft
<1> QED
  BY <1>1, <1>2
     DEF Next, vars, makers, InsertFile, SavePage, TakeOut, PublishModule, DeleteModule, OpenScreen,
         Upload, StoreFile, AskRemove, RemoveFile, NoAnswer, ListFiles, CountUses

---------------------------------------------------------------------------
(* The invariant, and what follows from it.                                *)

THEOREM FilesInvariant == Spec => []FilesInv
<1>1. Init => FilesInv
  <2> SUFFICES ASSUME Init PROVE FilesInv
    OBVIOUS
  <2>1. TypeOK
    BY TypeInit
  <2>2. /\ \A t \in Authors : pc[t] = "idle" /\ req[t].listed = {} /\ editor[t] = {}
        /\ \A t \in Authors : panel[t].listed = {} /\ panel[t].seen = 0
        /\ \A m \in Makers : made[m].at = "unasked" /\ made[m].text = {}
        /\ files = {} /\ body = {} /\ Len(versions) = 0 /\ Len(intact) = 0 /\ status = "live"
    BY DEF Init, NoRequest, Blank, Unread
  <2> QED
    BY <2>1, <2>2
       DEF FilesInv, OwnFiles, Uploading, OnlySettled, NoneCountedAhead, IntactIsNamed, PanelsTell,
           GapsAreExplained, CopyInv, At
<1>2. FilesInv /\ [Next]_vars => FilesInv'
  BY TypeStep, Settling, OnlySettledStep, CountedStep, IntactStep, PanelsStep, GapsStep, CopiesStep
     DEF FilesInv
<1> QED
  BY <1>1, <1>2, PTL DEF Spec

\* The shape of rows, screens and copies.
THEOREM FilesTypeCorrect == Spec => []TypeOK
<1>1. FilesInv => TypeOK
  BY DEF FilesInv
<1> QED
  BY <1>1, FilesInvariant, PTL

\* A gap in a published version was told of, or made by somebody whose screen
\* was older than the version (delete_module_asset, _reference_counts).
THEOREM GapsHaveReasons == Spec => []GapsAreExplained
<1>1. FilesInv => GapsAreExplained
  BY DEF FilesInv
<1> QED
  BY <1>1, FilesInvariant, PTL

\* A copy names of the original's files only those added while a duplicate was
\* being made (_duplicate_assets before _duplicate_pages); an import none.
THEOREM CopiesHaveTheirFiles == Spec => []CopiesAreExplained
<1>1. FilesInv => CopiesAreExplained
  BY DEF FilesInv, CopyInv, CopiesAreExplained, At
<1> QED
  BY <1>1, FilesInvariant, PTL

=============================================================================
