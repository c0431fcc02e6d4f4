--------------------------- MODULE LearnerRecord ---------------------------
(***************************************************************************)
(* What a learner's record promises (models/module.py ModuleProgress), as  *)
(* if there were no requests, locks, browser tabs or statements that take  *)
(* their time: reading a page, attesting, switching language, publishing   *)
(* and sending everybody back are single steps on the record as it is.     *)
(***************************************************************************)
EXTENDS Naturals, Sequences

CONSTANTS Learners, Variants, Pages, None

VARIABLES
    texts,   \* of each variant, what was published of it, in order
    record   \* of each learner: the variant, the pages of it that were read,
             \* the text attested to last, and the one that counts

vars == <<texts, record>>

Kinds == {"minor", "substantive"}
Unwritten == [reading |-> None, seen |-> {}, done |-> None, counted |-> None]

Init ==
    /\ texts = [v \in Variants |-> <<>>]
    /\ record = [l \in Learners |-> Unwritten]

Reading(v) == {l \in Learners : record[l].reading = v}

\* The record from which a first read, or any other, goes on.
Begun(l, v) ==
    IF record[l].reading = None THEN [record[l] EXCEPT !.reading = v] ELSE record[l]

\* A page that was published, in whichever variant the learner is reading.
Read(l, v, p) ==
    /\ \E n \in DOMAIN texts[v] : p \in texts[v][n].pages
    /\ record' = [record EXCEPT ![l] = [Begun(l, v) EXCEPT !.seen = @ \cup {p}]]
    /\ UNCHANGED texts

\* A text that was published, every page of which has been read.
Attest(l, v, n) ==
    /\ texts[v][n].pages \subseteq record[l].seen
    /\ record' = [record EXCEPT ![l] =
                    [Begun(l, v) EXCEPT !.done = <<v, n>>, !.counted = <<v, n>>]]
    /\ UNCHANGED texts

\* What was read of the other variant goes, what was attested stays.
Switch(l, v) ==
    /\ texts[v] # <<>>
    /\ record' = [record EXCEPT ![l] =
                    IF Begun(l, v).reading = v THEN Begun(l, v)
                    ELSE [Begun(l, v) EXCEPT !.reading = v, !.seen = {}]]
    /\ UNCHANGED texts

\* A substantive text sends everybody back who reads the variant, and with them
\* others of the group, at once.
Publish(v, text, kind) ==
    /\ texts' = [texts EXCEPT ![v] = Append(@, [pages |-> text, kind |-> kind])]
    /\ \/ kind = "minor" /\ UNCHANGED record
       \/ /\ kind = "substantive"
          /\ \E sent \in SUBSET (Learners \ Reading(None)) :
                /\ Reading(v) \subseteq sent
                /\ record' = [l \in Learners |->
                                IF l \in sent THEN [record[l] EXCEPT !.seen = {}, !.counted = None]
                                ELSE record[l]]

Next ==
    \E v \in Variants :
        \/ \E text \in SUBSET Pages, kind \in Kinds : Publish(v, text, kind)
        \/ \E l \in Learners :
              \/ \E p \in Pages : Read(l, v, p)
              \/ \E n \in DOMAIN texts[v] : Attest(l, v, n)
              \/ Switch(l, v)

Spec == Init /\ [][Next]_vars
=============================================================================
