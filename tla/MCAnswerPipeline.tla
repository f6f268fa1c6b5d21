-------------------------- MODULE MCAnswerPipeline --------------------------
(***************************************************************************)
(* A guest and a member of staff ask the same question of a corpus of one  *)
(* public manual, to which a note for staff may be uploaded.  The second   *)
(* revision of the manual is for staff only.                               *)
(***************************************************************************)
EXTENDS AnswerPipeline, TLC

CONSTANTS guest, member, staff, manual, note

MCCallers == {guest, member}
MCRolesOf == [c \in MCCallers |-> IF c = member THEN {staff} ELSE {}]
MCChunks == {manual, note}
MCCorpus == {manual}
MCTags ==
    [c \in MCChunks |-> [n \in 1..2 |-> IF c = manual /\ n = 1 THEN {} ELSE {staff}]]
\* One public manual and one caller, for the runs about hot reload.
MCRolesOfGuest == [c \in {guest} |-> {}]
MCTagsManual == [c \in {manual} |-> [n \in 1..1 |-> {}]]

\* Requests are interchangeable.
RequestSymmetry == Permutations(Requests)

MCCiteSets == {{1, 2}}
=============================================================================
