---------------------------- MODULE MCSparseIndex ----------------------------
(***************************************************************************)
(* A corpus of one chunk, and uploads of one chunk and of two; pages of    *)
(* two rows.                                                               *)
(***************************************************************************)
EXTENDS SparseIndex, TLC

CONSTANTS note, report, n1, p1, p2, m1

MCUploads == {note, report}
MCCorpus == <<m1>>
MCChunksOf == [d \in MCUploads |-> IF d = note THEN <<n1>> ELSE <<p1, p2>>]

\* Readers are interchangeable.
ReaderSymmetry == Permutations(Readers)
=============================================================================
