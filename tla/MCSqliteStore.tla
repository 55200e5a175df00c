--------------------------- MODULE MCSqliteStore ---------------------------
(***************************************************************************)
(* SqliteStore on small instances.  Identifiers are handed out by a random *)
(* generator and only compared for equality, so the runs that check        *)
(* invariants and action properties may permute them.                      *)
(***************************************************************************)
EXTENDS SqliteStore, TLC

Identifiers == Permutations(RevisionIds) \cup Permutations(ProposalIds)

\* Subjects, contents and languages are compared for equality only, too.
Interchangeable ==
    Identifiers \cup Permutations(Subjects) \cup Permutations(Bodies)
                \cup Permutations(Languages)

=============================================================================
