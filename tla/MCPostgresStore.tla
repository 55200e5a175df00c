-------------------------- MODULE MCPostgresStore --------------------------
(***************************************************************************)
(* PostgresStore on small instances.  Identifiers, workers, subjects,      *)
(* contents and languages are compared for equality only, so the safety    *)
(* runs may permute them.                                                  *)
(***************************************************************************)
EXTENDS PostgresStore, TLC

Interchangeable ==
    Permutations(RevisionIds) \cup Permutations(ProposalIds) \cup Permutations(Workers)
    \cup Permutations(Subjects) \cup Permutations(Bodies) \cup Permutations(Languages)

\* For the liveness run, which permutes nothing: one subject proposes, and both
\* review.  Clients are restricted, no statement of a worker is.
Proposer == CHOOSE s \in Subjects : TRUE

OneProposer == \A p \in DOMAIN proposals' : proposals'[p].draft.proposer = Proposer

OneProposerSpec == Init /\ [][Next /\ OneProposer]_vars /\ Fairness
=============================================================================
