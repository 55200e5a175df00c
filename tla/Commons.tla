------------------------------ MODULE Commons ------------------------------
(***************************************************************************)
(* What a knowledge store promises, whatever database is underneath.       *)
(*                                                                         *)
(* Every knowledge key has, per language, one history of contents.  The    *)
(* last element is what readers are served.  A key belongs, from its first *)
(* publication on, either to the review workflow or to a source repository.*)
(* A history grows by one element at a time:                               *)
(*   - on a reviewed key only by approving a proposal, by somebody other   *)
(*     than its proposer, and only when the proposal was written against   *)
(*     the version that is current at the moment of approval;              *)
(*   - on a source key only by importing a content that differs from the   *)
(*     current one.                                                        *)
(* A proposal is decided at most once.                                     *)
(*                                                                         *)
(* This is the contract of knowledge.Repository and SourceRepository       *)
(* (internal/knowledge/service.go); SqliteStore and PostgresStore are      *)
(* shown to implement it.                                                  *)
(***************************************************************************)
EXTENDS Naturals, Sequences

CONSTANTS
    Keys,         \* knowledge keys
    Languages,    \* language identifiers
    Subjects,     \* proposers and reviewers
    Bodies,       \* contents (title and body of a document)
    ProposalIds,  \* identifiers of proposals
    None          \* "no base version", "no reviewer yet"

VARIABLES
    history,   \* <<key, language>> -> sequence of contents
    owner,     \* key -> "none", "reviewed" or "source"
    requests   \* proposal id -> proposal, for the proposals submitted

vars == <<history, owner, requests>>

Slots == Keys \X Languages

\* The version readers are served, or None when nothing is published.
Current(slot) ==
    IF history[slot] = <<>>
    THEN None
    ELSE [slot |-> slot, number |-> Len(history[slot])]

\* The versions published so far, in any key and language.
Existing == UNION {{[slot |-> s, number |-> n] : n \in 1 .. Len(history[s])} : s \in Slots}

Init ==
    /\ history = [s \in Slots |-> <<>>]
    /\ owner = [k \in Keys |-> "none"]
    /\ requests = [p \in {} |-> None]

Extend(slot, body) ==
    history' = [history EXCEPT ![slot] = Append(@, body)]

Submit(p, slot, base, proposer, body) ==
    /\ p \notin DOMAIN requests
    /\ \/ base = None
       \/ base \in Existing
    /\ requests' = [q \in DOMAIN requests \cup {p} |->
                       IF q = p
                       THEN [slot |-> slot, base |-> base, proposer |-> proposer,
                             body |-> body, status |-> "pending", reviewer |-> None]
                       ELSE requests[q]]
    /\ UNCHANGED <<history, owner>>

Decide(p, reviewer, status) ==
    /\ p \in DOMAIN requests
    /\ requests[p].status = "pending"
    /\ requests[p].proposer # reviewer
    /\ requests' = [requests EXCEPT ![p].status = status, ![p].reviewer = reviewer]

Decline(p, reviewer) ==
    /\ Decide(p, reviewer, "rejected")
    /\ UNCHANGED <<history, owner>>

Approve(p, reviewer) ==
    /\ Decide(p, reviewer, "accepted")
    /\ owner[requests[p].slot[1]] # "source"
    /\ requests[p].base = Current(requests[p].slot)
    /\ Extend(requests[p].slot, requests[p].body)
    /\ owner' = [owner EXCEPT ![requests[p].slot[1]] = "reviewed"]

Import(slot, body) ==
    /\ owner[slot[1]] # "reviewed"
    /\ history[slot] = <<>> \/ history[slot][Len(history[slot])] # body
    /\ Extend(slot, body)
    /\ owner' = [owner EXCEPT ![slot[1]] = "source"]
    /\ UNCHANGED requests

Next ==
    \/ \E p \in ProposalIds, slot \in Slots, proposer \in Subjects, body \in Bodies :
          \E base \in Existing \cup {None} : Submit(p, slot, base, proposer, body)
    \/ \E p \in ProposalIds, reviewer \in Subjects :
          Approve(p, reviewer) \/ Decline(p, reviewer)
    \/ \E slot \in Slots, body \in Bodies : Import(slot, body)

Spec == Init /\ [][Next]_vars
=============================================================================
