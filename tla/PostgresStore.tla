---------------------------- MODULE PostgresStore ----------------------------
(***************************************************************************)
(* The optional store, internal/storage/postgres: the reviewed-knowledge   *)
(* workflow over a connection pool, statement by statement.                *)
(*                                                                         *)
(* Requests are served by workers (goroutines of the HTTP server), each    *)
(* holding one connection from Begin to the end of its transaction.  A     *)
(* transaction runs at READ COMMITTED: a statement sees what was committed *)
(* before it, and its own writes, which nobody else sees until Commit.     *)
(* SELECT ... FOR UPDATE and the unique key of a page make statements wait *)
(* for the end of other transactions.  At any statement the request may be *)
(* cancelled or the connection lost, and the transaction is rolled back;   *)
(* the answer to a commit may be lost as well.                             *)
(*                                                                         *)
(* CreateProposal inserts one proposal and one event; nothing it reads or  *)
(* writes is contended, so it is one action.                               *)
(***************************************************************************)
EXTENDS Naturals, FiniteSets

CONSTANTS
    Keys, Languages, Subjects, Bodies, RevisionIds, ProposalIds,
    Workers,         \* concurrent requests
    MaxConnections,  \* KC_DATABASE_MAX_CONNECTIONS
    None             \* SQL NULL, and the language of a search in all of them

ASSUME NoneAssumption ==
    None \notin RevisionIds \cup ProposalIds \cup Subjects \cup Workers \cup Languages

ASSUME ConnectionsAssumption == MaxConnections \in Nat \ {0}

VARIABLES
    pages,      \* knowledge_pages: key -> canonical language
    revisions,  \* knowledge_revisions, by id
    proposals,  \* knowledge_proposals, by id
    events,     \* knowledge_events
    request     \* worker -> the review it is serving, and how far it is

vars == <<pages, revisions, proposals, events, request>>
tables == <<pages, revisions, proposals, events>>

RevisionRows ==
    [key : Keys, language : Languages, number : Nat \ {0}, body : Bodies,
     status : {"published", "superseded"}, author : Subjects]

Drafts ==
    [key : Keys, canonical : Languages, language : Languages,
     base : RevisionIds \cup {None}, proposer : Subjects, body : Bodies]

ProposalRows ==
    [draft : Drafts, status : {"pending", "accepted", "rejected"},
     reviewer : Subjects \cup {None}]

Event(type, actor, subject) == [type |-> type, actor |-> actor, subject |-> subject]

EventRows ==
    [type : {"proposal.created", "proposal.accepted", "proposal.rejected",
             "revision.published"},
     actor : Subjects, subject : RevisionIds \cup ProposalIds]

\* The statement a worker executes next; "idle" and "connect" are outside a
\* transaction.  What a request was answered is not kept.
Steps == {"idle", "connect", "lock proposal", "reject", "insert page", "lock page",
          "read latest", "write", "commit"}

Requests ==
    [step : Steps, proposal : ProposalIds \cup {None}, reviewer : Subjects \cup {None},
     decision : {"accepted", "rejected"},
     latest : RevisionIds \cup {None},      \* the current revision, as read
     revision : RevisionIds \cup {None},    \* the row inserted, before commit
     insertsPage : BOOLEAN]                 \* the page row is ours, before commit

NoRequest ==
    [step |-> "idle", proposal |-> None, reviewer |-> None, decision |-> "rejected",
     latest |-> None, revision |-> None, insertsPage |-> FALSE]

-----------------------------------------------------------------------------
(* Transactions and locks.                                                 *)

InTransaction(w) == request[w].step \notin {"idle", "connect"}

ConnectionFree == Cardinality({v \in Workers : InTransaction(v)}) < MaxConnections

DraftOf(w) == proposals[request[w].proposal].draft

\* Seeded fault: a reviewer claims the proposal before it has a connection.
HoldsProposal_BeforeConnect(w, p) ==
    /\ request[w].proposal = p
    /\ request[w].step \in Steps \ {"idle", "lock proposal"}

HoldsProposal(w, p) ==
    /\ request[w].proposal = p
    /\ request[w].step \in Steps \ {"idle", "connect", "lock proposal"}

InsertsPage(w, key) ==
    InTransaction(w) /\ request[w].insertsPage /\ DraftOf(w).key = key

HoldsPage(w, key) ==
    /\ request[w].step \in {"read latest", "write", "commit"}
    /\ request[w].decision = "accepted"
    /\ DraftOf(w).key = key

\* Seeded fault: the proposal is read without FOR UPDATE.
ProposalFree_Always(w, p) == TRUE

\* Row locks last to the end of the transaction.
ProposalFree(w, p) == \A v \in Workers \ {w} : ~HoldsProposal(v, p)

\* A page another transaction has inserted is invisible, but a duplicate of it
\* has to wait.
PageBeingInserted(w, key) == \E v \in Workers \ {w} : InsertsPage(v, key)

\* Seeded fault: the page is read without FOR UPDATE.
PageFree_Always(w, key) == TRUE

PageFree(w, key) == \A v \in Workers \ {w} : ~HoldsPage(v, key)

Published(key, language) ==
    {i \in DOMAIN revisions : /\ revisions[i].key = key
                              /\ revisions[i].language = language
                              /\ revisions[i].status = "published"}

Latest(key, language) ==
    IF Published(key, language) = {}
    THEN None
    ELSE CHOOSE i \in Published(key, language) :
            \A j \in Published(key, language) : revisions[j].number <= revisions[i].number

\* One statement each, so they see what is committed and nothing else.
GetPublished(key, language) == IF key \in DOMAIN pages THEN Latest(key, language) ELSE None

\* Seeded fault: revisions are found whatever their status.
Search_AnyStatus(language) ==
    {i \in DOMAIN revisions : language \in {None, revisions[i].language}}

\* What a query can return when its terms occur everywhere, in one language or
\* in all of them.
Search(language) ==
    {i \in DOMAIN revisions : /\ revisions[i].status = "published"
                              /\ language \in {None, revisions[i].language}}

\* Seeded fault: numbers start at zero.
NextNumber_FromZero(latest) == IF latest = None THEN 0 ELSE revisions[latest].number + 1

NextNumber(latest) == IF latest = None THEN 1 ELSE revisions[latest].number + 1

\* Seeded fault: "updates require the current base_revision_id" is not checked.
BaseIsCurrent_IfGiven(draft, latest) == draft.base # None => draft.base = latest

BaseIsCurrent(draft, latest) == draft.base = latest

\* The row a worker inserts: knowledge_revisions, status published.
NewRevision(w) ==
    [key |-> DraftOf(w).key, language |-> DraftOf(w).language,
     number |-> NextNumber(request[w].latest), body |-> DraftOf(w).body,
     status |-> "published", author |-> DraftOf(w).proposer]

SameNumber(a, b) == a.key = b.key /\ a.language = b.language /\ a.number = b.number

\* UNIQUE (page_id, language, revision_number) is violated by a committed row.
Duplicate(w) == \E i \in DOMAIN revisions : SameNumber(revisions[i], NewRevision(w))

\* ... and waits for the transaction that inserted an uncommitted one.
Duplicates(v, w) ==
    request[v].revision # None /\ SameNumber(NewRevision(v), NewRevision(w))

DuplicatePending(w) == \E v \in Workers \ {w} : Duplicates(v, w)

-----------------------------------------------------------------------------
Init ==
    /\ pages = [k \in {} |-> None]
    /\ revisions = [i \in {} |-> None]
    /\ proposals = [p \in {} |-> None]
    /\ events = {}
    /\ request = [w \in Workers |-> NoRequest]

CreateProposal(p, draft) ==
    /\ p \notin DOMAIN proposals
    /\ draft.base \in DOMAIN revisions \cup {None}
    /\ proposals' = [q \in DOMAIN proposals \cup {p} |->
                        IF q = p
                        THEN [draft |-> draft, status |-> "pending", reviewer |-> None]
                        ELSE proposals[q]]
    /\ events' = events \cup {Event("proposal.created", draft.proposer, p)}
    /\ UNCHANGED <<pages, revisions, request>>

\* A review arrives; it names any proposal, decided or not.
ReceiveReview(w, p, reviewer, decision) ==
    /\ request[w].step = "idle"
    /\ p \in DOMAIN proposals
    /\ request' = [request EXCEPT ![w] =
                      [NoRequest EXCEPT !.step = "connect", !.proposal = p,
                                        !.reviewer = reviewer, !.decision = decision]]
    /\ UNCHANGED tables

Goto(w, step) == request' = [request EXCEPT ![w].step = step]

\* Seeded fault: the handler answers without ending the transaction.
Answer_NoRollback(w) == UNCHANGED request

\* The end of a transaction, committed or rolled back: its locks, its
\* uncommitted rows and its connection are given up.
Answer(w) == request' = [request EXCEPT ![w] = NoRequest]

\* pool.BeginTx waits for a connection.
Connect(w) ==
    /\ request[w].step = "connect"
    /\ ConnectionFree
    /\ Goto(w, "lock proposal")
    /\ UNCHANGED tables

\* Seeded fault: proposers may review their own knowledge.
Reviewable_BySelf(p, reviewer) == proposals[p].status = "pending"

Reviewable(p, reviewer) ==
    /\ proposals[p].status = "pending"
    /\ proposals[p].draft.proposer # reviewer

\* SELECT ... FROM knowledge_proposals ... FOR UPDATE, and the checks on the row.
LockProposal(w) ==
    LET r == request[w]
    IN  /\ r.step = "lock proposal"
        /\ ProposalFree(w, r.proposal)
        /\ IF ~Reviewable(r.proposal, r.reviewer)
           THEN Answer(w)
           ELSE Goto(w, IF r.decision = "rejected" THEN "reject" ELSE "insert page")
        /\ UNCHANGED tables

\* UPDATE knowledge_proposals ... 'rejected' and its event, uncommitted.
Reject(w) ==
    /\ request[w].step = "reject"
    /\ Goto(w, "commit")
    /\ UNCHANGED tables

\* INSERT INTO knowledge_pages ... ON CONFLICT DO NOTHING.
InsertPage(w) ==
    /\ request[w].step = "insert page"
    /\ ~PageBeingInserted(w, DraftOf(w).key)
    /\ request' = [request EXCEPT ![w].step = "lock page",
                                  ![w].insertsPage = DraftOf(w).key \notin DOMAIN pages]
    /\ UNCHANGED tables

\* SELECT ... FROM knowledge_pages ... FOR UPDATE, and the canonical language.
LockPage(w) ==
    /\ request[w].step = "lock page"
    /\ PageFree(w, DraftOf(w).key)
    /\ IF ~request[w].insertsPage /\ pages[DraftOf(w).key] # DraftOf(w).canonical
       THEN Answer(w)
       ELSE Goto(w, "read latest")
    /\ UNCHANGED tables

\* SELECT the published revision, and the check on the base.
ReadLatest(w) ==
    LET latest == Latest(DraftOf(w).key, DraftOf(w).language)
    IN  /\ request[w].step = "read latest"
        /\ IF ~BaseIsCurrent(DraftOf(w), latest)
           THEN Answer(w)
           ELSE request' = [request EXCEPT ![w].step = "write", ![w].latest = latest]
        /\ UNCHANGED tables

\* UPDATE the revision read, INSERT the new one, UPDATE the proposal and the
\* page and INSERT the events, uncommitted.  Only the INSERT of the revision
\* can be refused, and that is no conflict but an internal error.
Write(w, id) ==
    /\ request[w].step = "write"
    /\ id \in RevisionIds \ DOMAIN revisions
    /\ \A v \in Workers : request[v].revision # id
    /\ ~DuplicatePending(w)
    /\ IF Duplicate(w)
       THEN Answer(w)
       ELSE request' = [request EXCEPT ![w].step = "commit", ![w].revision = id]
    /\ UNCHANGED tables

\* The proposal row of the transaction, as its UPDATE left it.
DecidedProposal(w) ==
    [proposals[request[w].proposal] EXCEPT !.status = request[w].decision,
                                           !.reviewer = request[w].reviewer]

\* The revision read is superseded.
Superseded(row) == [row EXCEPT !.status = "superseded"]

CommitRejection(w) ==
    /\ events' = events \cup {Event("proposal.rejected", request[w].reviewer, request[w].proposal)}
    /\ UNCHANGED <<pages, revisions>>

CommitAcceptance(w) ==
    LET r == request[w]
    IN  /\ pages' = [k \in DOMAIN pages \cup {DraftOf(w).key} |->
                        IF r.insertsPage /\ k = DraftOf(w).key
                        THEN DraftOf(w).canonical ELSE pages[k]]
        /\ revisions' = [i \in DOMAIN revisions \cup {r.revision} |->
                            IF i = r.revision THEN NewRevision(w)
                            ELSE IF i = r.latest THEN Superseded(revisions[i])
                            ELSE revisions[i]]
        /\ events' = events \cup {Event("proposal.accepted", r.reviewer, r.proposal),
                                  Event("revision.published", r.reviewer, r.revision)}

\* COMMIT, whether its client hears of it or the connection is lost just after.
Commit(w) ==
    /\ request[w].step = "commit"
    /\ proposals' = [proposals EXCEPT ![request[w].proposal] = DecidedProposal(w)]
    /\ IF request[w].decision = "rejected" THEN CommitRejection(w) ELSE CommitAcceptance(w)
    /\ Answer(w)

\* The request is cancelled or the connection lost before the commit.
Abort(w) ==
    /\ request[w].step # "idle"
    /\ Answer(w)
    /\ UNCHANGED tables

Statement(w) ==
    \/ Connect(w)
    \/ LockProposal(w)
    \/ Reject(w)
    \/ InsertPage(w)
    \/ LockPage(w)
    \/ ReadLatest(w)
    \/ \E id \in RevisionIds : Write(w, id)
    \/ Commit(w)

Next ==
    \/ \E p \in ProposalIds, draft \in Drafts : CreateProposal(p, draft)
    \/ \E w \in Workers, p \in ProposalIds, reviewer \in Subjects,
          decision \in {"accepted", "rejected"} : ReceiveReview(w, p, reviewer, decision)
    \/ \E w \in Workers : Statement(w)
    \/ \E w \in Workers : Abort(w)

Spec == Init /\ [][Next]_vars

\* A lock that is released infinitely often is granted in the end: row locks
\* and connections are handed over in the order of the waiting requests.
\* Nothing obliges a request to be cancelled, nor clients to send one.
Fairness == \A w \in Workers : SF_vars(Statement(w))

FairSpec == Spec /\ Fairness

-----------------------------------------------------------------------------
(* Properties.                                                             *)

\* Tables and requests hold what their declarations say, foreign keys resolve.
TypeOK ==
    /\ DOMAIN pages \subseteq Keys
    /\ pages \in [DOMAIN pages -> Languages]
    /\ DOMAIN revisions \subseteq RevisionIds
    /\ revisions \in [DOMAIN revisions -> RevisionRows]
    /\ DOMAIN proposals \subseteq ProposalIds
    /\ proposals \in [DOMAIN proposals -> ProposalRows]
    /\ \A i \in DOMAIN revisions : revisions[i].key \in DOMAIN pages
    /\ \A p \in DOMAIN proposals : proposals[p].draft.base \in DOMAIN revisions \cup {None}
    /\ events \subseteq EventRows
    /\ request \in [Workers -> Requests]

\* Readers are not shown the inside of an acceptance: at every moment search,
\* in a language or in all of them, finds a document exactly when it can be
\* fetched, and the same revision and no second one, however many transactions
\* are between the statement that supersedes a revision and the one that
\* publishes the next.
AcceptancesLookAtomic ==
    \A k \in Keys, l \in Languages :
        LET fetched == {GetPublished(k, l)} \ {None}
            hits(found) == {i \in found : revisions[i].key = k /\ revisions[i].language = l}
        IN  hits(Search(l)) = fetched /\ hits(Search(None)) = fetched

\* What a transaction has checked is still so when it commits: the proposal is
\* pending, the page is the one it saw, and the revision it read is current.
\* The code checks once and writes statements later; the locks must cover that.
ChecksStillHold ==
    \A w \in Workers :
        LET r == request[w]
        IN  /\ r.step \in {"reject", "insert page", "lock page", "read latest",
                            "write", "commit"} =>
                  Reviewable(r.proposal, r.reviewer)
            /\ r.step \in {"lock page", "read latest", "write"} =>
                  \/ r.insertsPage /\ DraftOf(w).key \notin DOMAIN pages
                  \/ ~r.insertsPage /\ DraftOf(w).key \in DOMAIN pages
            /\ r.step = "write" \/ (r.step = "commit" /\ r.decision = "accepted") =>
                  r.latest = Latest(DraftOf(w).key, DraftOf(w).language)

\* Losing a race is a conflict, never an internal error: no two transactions
\* ever try to store the same revision number, so the unique constraint, which
\* the code does not translate into ErrConflict, has nothing to refuse.
NoInternalError ==
    \A w \in Workers : request[w].step = "write" => ~Duplicate(w) /\ ~DuplicatePending(w)

\* A decision that is committed stands, whether its reviewer heard of it or
\* not: no interleaving of reviewers decides a proposal again, alters a draft,
\* brings a superseded revision back or loses an event.
AppendOnlyStep ==
    /\ \A p \in DOMAIN proposals :
          /\ p \in DOMAIN proposals'
          /\ proposals'[p].draft = proposals[p].draft
          /\ proposals[p].status # "pending" => proposals'[p] = proposals[p]
    /\ \A i \in DOMAIN revisions :
          /\ i \in DOMAIN revisions'
          /\ [revisions'[i] EXCEPT !.status = revisions[i].status] = revisions[i]
          /\ revisions[i].status = "superseded" => revisions'[i].status = "superseded"
    /\ events \subseteq events'

DecisionsStand == [][AppendOnlyStep]_vars

\* Revision i is what accepting p wrote.
WrittenBy(i, p) ==
    LET draft == proposals[p].draft
    IN  /\ proposals[p].status = "accepted"
        /\ revisions[i].key = draft.key
        /\ revisions[i].language = draft.language
        /\ draft.base # None => /\ revisions[draft.base].key = draft.key
                                /\ revisions[draft.base].language = draft.language
        /\ revisions[i].number = NextNumber(draft.base)
        /\ revisions[i].body = draft.body
        /\ revisions[i].author = draft.proposer
        /\ proposals[p].reviewer \notin {None, draft.proposer}

\* Under any interleaving of reviewers, revisions and accepted proposals stand
\* in one-to-one correspondence, and each was written on top of the revision
\* its proposer had seen, on the word of somebody else.
CommittedLineage ==
    /\ \A i \in DOMAIN revisions :
          \E p \in DOMAIN proposals :
             WrittenBy(i, p) /\ \A q \in DOMAIN proposals : WrittenBy(i, q) => q = p
    /\ \A p \in DOMAIN proposals :
          proposals[p].status = "accepted" => \E i \in DOMAIN revisions : WrittenBy(i, p)

\* The next statement of w cannot be executed while v has what v has.  For a
\* connection it is enough that one of those who have one gives it back.
WaitsFor(w, v) ==
    LET r == request[w]
    IN  /\ v # w
        /\ \/ r.step = "connect" /\ ~ConnectionFree /\ InTransaction(v)
           \/ r.step = "lock proposal" /\ HoldsProposal(v, r.proposal)
           \/ r.step = "insert page" /\ InsertsPage(v, DraftOf(w).key)
           \/ r.step = "lock page" /\ HoldsPage(v, DraftOf(w).key)
           \/ r.step = "write" /\ Duplicates(v, w)

\* Reviewers do not deadlock, not even some of them while others go on: of any
\* requests, one waits for none of the others, though each takes a connection, a
\* proposal, a page and its insert one by one, and there are more requests than
\* connections.
SomebodyProceeds ==
    \A reviewers \in (SUBSET Workers) \ {{}} :
        \E w \in reviewers : \A v \in reviewers : ~WaitsFor(w, v)

\* No review waits for ever: reviewers who contend for proposals, pages and
\* connections do not deadlock, and each gets an answer.
ReviewsFinish ==
    \A w \in Workers : request[w].step # "idle" ~> request[w].step = "idle"

-----------------------------------------------------------------------------
(* The committed tables implement the contract of module Commons.          *)

SlotOf(key, language) == <<key, language>>

BodyOf(slot, n) ==
    revisions[CHOOSE i \in DOMAIN revisions :
                 /\ SlotOf(revisions[i].key, revisions[i].language) = slot
                 /\ revisions[i].number = n].body

HistoryOf(slot) ==
    [n \in 1 .. NextNumber(Latest(slot[1], slot[2])) - 1 |-> BodyOf(slot, n)]

VersionOf(base) ==
    IF base = None THEN None
    ELSE [slot |-> SlotOf(revisions[base].key, revisions[base].language),
          number |-> revisions[base].number]

Promise == INSTANCE Commons WITH
    history  <- [slot \in Keys \X Languages |-> HistoryOf(slot)],
    owner    <- [k \in Keys |-> IF k \in DOMAIN pages THEN "reviewed" ELSE "none"],
    requests <- [p \in DOMAIN proposals |->
                    [slot     |-> SlotOf(proposals[p].draft.key, proposals[p].draft.language),
                     base     |-> VersionOf(proposals[p].draft.base),
                     proposer |-> proposals[p].draft.proposer,
                     body     |-> proposals[p].draft.body,
                     status   |-> proposals[p].status,
                     reviewer |-> proposals[p].reviewer]]

\* Concurrent reviewers look to everybody else as if they had taken turns: each
\* commit is one step of the contract, everything else is invisible.
CommitsRefineCommons == Promise!Spec
=============================================================================
