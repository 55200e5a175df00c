----------------------------- MODULE SqliteStore -----------------------------
(***************************************************************************)
(* The embedded store, internal/storage/sqlite: reviewed proposals and     *)
(* imported source documents over four tables.                             *)
(*                                                                         *)
(* A table is a function from primary keys to rows.  Each operation of the *)
(* Go code is one database transaction, and the pool holds one connection  *)
(* (Open, SetMaxOpenConns(1)), so a transaction runs alone and an error    *)
(* rolls the whole of it back: every operation is one action, and a        *)
(* refused or failed one leaves the state alone.                           *)
(*                                                                         *)
(* A page is identified by its knowledge key (UNIQUE), a body stands for   *)
(* title and body, and the content hash of a document is the body itself   *)
(* (SHA-256 is taken to be injective).  A commit stands for the source     *)
(* revision, URL and path an import carries.                               *)
(***************************************************************************)
EXTENDS Naturals, FiniteSets

CONSTANTS
    Keys,         \* valid, normalised knowledge keys
    Languages,    \* valid, normalised language identifiers
    Subjects,     \* authenticated subjects: proposers, reviewers, importers
    Bodies,       \* contents of a document
    Sources,      \* source keys of the importing repositories
    Commits,      \* provenance of an import
    RevisionIds,  \* UUIDs of revisions
    ProposalIds,  \* UUIDs of proposals
    None          \* SQL NULL, and the language of a search in all of them

\* NULL is no identifier, no source key, no provenance and no language.
ASSUME NoneAssumption ==
    None \notin RevisionIds \cup ProposalIds \cup Sources \cup Commits \cup Subjects
                \cup Languages

VARIABLES
    pages,      \* knowledge_pages, by knowledge_key
    revisions,  \* knowledge_revisions, by id
    proposals,  \* knowledge_proposals, by id
    indexed,    \* revisions that knowledge_chunks_fts has chunks of
    events      \* knowledge_events

vars == <<pages, revisions, proposals, indexed, events>>

Visibilities == {"shared", "restricted"}

PageRows ==
    [canonical : Languages, kind : {"reviewed", "source"},
     visibility : Visibilities, source : Sources \cup {None}]

RevisionRows ==
    [key : Keys, language : Languages, number : Nat \ {0}, body : Bodies,
     status : {"published", "superseded"}, author : Subjects,
     commit : Commits \cup {None}]

\* What a client sends to have a page written or changed.
Drafts ==
    [key : Keys, canonical : Languages, language : Languages,
     base : RevisionIds \cup {None}, proposer : Subjects, body : Bodies]

ProposalRows ==
    [draft : Drafts, status : {"pending", "accepted", "rejected"},
     reviewer : Subjects \cup {None}]

SourceDrafts ==
    [key : Keys, canonical : Languages, language : Languages, body : Bodies,
     visibility : Visibilities, source : Sources, commit : Commits,
     importer : Subjects]

Event(type, actor, subject) == [type |-> type, actor |-> actor, subject |-> subject]

EventRows ==
    [type : {"proposal.created", "proposal.accepted", "proposal.rejected",
             "revision.published", "source.synced"},
     actor : Subjects, subject : RevisionIds \cup ProposalIds]

-----------------------------------------------------------------------------
(* Queries.                                                                *)

Published(key, language) ==
    {i \in DOMAIN revisions : /\ revisions[i].key = key
                              /\ revisions[i].language = language
                              /\ revisions[i].status = "published"}

\* SELECT ... AND status = 'published' ORDER BY revision_number DESC LIMIT 1
Latest(key, language) ==
    IF Published(key, language) = {}
    THEN None
    ELSE CHOOSE i \in Published(key, language) :
            \A j \in Published(key, language) : revisions[j].number <= revisions[i].number

\* Seeded fault: the new revision takes the number of the one it replaces.
NextNumber_NotIncremented(latest) ==
    IF latest = None THEN 1 ELSE revisions[latest].number

NextNumber(latest) == IF latest = None THEN 1 ELSE revisions[latest].number + 1

\* The row a transaction sees after INSERT ... ON CONFLICT DO NOTHING.
PageFor(key, inserted) == IF key \in DOMAIN pages THEN pages[key] ELSE inserted

\* Seeded fault: "updates require the current base_revision_id" is not checked.
BaseIsCurrent_IfGiven(draft, latest) == draft.base # None => draft.base = latest

\* Seeded fault: a base is required of updates, but not that it is current.
BaseIsCurrent_Present(draft, latest) == (draft.base = None) = (latest = None)

\* The base of an update must be the latest revision; a new document has none.
BaseIsCurrent(draft, latest) == draft.base = latest

Visible(key, includeRestricted) ==
    includeRestricted \/ pages[key].visibility = "shared"

\* The revision served to a reader, or None for "not found".
GetPublishedVisible(key, language, includeRestricted) ==
    IF key \in DOMAIN pages /\ Visible(key, includeRestricted)
    THEN Latest(key, language)
    ELSE None

\* Seeded fault: the query forgets that superseded revisions stay indexed.
SearchVisible_AnyStatus(language, includeRestricted) ==
    {i \in indexed : /\ language \in {None, revisions[i].language}
                     /\ Visible(revisions[i].key, includeRestricted)}

\* The revisions a query can return when its terms occur in all of them.
SearchVisible(language, includeRestricted) ==
    {i \in indexed : /\ revisions[i].status = "published"
                     /\ language \in {None, revisions[i].language}
                     /\ Visible(revisions[i].key, includeRestricted)}

-----------------------------------------------------------------------------
(* Writes shared by the operations.                                        *)

\* Seeded fault: the page row is updated but never inserted.
WritePage_UpdateOnly(key, row) ==
    pages' = [k \in DOMAIN pages |-> IF k = key THEN row ELSE pages[k]]

WritePage(key, row) ==
    pages' = [k \in DOMAIN pages \cup {key} |-> IF k = key THEN row ELSE pages[k]]

Superseded(row) == [row EXCEPT !.status = "superseded"]

\* Seeded fault: every language of the page is superseded.
WriteRevision_WholePage(id, row, latest) ==
    revisions' = [i \in DOMAIN revisions \cup {id} |->
                     IF i = id THEN row
                     ELSE IF revisions[i].key = row.key THEN Superseded(revisions[i])
                     ELSE revisions[i]]

\* Insert the published revision `id` and supersede `latest`.
WriteRevision(id, row, latest) ==
    revisions' = [i \in DOMAIN revisions \cup {id} |->
                     IF i = id THEN row
                     ELSE IF i = latest THEN Superseded(revisions[i])
                     ELSE revisions[i]]

IndexRevision(id) == indexed' = indexed \cup {id}

Record(rows) == events' = events \cup rows

-----------------------------------------------------------------------------
(* Operations.                                                             *)

Init ==
    /\ pages = [k \in {} |-> None]
    /\ revisions = [i \in {} |-> None]
    /\ proposals = [p \in {} |-> None]
    /\ indexed = {}
    /\ events = {}

\* Any client may propose; the base is checked to exist (foreign key) only.
CreateProposal(p, draft) ==
    /\ p \notin DOMAIN proposals
    /\ draft.base \in DOMAIN revisions \cup {None}
    /\ proposals' = [q \in DOMAIN proposals \cup {p} |->
                        IF q = p
                        THEN [draft |-> draft, status |-> "pending", reviewer |-> None]
                        ELSE proposals[q]]
    /\ Record({Event("proposal.created", draft.proposer, p)})
    /\ UNCHANGED <<pages, revisions, indexed>>

\* Seeded fault: a decided proposal can be decided again.
Reviewable_AnyStatus(p, reviewer) ==
    /\ p \in DOMAIN proposals
    /\ proposals[p].draft.proposer # reviewer

\* Seeded fault: proposers may review their own knowledge.
Reviewable_BySelf(p, reviewer) ==
    /\ p \in DOMAIN proposals
    /\ proposals[p].status = "pending"

Reviewable(p, reviewer) ==
    /\ p \in DOMAIN proposals
    /\ proposals[p].status = "pending"
    /\ proposals[p].draft.proposer # reviewer

\* Seeded fault: the decision is stored without the subject who took it.
Decide_Anonymously(p, reviewer, status) ==
    proposals' = [proposals EXCEPT ![p].status = status]

Decide(p, reviewer, status) ==
    proposals' = [proposals EXCEPT ![p].status = status, ![p].reviewer = reviewer]

RejectProposal(p, reviewer) ==
    /\ Reviewable(p, reviewer)
    /\ Decide(p, reviewer, "rejected")
    /\ Record({Event("proposal.rejected", reviewer, p)})
    /\ UNCHANGED <<pages, revisions, indexed>>

\* A page the review workflow creates; kind and visibility take the defaults
\* of the schema.
ReviewedPage(draft) ==
    [canonical |-> draft.canonical, kind |-> "reviewed",
     visibility |-> "shared", source |-> None]

ReviewedRevision(draft, latest) ==
    [key |-> draft.key, language |-> draft.language,
     number |-> NextNumber(latest), body |-> draft.body,
     status |-> "published", author |-> draft.proposer, commit |-> None]

\* Source pages are not reviewed, the canonical language of a page is fixed,
\* and the draft was written against what is published now.
Publishable(draft) ==
    LET page == PageFor(draft.key, ReviewedPage(draft))
    IN  /\ page.kind # "source"
        /\ page.canonical = draft.canonical
        /\ BaseIsCurrent(draft, Latest(draft.key, draft.language))

PublishProposal(p, reviewer, id) ==
    LET draft  == proposals[p].draft
        latest == Latest(draft.key, draft.language)
    IN  /\ Publishable(draft)
        /\ WritePage(draft.key, PageFor(draft.key, ReviewedPage(draft)))
        /\ WriteRevision(id, ReviewedRevision(draft, latest), latest)
        /\ IndexRevision(id)
        /\ Record({Event("proposal.accepted", reviewer, p),
                   Event("revision.published", reviewer, id)})

AcceptProposal(p, reviewer, id) ==
    /\ Reviewable(p, reviewer)
    /\ id \in RevisionIds \ DOMAIN revisions
    /\ PublishProposal(p, reviewer, id)
    /\ Decide(p, reviewer, "accepted")

-----------------------------------------------------------------------------
(* Imports.  Whatever the content, the page takes the visibility and the   *)
(* source of the last import.                                              *)

SourcePage(draft) ==
    [canonical |-> draft.canonical, kind |-> "source",
     visibility |-> draft.visibility, source |-> draft.source]

\* Seeded fault: an import does not ask how the page is maintained.
OwnsPage_AnyKind(draft) ==
    PageFor(draft.key, SourcePage(draft)).canonical = draft.canonical

OwnsPage(draft) ==
    LET page == PageFor(draft.key, SourcePage(draft))
    IN  page.canonical = draft.canonical /\ page.kind = "source"

\* Seeded fault: a known page keeps the visibility it has.
UpsertPage_KeepsVisibility(draft) ==
    WritePage(draft.key,
        [PageFor(draft.key, SourcePage(draft)) EXCEPT !.source = draft.source])

UpsertPage(draft) ==
    WritePage(draft.key,
        [PageFor(draft.key, SourcePage(draft)) EXCEPT
            !.visibility = draft.visibility, !.source = draft.source])

\* Seeded fault: any import of a known document only moves its provenance.
Unchanged_AnyContent(draft, latest) == latest # None

\* Seeded fault: another commit is taken for another content.
Unchanged_SameCommit(draft, latest) ==
    latest # None /\ revisions[latest].commit = draft.commit

Unchanged(draft, latest) == latest # None /\ revisions[latest].body = draft.body

\* The document is the current revision already: only its provenance moves.
UpsertUnchangedSource(draft) ==
    LET latest == Latest(draft.key, draft.language)
    IN  /\ OwnsPage(draft)
        /\ Unchanged(draft, latest)
        /\ UpsertPage(draft)
        /\ revisions' = [revisions EXCEPT ![latest].commit = draft.commit]
        /\ UNCHANGED <<proposals, indexed, events>>

SourceRevision(draft, latest) ==
    [key |-> draft.key, language |-> draft.language,
     number |-> NextNumber(latest), body |-> draft.body,
     status |-> "published", author |-> draft.importer, commit |-> draft.commit]

UpsertChangedSource(draft, id) ==
    LET latest == Latest(draft.key, draft.language)
    IN  /\ id \in RevisionIds \ DOMAIN revisions
        /\ OwnsPage(draft)
        /\ ~Unchanged(draft, latest)
        /\ UpsertPage(draft)
        /\ WriteRevision(id, SourceRevision(draft, latest), latest)
        /\ IndexRevision(id)
        /\ Record({Event("source.synced", draft.importer, id)})
        /\ UNCHANGED proposals

Next ==
    \/ \E p \in ProposalIds, draft \in Drafts : CreateProposal(p, draft)
    \/ \E p \in ProposalIds, reviewer \in Subjects : RejectProposal(p, reviewer)
    \/ \E p \in ProposalIds, reviewer \in Subjects, id \in RevisionIds :
          AcceptProposal(p, reviewer, id)
    \/ \E draft \in SourceDrafts : UpsertUnchangedSource(draft)
    \/ \E draft \in SourceDrafts, id \in RevisionIds : UpsertChangedSource(draft, id)

Spec == Init /\ [][Next]_vars
-----------------------------------------------------------------------------
(* Invariants.                                                             *)

\* Every table holds rows of its schema, and foreign keys resolve.
TypeOK ==
    /\ DOMAIN pages \subseteq Keys
    /\ pages \in [DOMAIN pages -> PageRows]
    /\ DOMAIN revisions \subseteq RevisionIds
    /\ revisions \in [DOMAIN revisions -> RevisionRows]
    /\ DOMAIN proposals \subseteq ProposalIds
    /\ proposals \in [DOMAIN proposals -> ProposalRows]
    /\ \A i \in DOMAIN revisions : revisions[i].key \in DOMAIN pages
    /\ \A p \in DOMAIN proposals : proposals[p].draft.base \in DOMAIN revisions \cup {None}
    /\ indexed \subseteq DOMAIN revisions
    /\ events \subseteq EventRows

\* Two revisions of one document in one language.
SameSlot(i, j) ==
    /\ revisions[i].key = revisions[j].key
    /\ revisions[i].language = revisions[j].language

\* Readers are never offered a choice: a document has at most one published
\* revision per language, although no constraint of the schema says so and
\* publishProposal and UpsertSource supersede only the row they looked up.
OnePublished ==
    \A i, j \in DOMAIN revisions :
        (/\ SameSlot(i, j)
         /\ revisions[i].status = "published"
         /\ revisions[j].status = "published") => i = j

\* The numbers in citations mean something: the revisions of a document in a
\* language are numbered 1, 2, ..., n without gap or repetition, whatever mix
\* of reviews, imports and refused transactions produced them, and exactly the
\* last is published.  The code computes a number from the published
\* row alone (latestRevisionNumber + 1).
GaplessHistory ==
    \A i \in DOMAIN revisions :
        LET slot == {j \in DOMAIN revisions : SameSlot(i, j)}
        IN  /\ {revisions[j].number : j \in slot} = 1 .. Cardinality(slot)
            /\ \A j \in slot : revisions[j].status = "published"
                               <=> revisions[j].number = Cardinality(slot)

\* Of the proposals written against one base, in one document and language,
\* at most one is ever accepted, in whatever order and by whomever they are
\* reviewed (publishProposal: "base revision is no longer current", "updates
\* require the current base_revision_id").
FirstReviewWins ==
    \A p, q \in DOMAIN proposals :
        (/\ proposals[p].status = "accepted"
         /\ proposals[q].status = "accepted"
         /\ proposals[p].draft.key = proposals[q].draft.key
         /\ proposals[p].draft.language = proposals[q].draft.language
         /\ proposals[p].draft.base = proposals[q].draft.base) => p = q

\* Revision i is what accepting p wrote: the next one after p's base, with
\* p's content and under p's author.
WrittenBy(i, p) ==
    LET draft == proposals[p].draft
    IN  /\ proposals[p].status = "accepted"
        /\ revisions[i].key = draft.key
        /\ revisions[i].language = draft.language
        /\ draft.base # None => SameSlot(i, draft.base)
        /\ revisions[i].number = NextNumber(draft.base)
        /\ revisions[i].body = draft.body
        /\ revisions[i].author = draft.proposer

\* Reviewed knowledge is exactly what was reviewed: on a reviewed page each
\* revision was written by exactly one accepted proposal, whose author had
\* seen the revision before it, and that a second subject decided; and each
\* accepted proposal has its revision.
ReviewedLineage ==
    /\ \A i \in DOMAIN revisions :
          pages[revisions[i].key].kind = "reviewed" =>
             \E p \in DOMAIN proposals :
                /\ WrittenBy(i, p)
                /\ proposals[p].reviewer \notin {None, proposals[p].draft.proposer}
                /\ \A q \in DOMAIN proposals : WrittenBy(i, q) => q = p
    /\ \A p \in DOMAIN proposals :
          proposals[p].status = "accepted" => \E i \in DOMAIN revisions : WrittenBy(i, p)

\* A key stays with the workflow that published it first: a proposal is never
\* accepted on a source page ("source-backed knowledge must be changed in its
\* canonical repository"), an import never lands on a reviewed page ("knowledge
\* key belongs to another canonical source"), and every page has content.
KindSeparation ==
    /\ \A k \in DOMAIN pages :
          /\ \E i \in DOMAIN revisions : revisions[i].key = k
          /\ (pages[k].kind = "source") = (pages[k].source # None)
    /\ \A i \in DOMAIN revisions :
          (pages[revisions[i].key].kind = "source") = (revisions[i].commit # None)
    /\ \A p \in DOMAIN proposals :
          proposals[p].status = "accepted" => pages[proposals[p].draft.key].kind = "reviewed"

\* The subjects that the event log names for an event type and a row.
Actors(type, subject) == {e.actor : e \in {f \in events : f.type = type /\ f.subject = subject}}

\* The event log alone tells who did what: it says who created and who decided
\* each proposal, and through which workflow, and by whom, each revision came.
\* An operation that commits its rows without its events, or the other way
\* round, breaks this.
AuditTrail ==
    /\ \A p \in ProposalIds :
          LET known(S) == IF p \in DOMAIN proposals THEN S ELSE {}
              reviewer(status) ==
                  known({proposals[p].reviewer : x \in {proposals[p].status} \cap {status}})
          IN  /\ Actors("proposal.created", p) = known({proposals[p].draft.proposer})
              /\ Actors("proposal.accepted", p) = reviewer("accepted")
              /\ Actors("proposal.rejected", p) = reviewer("rejected")
    /\ \A i \in RevisionIds :
          LET published == Actors("revision.published", i)
              synced    == Actors("source.synced", i)
          IN  IF i \notin DOMAIN revisions
              THEN published = {} /\ synced = {}
              ELSE IF pages[revisions[i].key].kind = "source"
              THEN published = {} /\ synced = {revisions[i].author}
              ELSE synced = {} /\ Cardinality(published) = 1 /\ revisions[i].author \notin published

\* Search and lookup answer from different tables, under their own visibility
\* filters, yet agree: a document whose text matches is found by a search in
\* its language, or in all languages, exactly when it can be fetched, and it
\* is the same revision.
SearchAgreesWithGet ==
    \A k \in Keys, l \in Languages, includeRestricted \in BOOLEAN :
        LET fetched == {GetPublishedVisible(k, l, includeRestricted)} \ {None}
            hits(found) == {i \in found : revisions[i].key = k /\ revisions[i].language = l}
        IN  /\ hits(SearchVisible(l, includeRestricted)) = fetched
            /\ hits(SearchVisible(None, includeRestricted)) = fetched

-----------------------------------------------------------------------------
(* Action properties.                                                      *)

\* History is append-only: no step removes a row, changes what a revision says
\* or who wrote it, republishes a superseded revision, reopens or alters a
\* decided proposal, rewrites a draft, or loses an event.
AppendOnlyStep ==
    /\ \A i \in DOMAIN revisions :
          /\ i \in DOMAIN revisions'
          /\ [revisions'[i] EXCEPT !.status = revisions[i].status,
                                   !.commit = revisions[i].commit] = revisions[i]
          /\ revisions[i].status = "superseded" => revisions'[i].status = "superseded"
    /\ \A p \in DOMAIN proposals :
          /\ p \in DOMAIN proposals'
          /\ proposals'[p].draft = proposals[p].draft
          /\ proposals[p].status # "pending" => proposals'[p] = proposals[p]
    /\ \A k \in DOMAIN pages :
          /\ k \in DOMAIN pages'
          /\ pages'[k].kind = pages[k].kind
          /\ pages'[k].canonical = pages[k].canonical
    /\ events \subseteq events'

HistoryAppendOnly == [][AppendOnlyStep]_vars

\* Languages of a document have lives of their own: one operation moves the
\* published revision of at most one document in one language, and always to
\* the successor of the revision readers had, never to nothing.
OneSlotStep ==
    \A k \in Keys, l \in Languages :
        Latest(k, l)' # Latest(k, l) =>
            /\ Latest(k, l)' # None
            /\ revisions'[Latest(k, l)'].number = NextNumber(Latest(k, l))
            /\ \A m \in Keys, n \in Languages :
                  Latest(m, n)' # Latest(m, n) => m = k /\ n = l

TranslationsIndependent == [][OneSlotStep]_vars

-----------------------------------------------------------------------------
(* A statement the repository makes and the code does not keep.            *)

\* README.md: "Immutable source URL, revision, path, and content hash on every
\* imported revision".  Importing the same content again rewrites them.
ProvenanceImmutable ==
    [][\A i \in DOMAIN revisions : revisions'[i].commit = revisions[i].commit]_vars

-----------------------------------------------------------------------------
(* The store implements the contract of module Commons.                    *)

SlotOf(key, language) == <<key, language>>

BodyOf(slot, n) ==
    revisions[CHOOSE i \in DOMAIN revisions :
                 /\ SlotOf(revisions[i].key, revisions[i].language) = slot
                 /\ revisions[i].number = n].body

HistoryOf(slot) ==
    [n \in 1 .. NextNumber(Latest(slot[1], slot[2])) - 1 |-> BodyOf(slot, n)]

VersionOf(base) ==
    IF base = None THEN None
    ELSE [slot |-> SlotOf(revisions[base].key, revisions[base].language),
          number |-> revisions[base].number]

Promise == INSTANCE Commons WITH
    history  <- [slot \in Keys \X Languages |-> HistoryOf(slot)],
    owner    <- [k \in Keys |-> IF k \in DOMAIN pages THEN pages[k].kind ELSE "none"],
    requests <- [p \in DOMAIN proposals |->
                    [slot     |-> SlotOf(proposals[p].draft.key, proposals[p].draft.language),
                     base     |-> VersionOf(proposals[p].draft.base),
                     proposer |-> proposals[p].draft.proposer,
                     body     |-> proposals[p].draft.body,
                     status   |-> proposals[p].status,
                     reviewer |-> proposals[p].reviewer]]

\* Every run of the store is, document by document and language by language, a
\* run of the contract: histories grow at the end only, by an approval against
\* the current version or by an import that changes something.
RefinesCommons == Promise!Spec
=============================================================================
