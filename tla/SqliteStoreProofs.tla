------------------------- MODULE SqliteStoreProofs -------------------------
(***************************************************************************)
(* Theorems about SqliteStore for every value of its constants.            *)
(*                                                                         *)
(* The schema does not enforce that a document has one published revision  *)
(* per language; the code relies on it each time it looks the latest       *)
(* revision up.  It is therefore part of the inductive invariant, together *)
(* with the reason why a base can be used once: an accepted proposal       *)
(* leaves something published behind, and its base superseded.             *)
(***************************************************************************)
EXTENDS SqliteStore, TLAPS

\* What accepting a proposal leaves behind in the table of revisions, forever:
\* its document has a published revision, and the base it named is superseded.
Trace(table, draft) ==
    /\ \E i \in DOMAIN table : /\ table[i].key = draft.key
                              /\ table[i].language = draft.language
                              /\ table[i].status = "published"
    /\ draft.base # None => table[draft.base].status = "superseded"

AcceptedLeavesTrace ==
    \A p \in DOMAIN proposals :
        proposals[p].status = "accepted" => Trace(revisions, proposals[p].draft)

IInv ==
    /\ TypeOK
    /\ OnePublished
    /\ AcceptedLeavesTrace
    /\ FirstReviewWins

-----------------------------------------------------------------------------
(* Lemmas about the queries and the writes.                                *)

\* The latest revision is the published one, if there is any.
LEMMA LatestIsPublished ==
    ASSUME TypeOK, OnePublished, NEW k, NEW l
    PROVE  /\ Latest(k, l) = None <=> Published(k, l) = {}
           /\ Latest(k, l) # None => Published(k, l) = {Latest(k, l)}
<1>1. Published(k, l) \subseteq RevisionIds
  BY DEF TypeOK, Published
<1>2. CASE Published(k, l) = {}
  BY <1>2 DEF Latest
<1>3. CASE Published(k, l) # {}
  <2>1. PICK i \in Published(k, l) : TRUE
    BY <1>3
  <2>2. \A j \in Published(k, l) : j = i
    BY <2>1 DEF OnePublished, Published, SameSlot
  <2>3. revisions[i].number <= revisions[i].number
    <3>1. i \in DOMAIN revisions
      BY <2>1 DEF Published
    <3>2. revisions[i] \in RevisionRows
      BY <3>1 DEF TypeOK
    <3> QED BY <3>2 DEF RevisionRows
  <2>4. Latest(k, l) \in Published(k, l)
    BY <1>3, <2>1, <2>2, <2>3 DEF Latest
  <2> QED BY <1>1, <1>3, <2>2, <2>4, NoneAssumption
<1> QED BY <1>2, <1>3

\* The number given to the next revision is a revision number.
LEMMA NextNumberTyped ==
    ASSUME TypeOK, OnePublished, NEW k, NEW l
    PROVE  NextNumber(Latest(k, l)) \in Nat \ {0}
<1>1. CASE Latest(k, l) = None
  BY <1>1 DEF NextNumber
<1>2. CASE Latest(k, l) # None
  <2>1. Latest(k, l) \in DOMAIN revisions
    BY <1>2, LatestIsPublished DEF Published
  <2>2. revisions[Latest(k, l)] \in RevisionRows
    BY <2>1 DEF TypeOK
  <2> QED BY <1>2, <2>2 DEF NextNumber, RevisionRows
<1> QED BY <1>1, <1>2

\* Everything a new revision does to the table: it is the only published row
\* of its slot afterwards, and no other slot notices.
LEMMA WriteRevisionEffect ==
    ASSUME TypeOK, OnePublished,
           NEW id \in RevisionIds \ DOMAIN revisions,
           NEW row \in RevisionRows, row.status = "published",
           WriteRevision(id, row, Latest(row.key, row.language))
    PROVE  /\ DOMAIN revisions' = DOMAIN revisions \cup {id}
           /\ revisions' \in [DOMAIN revisions' -> RevisionRows]
           /\ revisions'[id] = row
           /\ \A i \in DOMAIN revisions :
                 /\ revisions'[i] = [revisions[i] EXCEPT !.status = revisions'[i].status]
                 /\ revisions'[i].key = revisions[i].key
                 /\ revisions'[i].language = revisions[i].language
                 /\ revisions[i].status = "superseded" => revisions'[i] = revisions[i]
                 /\ IF revisions[i].key = row.key /\ revisions[i].language = row.language
                    THEN revisions'[i].status = "superseded"
                    ELSE revisions'[i] = revisions[i]
<1> DEFINE latest == Latest(row.key, row.language)
<1>1. revisions' = [i \in DOMAIN revisions \cup {id} |->
                       IF i = id THEN row
                       ELSE IF i = latest THEN Superseded(revisions[i])
                       ELSE revisions[i]]
  BY DEF WriteRevision
<1>2. DOMAIN revisions' = DOMAIN revisions \cup {id} /\ revisions'[id] = row
  BY <1>1
<1>3. \A i \in DOMAIN revisions :
         revisions'[i] = IF i = latest THEN Superseded(revisions[i]) ELSE revisions[i]
  BY <1>1
<1>4. latest # None => Published(row.key, row.language) = {latest}
  BY LatestIsPublished
<1>5. latest = None => Published(row.key, row.language) = {}
  BY LatestIsPublished
<1> HIDE DEF latest
<1>6. ASSUME NEW i \in DOMAIN revisions
      PROVE  /\ revisions'[i] \in RevisionRows
             /\ revisions'[i] = [revisions[i] EXCEPT !.status = revisions'[i].status]
             /\ revisions'[i].key = revisions[i].key
             /\ revisions'[i].language = revisions[i].language
             /\ revisions[i].status = "superseded" => revisions'[i] = revisions[i]
             /\ IF revisions[i].key = row.key /\ revisions[i].language = row.language
                THEN revisions'[i].status = "superseded"
                ELSE revisions'[i] = revisions[i]
  <2>1. revisions[i] \in RevisionRows /\ i \in RevisionIds
    BY <1>6 DEF TypeOK
  <2>2. i # None
    BY <2>1, NoneAssumption
  <2>3. CASE i = latest
    <3>1. i \in Published(row.key, row.language)
      BY <1>4, <2>2, <2>3
    <3>2. /\ revisions[i].key = row.key
          /\ revisions[i].language = row.language
          /\ revisions[i].status = "published"
      BY <3>1 DEF Published
    <3>3. revisions'[i] = Superseded(revisions[i])
      BY <1>3, <2>3
    <3> QED BY <2>1, <3>2, <3>3 DEF Superseded, RevisionRows
  <2>4. CASE i # latest
    <3>1. revisions'[i] = revisions[i]
      BY <1>3, <2>4
    <3>2. i \notin Published(row.key, row.language)
      BY <1>4, <1>5, <2>4
    <3>3. ~(/\ revisions[i].key = row.key
            /\ revisions[i].language = row.language
            /\ revisions[i].status = "published")
      BY <3>2 DEF Published
    <3> QED BY <2>1, <3>1, <3>3 DEF RevisionRows
  <2> QED BY <2>3, <2>4
<1>7. revisions' \in [DOMAIN revisions' -> RevisionRows]
  BY <1>1, <1>2, <1>6
<1> QED BY <1>2, <1>6, <1>7

-----------------------------------------------------------------------------
(* What each operation that publishes writes.                              *)

\* Accepting a proposal writes a row of the schema over the current revision.
LEMMA AcceptEffect ==
    ASSUME TypeOK, OnePublished,
           NEW p \in ProposalIds, NEW reviewer \in Subjects, NEW id \in RevisionIds,
           AcceptProposal(p, reviewer, id)
    PROVE  LET draft  == proposals[p].draft
               latest == Latest(draft.key, draft.language)
               row    == ReviewedRevision(draft, latest)
           IN  /\ p \in DOMAIN proposals
               /\ draft \in Drafts
               /\ id \in RevisionIds \ DOMAIN revisions
               /\ row \in RevisionRows
               /\ row.status = "published"
               /\ row.key = draft.key
               /\ row.language = draft.language
               /\ draft.base = latest
               /\ WriteRevision(id, row, Latest(row.key, row.language))
<1> DEFINE draft  == proposals[p].draft
           latest == Latest(draft.key, draft.language)
           row    == ReviewedRevision(draft, latest)
<1>1. p \in DOMAIN proposals /\ id \in RevisionIds \ DOMAIN revisions
  BY DEF AcceptProposal, Reviewable
<1>2. draft \in Drafts
  BY <1>1 DEF TypeOK, ProposalRows
<1>3. NextNumber(latest) \in Nat \ {0}
  BY NextNumberTyped
<1>4. row \in RevisionRows
  BY <1>2, <1>3 DEF ReviewedRevision, RevisionRows, Drafts
<1>5. row.status = "published" /\ row.key = draft.key /\ row.language = draft.language
  BY DEF ReviewedRevision
<1>6. draft.base = latest /\ WriteRevision(id, row, latest)
  BY DEF AcceptProposal, PublishProposal, Publishable, BaseIsCurrent
<1> QED BY <1>1, <1>2, <1>4, <1>5, <1>6

\* So does importing a changed document.
LEMMA ImportEffect ==
    ASSUME TypeOK, OnePublished,
           NEW draft \in SourceDrafts, NEW id \in RevisionIds,
           UpsertChangedSource(draft, id)
    PROVE  LET latest == Latest(draft.key, draft.language)
               row    == SourceRevision(draft, latest)
           IN  /\ id \in RevisionIds \ DOMAIN revisions
               /\ row \in RevisionRows
               /\ row.status = "published"
               /\ row.key = draft.key
               /\ row.language = draft.language
               /\ WriteRevision(id, row, Latest(row.key, row.language))
<1> DEFINE latest == Latest(draft.key, draft.language)
           row    == SourceRevision(draft, latest)
<1>1. id \in RevisionIds \ DOMAIN revisions
  BY DEF UpsertChangedSource
<1>2. NextNumber(latest) \in Nat \ {0}
  BY NextNumberTyped
<1>3. row \in RevisionRows
  BY <1>2 DEF SourceRevision, RevisionRows, SourceDrafts
<1>4. row.status = "published" /\ row.key = draft.key /\ row.language = draft.language
  BY DEF SourceRevision
<1>5. WriteRevision(id, row, latest)
  BY DEF UpsertChangedSource
<1> QED BY <1>1, <1>3, <1>4, <1>5

\* Importing an unchanged document moves nothing but the provenance of one row.
LEMMA UnchangedImportEffect ==
    ASSUME TypeOK, OnePublished, NEW draft \in SourceDrafts,
           UpsertUnchangedSource(draft)
    PROVE  /\ DOMAIN revisions' = DOMAIN revisions
           /\ revisions' \in [DOMAIN revisions -> RevisionRows]
           /\ \A i \in DOMAIN revisions :
                 /\ revisions'[i].key = revisions[i].key
                 /\ revisions'[i].language = revisions[i].language
                 /\ revisions'[i].number = revisions[i].number
                 /\ revisions'[i].body = revisions[i].body
                 /\ revisions'[i].author = revisions[i].author
                 /\ revisions'[i].status = revisions[i].status
<1> DEFINE latest == Latest(draft.key, draft.language)
<1>1. revisions' = [revisions EXCEPT ![latest].commit = draft.commit]
  BY DEF UpsertUnchangedSource
<1> HIDE DEF latest
<1>2. DOMAIN revisions' = DOMAIN revisions
  BY <1>1
<1>3. draft.commit \in Commits
  BY DEF SourceDrafts
<1>4. ASSUME NEW i \in DOMAIN revisions
      PROVE  /\ revisions'[i] \in RevisionRows
             /\ revisions'[i].key = revisions[i].key
             /\ revisions'[i].language = revisions[i].language
             /\ revisions'[i].number = revisions[i].number
             /\ revisions'[i].body = revisions[i].body
             /\ revisions'[i].author = revisions[i].author
             /\ revisions'[i].status = revisions[i].status
  <2>1. revisions[i] \in RevisionRows
    BY DEF TypeOK
  <2>2. revisions'[i] = IF i = latest THEN [revisions[i] EXCEPT !.commit = draft.commit]
                                      ELSE revisions[i]
    BY <1>1, <2>1 DEF TypeOK
  <2> QED BY <1>3, <2>1, <2>2 DEF RevisionRows
<1>5. revisions' \in [DOMAIN revisions -> RevisionRows]
  BY <1>1, <1>2, <1>4
<1> QED BY <1>2, <1>4, <1>5

LEMMA WritePageTyped ==
    ASSUME TypeOK, NEW key \in Keys, NEW row \in PageRows, WritePage(key, row)
    PROVE  /\ DOMAIN pages' = DOMAIN pages \cup {key}
           /\ DOMAIN pages' \subseteq Keys
           /\ pages' \in [DOMAIN pages' -> PageRows]
BY DEF TypeOK, WritePage

-----------------------------------------------------------------------------
(* Type correctness, one lemma per operation.                              *)

LEMMA CreateTyped ==
    ASSUME TypeOK, NEW p \in ProposalIds, NEW draft \in Drafts, CreateProposal(p, draft)
    PROVE  TypeOK'
<1> USE DEF CreateProposal
<1>1. DOMAIN proposals' = DOMAIN proposals \cup {p}
  OBVIOUS
<1>2. [draft |-> draft, status |-> "pending", reviewer |-> None] \in ProposalRows
  BY DEF ProposalRows
<1>3. proposals' \in [DOMAIN proposals' -> ProposalRows]
  BY <1>1, <1>2 DEF TypeOK
<1>4. \A q \in DOMAIN proposals' : proposals'[q].draft.base \in DOMAIN revisions \cup {None}
  BY <1>1 DEF TypeOK
<1>5. draft.proposer \in Subjects
  BY DEF Drafts
<1>6. Event("proposal.created", draft.proposer, p) \in EventRows
  BY <1>5 DEF Event, EventRows
<1>7. events' \subseteq EventRows
  BY <1>6 DEF TypeOK, Record
<1> QED BY <1>1, <1>3, <1>4, <1>7 DEF TypeOK

\* Deciding a proposal keeps its table in shape, and its drafts.
LEMMA DecideTyped ==
    ASSUME TypeOK, NEW p \in DOMAIN proposals, NEW reviewer \in Subjects,
           NEW status \in {"accepted", "rejected"}, Decide(p, reviewer, status)
    PROVE  /\ DOMAIN proposals' = DOMAIN proposals
           /\ proposals' \in [DOMAIN proposals -> ProposalRows]
           /\ \A q \in DOMAIN proposals :
                 /\ proposals'[q].draft = proposals[q].draft
                 /\ q # p => proposals'[q] = proposals[q]
           /\ proposals'[p].status = status
           /\ proposals'[p].reviewer = reviewer
<1>1. proposals' = [proposals EXCEPT ![p].status = status, ![p].reviewer = reviewer]
  BY DEF Decide
<1>2. proposals[p] \in ProposalRows
  BY DEF TypeOK
<1>3. proposals'[p] = [draft |-> proposals[p].draft, status |-> status, reviewer |-> reviewer]
  BY <1>1, <1>2 DEF TypeOK, ProposalRows
<1>4. proposals'[p] \in ProposalRows
  BY <1>2, <1>3 DEF ProposalRows
<1>5. \A q \in DOMAIN proposals : q # p => proposals'[q] = proposals[q]
  BY <1>1 DEF TypeOK
<1>6. DOMAIN proposals' = DOMAIN proposals
  BY <1>1
<1>7. \A q \in DOMAIN proposals : proposals'[q] \in ProposalRows
  BY <1>4, <1>5 DEF TypeOK
<1>8. proposals' = [q \in DOMAIN proposals |-> proposals'[q]]
  BY <1>1, <1>6
<1>9. proposals' \in [DOMAIN proposals -> ProposalRows]
  BY <1>7, <1>8
<1> QED BY <1>3, <1>5, <1>6, <1>9

LEMMA RejectTyped ==
    ASSUME TypeOK, NEW p \in ProposalIds, NEW reviewer \in Subjects,
           RejectProposal(p, reviewer)
    PROVE  TypeOK'
<1>1. p \in DOMAIN proposals /\ Decide(p, reviewer, "rejected")
  BY DEF RejectProposal, Reviewable
<1>2. /\ DOMAIN proposals' = DOMAIN proposals
      /\ proposals' \in [DOMAIN proposals -> ProposalRows]
      /\ \A q \in DOMAIN proposals : proposals'[q].draft = proposals[q].draft
  BY <1>1, DecideTyped
<1>3. Event("proposal.rejected", reviewer, p) \in EventRows
  BY DEF Event, EventRows
<1>4. events' \subseteq EventRows
  BY <1>3 DEF RejectProposal, Record, TypeOK
<1> QED BY <1>2, <1>4 DEF RejectProposal, TypeOK

LEMMA AcceptTyped ==
    ASSUME TypeOK, OnePublished,
           NEW p \in ProposalIds, NEW reviewer \in Subjects, NEW id \in RevisionIds,
           AcceptProposal(p, reviewer, id)
    PROVE  TypeOK'
<1> DEFINE draft == proposals[p].draft
           page  == PageFor(draft.key, ReviewedPage(draft))
           row   == ReviewedRevision(draft, Latest(draft.key, draft.language))
<1>1. /\ p \in DOMAIN proposals
      /\ draft \in Drafts
      /\ id \in RevisionIds \ DOMAIN revisions
      /\ row \in RevisionRows
      /\ row.status = "published"
      /\ row.key = draft.key
      /\ WriteRevision(id, row, Latest(row.key, row.language))
  BY AcceptEffect
<1>2. WritePage(draft.key, page) /\ IndexRevision(id)
  BY DEF AcceptProposal, PublishProposal, Publishable
<1>3. draft.key \in Keys /\ draft.canonical \in Languages
  BY <1>1 DEF Drafts
<1>4. ReviewedPage(draft) \in PageRows
  BY <1>3 DEF ReviewedPage, PageRows, Visibilities
<1>5. page \in PageRows
  BY <1>4 DEF PageFor, TypeOK
<1>6. /\ DOMAIN pages' = DOMAIN pages \cup {draft.key}
      /\ DOMAIN pages' \subseteq Keys
      /\ pages' \in [DOMAIN pages' -> PageRows]
  BY <1>2, <1>3, <1>5, WritePageTyped
<1>7. /\ DOMAIN revisions' = DOMAIN revisions \cup {id}
      /\ revisions' \in [DOMAIN revisions' -> RevisionRows]
      /\ revisions'[id] = row
      /\ \A i \in DOMAIN revisions : revisions'[i].key = revisions[i].key
  BY <1>1, WriteRevisionEffect
<1>8. \A i \in DOMAIN revisions' : revisions'[i].key \in DOMAIN pages'
  BY <1>1, <1>6, <1>7 DEF TypeOK
<1>9. /\ DOMAIN proposals' = DOMAIN proposals
      /\ proposals' \in [DOMAIN proposals -> ProposalRows]
      /\ \A q \in DOMAIN proposals : proposals'[q].draft = proposals[q].draft
  BY <1>1, DecideTyped DEF AcceptProposal
<1>10. /\ Event("proposal.accepted", reviewer, p) \in EventRows
       /\ Event("revision.published", reviewer, id) \in EventRows
  BY DEF Event, EventRows
<1>11. events' \subseteq EventRows
  BY <1>10 DEF AcceptProposal, PublishProposal, Publishable, Record, TypeOK
<1>12. indexed' \subseteq DOMAIN revisions'
  BY <1>2, <1>7 DEF IndexRevision, TypeOK
<1> HIDE DEF draft, page, row
<1> QED BY <1>1, <1>6, <1>7, <1>8, <1>9, <1>11, <1>12 DEF TypeOK

\* Both kinds of import leave the page in shape.
LEMMA UpsertPageTyped ==
    ASSUME TypeOK, NEW draft \in SourceDrafts, UpsertPage(draft)
    PROVE  /\ DOMAIN pages' = DOMAIN pages \cup {draft.key}
           /\ DOMAIN pages' \subseteq Keys
           /\ pages' \in [DOMAIN pages' -> PageRows]
<1> DEFINE page == PageFor(draft.key, SourcePage(draft))
           row  == [page EXCEPT !.visibility = draft.visibility, !.source = draft.source]
<1>1. /\ draft.key \in Keys
      /\ draft.canonical \in Languages
      /\ draft.visibility \in Visibilities
      /\ draft.source \in Sources
  BY DEF SourceDrafts
<1>2. SourcePage(draft) \in PageRows
  BY <1>1 DEF SourcePage, PageRows
<1>3. page \in PageRows
  BY <1>2 DEF PageFor, TypeOK
<1>4. row \in PageRows
  BY <1>1, <1>3 DEF PageRows
<1>5. WritePage(draft.key, row)
  BY DEF UpsertPage
<1> HIDE DEF row
<1> QED BY <1>1, <1>4, <1>5, WritePageTyped

LEMMA ImportTyped ==
    ASSUME TypeOK, OnePublished, NEW draft \in SourceDrafts, NEW id \in RevisionIds,
           UpsertChangedSource(draft, id)
    PROVE  TypeOK'
<1> DEFINE row == SourceRevision(draft, Latest(draft.key, draft.language))
<1>1. /\ id \in RevisionIds \ DOMAIN revisions
      /\ row \in RevisionRows
      /\ row.status = "published"
      /\ row.key = draft.key
      /\ WriteRevision(id, row, Latest(row.key, row.language))
  BY ImportEffect
<1>2. /\ DOMAIN pages' = DOMAIN pages \cup {draft.key}
      /\ DOMAIN pages' \subseteq Keys
      /\ pages' \in [DOMAIN pages' -> PageRows]
  BY UpsertPageTyped DEF UpsertChangedSource
<1>3. /\ DOMAIN revisions' = DOMAIN revisions \cup {id}
      /\ revisions' \in [DOMAIN revisions' -> RevisionRows]
      /\ revisions'[id] = row
      /\ \A i \in DOMAIN revisions : revisions'[i].key = revisions[i].key
  BY <1>1, WriteRevisionEffect
<1>4. \A i \in DOMAIN revisions' : revisions'[i].key \in DOMAIN pages'
  BY <1>1, <1>2, <1>3 DEF TypeOK
<1>5. draft.importer \in Subjects
  BY DEF SourceDrafts
<1>6. Event("source.synced", draft.importer, id) \in EventRows
  BY <1>5 DEF Event, EventRows
<1>7. events' \subseteq EventRows
  BY <1>6 DEF UpsertChangedSource, Record, TypeOK
<1>8. indexed' \subseteq DOMAIN revisions'
  BY <1>3 DEF UpsertChangedSource, IndexRevision, TypeOK
<1>9. UNCHANGED proposals
  BY DEF UpsertChangedSource
<1> HIDE DEF row
<1> QED BY <1>1, <1>2, <1>3, <1>4, <1>7, <1>8, <1>9 DEF TypeOK

LEMMA UnchangedImportTyped ==
    ASSUME TypeOK, OnePublished, NEW draft \in SourceDrafts, UpsertUnchangedSource(draft)
    PROVE  TypeOK'
<1>1. /\ DOMAIN pages' = DOMAIN pages \cup {draft.key}
      /\ DOMAIN pages' \subseteq Keys
      /\ pages' \in [DOMAIN pages' -> PageRows]
  BY UpsertPageTyped DEF UpsertUnchangedSource
<1>2. /\ DOMAIN revisions' = DOMAIN revisions
      /\ revisions' \in [DOMAIN revisions -> RevisionRows]
      /\ \A i \in DOMAIN revisions : revisions'[i].key = revisions[i].key
  BY UnchangedImportEffect
<1>3. UNCHANGED <<proposals, indexed, events>>
  BY DEF UpsertUnchangedSource
<1> QED BY <1>1, <1>2, <1>3 DEF TypeOK

-----------------------------------------------------------------------------
(* One published revision.                                                 *)

\* Publishing a row over the current one of its slot keeps it unique.
LEMMA PublishingKeepsOne ==
    ASSUME TypeOK, OnePublished,
           NEW id \in RevisionIds \ DOMAIN revisions,
           NEW row \in RevisionRows, row.status = "published",
           WriteRevision(id, row, Latest(row.key, row.language))
    PROVE  OnePublished'
<1>1. DOMAIN revisions' = DOMAIN revisions \cup {id} /\ revisions'[id] = row
  BY WriteRevisionEffect
<1>2. \A i \in DOMAIN revisions :
         /\ revisions'[i].key = revisions[i].key
         /\ revisions'[i].language = revisions[i].language
         /\ IF revisions[i].key = row.key /\ revisions[i].language = row.language
            THEN revisions'[i].status = "superseded"
            ELSE revisions'[i] = revisions[i]
  BY WriteRevisionEffect
<1> SUFFICES ASSUME NEW i \in DOMAIN revisions', NEW j \in DOMAIN revisions',
                    revisions'[i].key = revisions'[j].key,
                    revisions'[i].language = revisions'[j].language,
                    revisions'[i].status = "published",
                    revisions'[j].status = "published"
             PROVE  i = j
  BY DEF OnePublished, SameSlot
<1>3. CASE i \in DOMAIN revisions /\ j \in DOMAIN revisions
  <2>1. revisions[i].status = "published" /\ revisions[j].status = "published"
    BY <1>2, <1>3
  <2> QED BY <1>2, <1>3, <2>1 DEF OnePublished, SameSlot
<1>4. CASE i = id \/ j = id
  BY <1>1, <1>2, <1>4
<1> QED BY <1>1, <1>3, <1>4

-----------------------------------------------------------------------------
(* What accepting leaves behind.                                           *)

\* The trace of an accepted proposal survives every publication.
LEMMA PublishingKeepsTrace ==
    ASSUME TypeOK, OnePublished,
           NEW id \in RevisionIds \ DOMAIN revisions,
           NEW row \in RevisionRows, row.status = "published",
           WriteRevision(id, row, Latest(row.key, row.language)),
           NEW p \in DOMAIN proposals, Trace(revisions, proposals[p].draft)
    PROVE  Trace(revisions', proposals[p].draft)
<1> DEFINE draft == proposals[p].draft
<1>1. DOMAIN revisions' = DOMAIN revisions \cup {id} /\ revisions'[id] = row
  BY WriteRevisionEffect
<1>2. \A i \in DOMAIN revisions :
         /\ revisions[i].status = "superseded" => revisions'[i] = revisions[i]
         /\ IF revisions[i].key = row.key /\ revisions[i].language = row.language
            THEN revisions'[i].status = "superseded"
            ELSE revisions'[i] = revisions[i]
  BY WriteRevisionEffect
<1>3. draft.base \in DOMAIN revisions \cup {None}
  BY DEF TypeOK
<1> HIDE DEF draft
<1>4. Trace(revisions, draft)
  BY DEF draft
<1>5. draft.base # None => revisions'[draft.base].status = "superseded"
  BY <1>2, <1>3, <1>4 DEF Trace
<1>6. CASE draft.key = row.key /\ draft.language = row.language
  BY <1>1, <1>5, <1>6 DEF Trace, draft
<1>7. CASE ~(draft.key = row.key /\ draft.language = row.language)
  <2>1. PICK i \in DOMAIN revisions : /\ revisions[i].key = draft.key
                                      /\ revisions[i].language = draft.language
                                      /\ revisions[i].status = "published"
    BY <1>4 DEF Trace
  <2>2. i \in DOMAIN revisions' /\ revisions'[i] = revisions[i]
    BY <1>1, <1>2, <1>7, <2>1
  <2> QED BY <1>5, <2>1, <2>2 DEF Trace, draft
<1> QED BY <1>6, <1>7

-----------------------------------------------------------------------------
(* Each operation preserves the invariant.                                 *)

LEMMA CreateKeepsIInv ==
    ASSUME IInv, NEW p \in ProposalIds, NEW draft \in Drafts, CreateProposal(p, draft)
    PROVE  IInv'
<1>1. TypeOK'
  BY CreateTyped DEF IInv
<1>2. UNCHANGED revisions
  BY DEF CreateProposal
<1>3. OnePublished'
  BY <1>2 DEF IInv, OnePublished, SameSlot
<1>4. \A q \in DOMAIN proposals' :
         proposals'[q].status = "accepted" =>
            q \in DOMAIN proposals /\ proposals'[q] = proposals[q]
  BY DEF CreateProposal
<1>5. AcceptedLeavesTrace'
  BY <1>2, <1>4 DEF IInv, AcceptedLeavesTrace
<1>6. FirstReviewWins'
  BY <1>4 DEF IInv, FirstReviewWins
<1> QED BY <1>1, <1>3, <1>5, <1>6 DEF IInv

LEMMA RejectKeepsIInv ==
    ASSUME IInv, NEW p \in ProposalIds, NEW reviewer \in Subjects,
           RejectProposal(p, reviewer)
    PROVE  IInv'
<1>1. TypeOK'
  BY RejectTyped DEF IInv
<1>2. UNCHANGED revisions
  BY DEF RejectProposal
<1>3. OnePublished'
  BY <1>2 DEF IInv, OnePublished, SameSlot
<1>4. p \in DOMAIN proposals /\ Decide(p, reviewer, "rejected")
  BY DEF RejectProposal, Reviewable
<1>5. /\ DOMAIN proposals' = DOMAIN proposals
      /\ \A q \in DOMAIN proposals : q # p => proposals'[q] = proposals[q]
      /\ proposals'[p].status = "rejected"
  BY <1>4, DecideTyped DEF IInv
<1>6. \A q \in DOMAIN proposals' :
         proposals'[q].status = "accepted" =>
            q \in DOMAIN proposals /\ proposals'[q] = proposals[q]
  BY <1>5
<1>7. AcceptedLeavesTrace'
  BY <1>2, <1>6 DEF IInv, AcceptedLeavesTrace
<1>8. FirstReviewWins'
  BY <1>6 DEF IInv, FirstReviewWins
<1> QED BY <1>1, <1>3, <1>7, <1>8 DEF IInv

LEMMA AcceptKeepsIInv ==
    ASSUME IInv,
           NEW p \in ProposalIds, NEW reviewer \in Subjects, NEW id \in RevisionIds,
           AcceptProposal(p, reviewer, id)
    PROVE  IInv'
<1> DEFINE draft  == proposals[p].draft
           latest == Latest(draft.key, draft.language)
           row    == ReviewedRevision(draft, latest)
<1>1. TypeOK /\ OnePublished
  BY DEF IInv
<1>2. /\ p \in DOMAIN proposals
      /\ draft \in Drafts
      /\ id \in RevisionIds \ DOMAIN revisions
      /\ row \in RevisionRows
      /\ row.status = "published"
      /\ row.key = draft.key
      /\ row.language = draft.language
      /\ draft.base = latest
      /\ WriteRevision(id, row, Latest(row.key, row.language))
  BY <1>1, AcceptEffect
<1>3. TypeOK'
  BY <1>1, AcceptTyped
<1>4. OnePublished'
  BY <1>1, <1>2, PublishingKeepsOne
<1>5. /\ DOMAIN proposals' = DOMAIN proposals
      /\ \A q \in DOMAIN proposals :
            /\ proposals'[q].draft = proposals[q].draft
            /\ q # p => proposals'[q] = proposals[q]
  BY <1>1, <1>2, DecideTyped DEF AcceptProposal
<1>6. /\ DOMAIN revisions' = DOMAIN revisions \cup {id}
      /\ revisions'[id] = row
      /\ \A i \in DOMAIN revisions :
            IF revisions[i].key = row.key /\ revisions[i].language = row.language
            THEN revisions'[i].status = "superseded"
            ELSE revisions'[i] = revisions[i]
  BY <1>1, <1>2, WriteRevisionEffect
<1>7. latest # None => Published(draft.key, draft.language) = {latest}
  BY <1>1, LatestIsPublished
<1>8. latest = None => Published(draft.key, draft.language) = {}
  BY <1>1, LatestIsPublished
<1>9. draft.base # None => revisions'[draft.base].status = "superseded"
  <2>1. SUFFICES ASSUME draft.base # None
                 PROVE  revisions'[latest].status = "superseded"
    BY <1>2
  <2>2. latest \in Published(draft.key, draft.language)
    BY <1>2, <1>7, <2>1
  <2>3. /\ latest \in DOMAIN revisions
        /\ revisions[latest].key = draft.key
        /\ revisions[latest].language = draft.language
    BY <2>2 DEF Published
  <2> QED BY <1>2, <1>6, <2>3
<1>10. Trace(revisions', draft)
  BY <1>2, <1>6, <1>9 DEF Trace
<1>11. AcceptedLeavesTrace'
  <2> SUFFICES ASSUME NEW q \in DOMAIN proposals, proposals'[q].status = "accepted"
               PROVE  Trace(revisions', proposals'[q].draft)
    BY <1>5 DEF AcceptedLeavesTrace
  <2>1. CASE q = p
    BY <1>5, <1>10, <2>1
  <2>2. CASE q # p
    <3>1. proposals'[q] = proposals[q]
      BY <1>5, <2>2
    <3>2. Trace(revisions, proposals[q].draft)
      BY <3>1 DEF IInv, AcceptedLeavesTrace
    <3>3. Trace(revisions', proposals[q].draft)
      BY <1>1, <1>2, <3>2, PublishingKeepsTrace
    <3> QED BY <3>1, <3>3
  <2> QED BY <2>1, <2>2
<1> HIDE DEF latest, row
<1>12. FirstReviewWins'
  \* An earlier winner on the same base would have left it superseded, or,
  \* without a base, would have left something published.
  <2>1. ASSUME NEW q \in DOMAIN proposals, q # p, proposals[q].status = "accepted",
               proposals[q].draft.key = draft.key,
               proposals[q].draft.language = draft.language,
               proposals[q].draft.base = draft.base
        PROVE  FALSE
    <3>1. Trace(revisions, draft)
      BY <2>1 DEF IInv, AcceptedLeavesTrace, Trace
    <3>2. latest # None
      BY <1>8, <3>1 DEF Trace, Published
    <3>3. revisions[latest].status = "published"
      BY <1>7, <3>2 DEF Published
    <3> QED BY <1>2, <3>1, <3>2, <3>3 DEF Trace
  <2> HIDE DEF draft
  <2>2. \A q \in DOMAIN proposals :
           proposals'[q].draft = proposals[q].draft
           /\ (q # p => proposals'[q].status = proposals[q].status)
    BY <1>5
  <2>3. proposals[p].draft = draft
    BY DEF draft
  <2> SUFFICES ASSUME NEW q \in DOMAIN proposals, NEW r \in DOMAIN proposals,
                      proposals'[q].status = "accepted",
                      proposals'[r].status = "accepted",
                      proposals[q].draft.key = proposals[r].draft.key,
                      proposals[q].draft.language = proposals[r].draft.language,
                      proposals[q].draft.base = proposals[r].draft.base
               PROVE  q = r
    BY <1>5, <2>2 DEF FirstReviewWins
  <2>4. CASE q # p /\ r # p
    BY <2>2, <2>4 DEF IInv, FirstReviewWins
  <2>5. CASE q = p \/ r = p
    BY <2>1, <2>2, <2>3, <2>5
  <2> QED BY <2>4, <2>5
<1> QED BY <1>3, <1>4, <1>11, <1>12 DEF IInv

LEMMA ImportKeepsIInv ==
    ASSUME IInv, NEW draft \in SourceDrafts, NEW id \in RevisionIds,
           UpsertChangedSource(draft, id)
    PROVE  IInv'
<1> DEFINE row == SourceRevision(draft, Latest(draft.key, draft.language))
<1>1. TypeOK /\ OnePublished
  BY DEF IInv
<1>2. /\ id \in RevisionIds \ DOMAIN revisions
      /\ row \in RevisionRows
      /\ row.status = "published"
      /\ WriteRevision(id, row, Latest(row.key, row.language))
  BY <1>1, ImportEffect
<1>3. TypeOK'
  BY <1>1, ImportTyped
<1>4. OnePublished'
  BY <1>1, <1>2, PublishingKeepsOne
<1>5. UNCHANGED proposals
  BY DEF UpsertChangedSource
<1> HIDE DEF row
<1>6. AcceptedLeavesTrace'
  <2> SUFFICES ASSUME NEW q \in DOMAIN proposals, proposals[q].status = "accepted"
               PROVE  Trace(revisions', proposals[q].draft)
    BY <1>5 DEF AcceptedLeavesTrace
  <2>1. Trace(revisions, proposals[q].draft)
    BY DEF IInv, AcceptedLeavesTrace
  <2> QED BY <1>1, <1>2, <2>1, PublishingKeepsTrace
<1>7. FirstReviewWins'
  BY <1>5 DEF IInv, FirstReviewWins
<1> QED BY <1>3, <1>4, <1>6, <1>7 DEF IInv

LEMMA UnchangedImportKeepsIInv ==
    ASSUME IInv, NEW draft \in SourceDrafts, UpsertUnchangedSource(draft)
    PROVE  IInv'
<1>1. TypeOK'
  BY UnchangedImportTyped DEF IInv
<1>2. /\ DOMAIN revisions' = DOMAIN revisions
      /\ \A i \in DOMAIN revisions :
            /\ revisions'[i].key = revisions[i].key
            /\ revisions'[i].language = revisions[i].language
            /\ revisions'[i].status = revisions[i].status
  BY UnchangedImportEffect DEF IInv
<1>3. UNCHANGED proposals
  BY DEF UpsertUnchangedSource
<1>4. OnePublished'
  BY <1>2 DEF IInv, OnePublished, SameSlot
<1>5. ASSUME NEW q \in DOMAIN proposals, proposals[q].status = "accepted"
      PROVE  Trace(revisions', proposals[q].draft)
  <2>1. Trace(revisions, proposals[q].draft)
    BY <1>5 DEF IInv, AcceptedLeavesTrace
  <2>2. proposals[q].draft.base \in DOMAIN revisions \cup {None}
    BY DEF IInv, TypeOK
  <2> QED BY <1>2, <2>1, <2>2 DEF Trace
<1>6. AcceptedLeavesTrace'
  BY <1>3, <1>5 DEF AcceptedLeavesTrace
<1>7. FirstReviewWins'
  BY <1>3 DEF IInv, FirstReviewWins
<1> QED BY <1>1, <1>4, <1>6, <1>7 DEF IInv

-----------------------------------------------------------------------------
(* The invariant theorem and its corollaries.                              *)

LEMMA InitIInv == Init => IInv
<1> SUFFICES ASSUME Init
             PROVE  IInv
  OBVIOUS
<1>1. DOMAIN pages = {} /\ DOMAIN revisions = {} /\ DOMAIN proposals = {}
  BY DEF Init
<1>2. /\ pages \in [DOMAIN pages -> PageRows]
      /\ revisions \in [DOMAIN revisions -> RevisionRows]
      /\ proposals \in [DOMAIN proposals -> ProposalRows]
  BY <1>1 DEF Init
<1>3. TypeOK
  BY <1>1, <1>2 DEF Init, TypeOK
<1>4. OnePublished /\ AcceptedLeavesTrace /\ FirstReviewWins
  BY <1>1 DEF OnePublished, AcceptedLeavesTrace, FirstReviewWins
<1> QED BY <1>3, <1>4 DEF IInv

LEMMA NextIInv == IInv /\ [Next]_vars => IInv'
<1> SUFFICES ASSUME IInv, [Next]_vars
             PROVE  IInv'
  OBVIOUS
<1>1. ASSUME NEW p \in ProposalIds, NEW draft \in Drafts, CreateProposal(p, draft)
      PROVE  IInv'
  BY <1>1, CreateKeepsIInv
<1>2. ASSUME NEW p \in ProposalIds, NEW reviewer \in Subjects, RejectProposal(p, reviewer)
      PROVE  IInv'
  BY <1>2, RejectKeepsIInv
<1>3. ASSUME NEW p \in ProposalIds, NEW reviewer \in Subjects, NEW id \in RevisionIds,
             AcceptProposal(p, reviewer, id)
      PROVE  IInv'
  BY <1>3, AcceptKeepsIInv
<1>4. ASSUME NEW draft \in SourceDrafts, UpsertUnchangedSource(draft)
      PROVE  IInv'
  BY <1>4, UnchangedImportKeepsIInv
<1>5. ASSUME NEW draft \in SourceDrafts, NEW id \in RevisionIds,
             UpsertChangedSource(draft, id)
      PROVE  IInv'
  BY <1>5, ImportKeepsIInv
<1>6. CASE UNCHANGED vars
  BY <1>6 DEF vars, IInv, TypeOK, OnePublished, SameSlot, AcceptedLeavesTrace, Trace,
              FirstReviewWins
<1> QED BY <1>1, <1>2, <1>3, <1>4, <1>5, <1>6 DEF Next

THEOREM InductiveInvariant == Spec => []IInv
BY InitIInv, NextIInv, PTL DEF Spec

\* The tables hold rows of their schema and every foreign key resolves.
THEOREM TypeCorrect == Spec => []TypeOK
<1>1. IInv => TypeOK
  BY DEF IInv
<1> QED BY <1>1, InductiveInvariant, PTL

\* Readers of a document in a language are always served one revision at most.
THEOREM PublishedOnce == Spec => []OnePublished
<1>1. IInv => OnePublished
  BY DEF IInv
<1> QED BY <1>1, InductiveInvariant, PTL

\* No two accepted proposals of a document and language name the same base.
THEOREM BaseUsedOnce == Spec => []FirstReviewWins
<1>1. IInv => FirstReviewWins
  BY DEF IInv
<1> QED BY <1>1, InductiveInvariant, PTL

-----------------------------------------------------------------------------
(* History is append-only.                                                 *)

\* What a step may do to the table of revisions.
RevisionsGrow ==
    \A i \in DOMAIN revisions :
        /\ i \in DOMAIN revisions'
        /\ [revisions'[i] EXCEPT !.status = revisions[i].status,
                                 !.commit = revisions[i].commit] = revisions[i]
        /\ revisions[i].status = "superseded" => revisions'[i].status = "superseded"

PagesKept ==
    \A k \in DOMAIN pages :
        /\ k \in DOMAIN pages'
        /\ pages'[k].kind = pages[k].kind
        /\ pages'[k].canonical = pages[k].canonical

ProposalsKept ==
    \A p \in DOMAIN proposals :
        /\ p \in DOMAIN proposals'
        /\ proposals'[p].draft = proposals[p].draft
        /\ proposals[p].status # "pending" => proposals'[p] = proposals[p]

\* A row whose key, language, number, body and author are kept is kept, up to
\* its status and its provenance.
LEMMA SameContent ==
    ASSUME NEW a \in RevisionRows, NEW b \in RevisionRows,
           b.key = a.key, b.language = a.language, b.number = a.number,
           b.body = a.body, b.author = a.author
    PROVE  [b EXCEPT !.status = a.status, !.commit = a.commit] = a
BY DEF RevisionRows

LEMMA PublishingGrows ==
    ASSUME TypeOK, OnePublished,
           NEW id \in RevisionIds \ DOMAIN revisions,
           NEW row \in RevisionRows, row.status = "published",
           WriteRevision(id, row, Latest(row.key, row.language))
    PROVE  RevisionsGrow
<1> SUFFICES ASSUME NEW i \in DOMAIN revisions
             PROVE  /\ i \in DOMAIN revisions'
                    /\ [revisions'[i] EXCEPT !.status = revisions[i].status,
                                             !.commit = revisions[i].commit] = revisions[i]
                    /\ revisions[i].status = "superseded" =>
                          revisions'[i].status = "superseded"
  BY DEF RevisionsGrow
<1>1. /\ i \in DOMAIN revisions'
      /\ revisions'[i] \in RevisionRows
      /\ revisions'[i] = [revisions[i] EXCEPT !.status = revisions'[i].status]
      /\ revisions[i].status = "superseded" => revisions'[i] = revisions[i]
  BY WriteRevisionEffect
<1>2. revisions[i] \in RevisionRows
  BY DEF TypeOK
<1>3. /\ revisions'[i].key = revisions[i].key
      /\ revisions'[i].language = revisions[i].language
      /\ revisions'[i].number = revisions[i].number
      /\ revisions'[i].body = revisions[i].body
      /\ revisions'[i].author = revisions[i].author
  BY <1>1, <1>2 DEF RevisionRows
<1> QED BY <1>1, <1>2, <1>3, SameContent

LEMMA NextAppends == IInv /\ [Next]_vars => [AppendOnlyStep]_vars
<1> SUFFICES ASSUME IInv, Next
             PROVE  /\ RevisionsGrow
                    /\ ProposalsKept
                    /\ PagesKept
                    /\ events \subseteq events'
  BY DEF AppendOnlyStep, RevisionsGrow, ProposalsKept, PagesKept
<1>a. TypeOK /\ OnePublished
  BY DEF IInv
<1>b. UNCHANGED revisions => RevisionsGrow
  <2>1. \A i \in DOMAIN revisions : revisions[i] \in RevisionRows
    BY <1>a DEF TypeOK
  <2>2. \A i \in DOMAIN revisions :
           [revisions[i] EXCEPT !.status = revisions[i].status,
                                !.commit = revisions[i].commit] = revisions[i]
    BY <2>1, SameContent
  <2> QED BY <2>2 DEF RevisionsGrow
<1>1. ASSUME NEW p \in ProposalIds, NEW draft \in Drafts, CreateProposal(p, draft)
      PROVE  RevisionsGrow /\ ProposalsKept /\ PagesKept /\ events \subseteq events'
  BY <1>1, <1>b DEF CreateProposal, Record, ProposalsKept, PagesKept
<1>2. ASSUME NEW p \in ProposalIds, NEW reviewer \in Subjects, RejectProposal(p, reviewer)
      PROVE  RevisionsGrow /\ ProposalsKept /\ PagesKept /\ events \subseteq events'
  <2>1. /\ p \in DOMAIN proposals
        /\ proposals[p].status = "pending"
        /\ Decide(p, reviewer, "rejected")
        /\ UNCHANGED <<pages, revisions>>
        /\ events \subseteq events'
    BY <1>2 DEF RejectProposal, Reviewable, Record
  <2>2. ProposalsKept
    BY <1>a, <2>1, DecideTyped DEF ProposalsKept
  <2> QED BY <1>b, <2>1, <2>2 DEF PagesKept
<1>3. ASSUME NEW p \in ProposalIds, NEW reviewer \in Subjects, NEW id \in RevisionIds,
             AcceptProposal(p, reviewer, id)
      PROVE  RevisionsGrow /\ ProposalsKept /\ PagesKept /\ events \subseteq events'
  <2> DEFINE draft == proposals[p].draft
             row   == ReviewedRevision(draft, Latest(draft.key, draft.language))
  <2>1. /\ p \in DOMAIN proposals
        /\ proposals[p].status = "pending"
        /\ Decide(p, reviewer, "accepted")
        /\ events \subseteq events'
    BY <1>3 DEF AcceptProposal, PublishProposal, Publishable, Reviewable, Record
  <2>2. ProposalsKept
    BY <1>a, <2>1, DecideTyped DEF ProposalsKept
  <2>3. WritePage(draft.key, PageFor(draft.key, ReviewedPage(draft)))
    BY <1>3 DEF AcceptProposal, PublishProposal, Publishable
  <2>4. PagesKept
    BY <2>3 DEF PagesKept, WritePage, PageFor
  <2>5. /\ id \in RevisionIds \ DOMAIN revisions
        /\ row \in RevisionRows
        /\ row.status = "published"
        /\ WriteRevision(id, row, Latest(row.key, row.language))
    BY <1>3, <1>a, AcceptEffect
  <2> HIDE DEF row
  <2>6. RevisionsGrow
    BY <1>a, <2>5, PublishingGrows
  <2> QED BY <2>1, <2>2, <2>4, <2>6
<1>c. ASSUME NEW draft \in SourceDrafts, UpsertPage(draft)
      PROVE  PagesKept
  <2>1. \A k \in DOMAIN pages : pages[k] \in PageRows
    BY <1>a DEF TypeOK
  <2> QED BY <1>c, <2>1 DEF PagesKept, UpsertPage, WritePage, PageFor, PageRows
<1>4. ASSUME NEW draft \in SourceDrafts, UpsertUnchangedSource(draft)
      PROVE  RevisionsGrow /\ ProposalsKept /\ PagesKept /\ events \subseteq events'
  <2>1. UpsertPage(draft) /\ UNCHANGED <<proposals, events>>
    BY <1>4 DEF UpsertUnchangedSource
  <2>2. /\ DOMAIN revisions' = DOMAIN revisions
        /\ \A i \in DOMAIN revisions :
              /\ revisions'[i] \in RevisionRows
              /\ revisions'[i].key = revisions[i].key
              /\ revisions'[i].language = revisions[i].language
              /\ revisions'[i].number = revisions[i].number
              /\ revisions'[i].body = revisions[i].body
              /\ revisions'[i].author = revisions[i].author
              /\ revisions'[i].status = revisions[i].status
    BY <1>4, <1>a, UnchangedImportEffect
  <2>3. \A i \in DOMAIN revisions : revisions[i] \in RevisionRows
    BY <1>a DEF TypeOK
  <2>4. ASSUME NEW i \in DOMAIN revisions
        PROVE  [revisions'[i] EXCEPT !.status = revisions[i].status,
                                     !.commit = revisions[i].commit] = revisions[i]
    <3>1. /\ revisions'[i] \in RevisionRows
          /\ revisions[i] \in RevisionRows
          /\ revisions'[i].key = revisions[i].key
          /\ revisions'[i].language = revisions[i].language
          /\ revisions'[i].number = revisions[i].number
          /\ revisions'[i].body = revisions[i].body
          /\ revisions'[i].author = revisions[i].author
      BY <2>2, <2>3
    <3> QED BY <3>1, SameContent
  <2>5. RevisionsGrow
    BY <2>2, <2>4 DEF RevisionsGrow
  <2> QED BY <1>c, <2>1, <2>5 DEF ProposalsKept
<1>5. ASSUME NEW draft \in SourceDrafts, NEW id \in RevisionIds,
             UpsertChangedSource(draft, id)
      PROVE  RevisionsGrow /\ ProposalsKept /\ PagesKept /\ events \subseteq events'
  <2> DEFINE row == SourceRevision(draft, Latest(draft.key, draft.language))
  <2>1. UpsertPage(draft) /\ UNCHANGED proposals /\ events \subseteq events'
    BY <1>5 DEF UpsertChangedSource, Record
  <2>2. /\ id \in RevisionIds \ DOMAIN revisions
        /\ row \in RevisionRows
        /\ row.status = "published"
        /\ WriteRevision(id, row, Latest(row.key, row.language))
    BY <1>5, <1>a, ImportEffect
  <2> HIDE DEF row
  <2>3. RevisionsGrow
    BY <1>a, <2>2, PublishingGrows
  <2> QED BY <1>c, <2>1, <2>3 DEF ProposalsKept
<1> QED BY <1>1, <1>2, <1>3, <1>4, <1>5 DEF Next

\* No step removes a row, rewrites what a revision says, republishes it,
\* reopens a decided proposal or loses an event.
THEOREM AppendOnlyForever == Spec => HistoryAppendOnly
BY InductiveInvariant, NextAppends, PTL DEF Spec, HistoryAppendOnly
=============================================================================
