------------------------- MODULE SqliteHistoryProofs -------------------------
(***************************************************************************)
(* Theorems about what SqliteStore keeps of a document's past: numbers     *)
(* without gaps, revisions that were reviewed, keys that stay with one     *)
(* workflow, an event log that tells who did what, and readers who are     *)
(* served all of it and nothing else.                                      *)
(*                                                                         *)
(* The invariant of SqliteStoreProofs is strengthened by what these        *)
(* statements rest on.  Of revisions there are two kinds of steps only:    *)
(* those that leave everything but provenance alone, and those that        *)
(* publish one row over the current one.                                   *)
(***************************************************************************)
EXTENDS SqliteStoreProofs, FiniteSetTheorems, FunctionTheorems

\* The published revision of a document is the last, and there is one.
PublishedIsLast ==
    \A i \in DOMAIN revisions :
        \E j \in DOMAIN revisions : /\ SameSlot(i, j)
                                    /\ revisions[j].status = "published"
                                    /\ revisions[i].number <= revisions[j].number

\* The numbers of a document's revisions are 1 .. n, each of them once.
NumbersUnique ==
    \A i, j \in DOMAIN revisions :
        SameSlot(i, j) /\ revisions[i].number = revisions[j].number => i = j

\* No number below a number in use is missing.
NumbersDense ==
    \A i \in DOMAIN revisions : \A n \in 1 .. revisions[i].number :
        \E j \in DOMAIN revisions : SameSlot(i, j) /\ revisions[j].number = n

\* Every document has one line of revisions, whose last is published.
HistoryOK == OnePublished /\ PublishedIsLast /\ NumbersUnique /\ NumbersDense

\* No revision is stored without its chunks.
AllIndexed == indexed = DOMAIN revisions

\* The event log names, of a proposal, the subjects its row names.
ProposalAudited(p) ==
    IF p \in DOMAIN proposals
    THEN /\ Actors("proposal.created", p) = {proposals[p].draft.proposer}
         /\ Actors("proposal.accepted", p) =
               IF proposals[p].status = "accepted" THEN {proposals[p].reviewer} ELSE {}
         /\ Actors("proposal.rejected", p) =
               IF proposals[p].status = "rejected" THEN {proposals[p].reviewer} ELSE {}
    ELSE /\ Actors("proposal.created", p) = {}
         /\ Actors("proposal.accepted", p) = {}
         /\ Actors("proposal.rejected", p) = {}

\* Of a revision it names the importer, or one reviewer who is not the author.
RevisionAudited(i) ==
    IF i \notin DOMAIN revisions
    THEN Actors("revision.published", i) = {} /\ Actors("source.synced", i) = {}
    ELSE IF pages[revisions[i].key].kind = "source"
    THEN /\ Actors("revision.published", i) = {}
         /\ Actors("source.synced", i) = {revisions[i].author}
    ELSE /\ Actors("source.synced", i) = {}
         /\ \E reviewer \in Subjects :
                            /\ Actors("revision.published", i) = {reviewer}
                            /\ reviewer # revisions[i].author

\* So it does of every proposal and every revision.
Audited ==
    /\ \A p \in ProposalIds : ProposalAudited(p)
    /\ \A i \in RevisionIds : RevisionAudited(i)

\* The inductive invariant.
HistoryInv ==
    /\ IInv
    /\ HistoryOK
    /\ AllIndexed
    /\ KindSeparation
    /\ ReviewedLineage
    /\ Audited

-----------------------------------------------------------------------------
(* What a step does to the table of revisions.                             *)

\* A step that touches no revision, or moves the commit of one.
RevisionsRest ==
    /\ DOMAIN revisions' = DOMAIN revisions
    /\ \A i \in DOMAIN revisions :
          /\ revisions'[i].key = revisions[i].key
          /\ revisions'[i].language = revisions[i].language
          /\ revisions'[i].number = revisions[i].number
          /\ revisions'[i].body = revisions[i].body
          /\ revisions'[i].author = revisions[i].author
          /\ revisions'[i].status = revisions[i].status

\* A step that inserts `row` as revision `id`, one number above the current
\* revision of its document, which it supersedes; nothing else changes.
Publishes(id, row) ==
    /\ id \in RevisionIds \ DOMAIN revisions
    /\ row \in RevisionRows
    /\ row.status = "published"
    /\ row.number = NextNumber(Latest(row.key, row.language))
    /\ DOMAIN revisions' = DOMAIN revisions \cup {id}
    /\ revisions'[id] = row
    /\ \A i \in DOMAIN revisions :
          /\ revisions'[i].key = revisions[i].key
          /\ revisions'[i].language = revisions[i].language
          /\ revisions'[i].number = revisions[i].number
          /\ revisions'[i].body = revisions[i].body
          /\ revisions'[i].author = revisions[i].author
          /\ revisions'[i].commit = revisions[i].commit
          /\ revisions'[i].status =
                IF revisions[i].key = row.key /\ revisions[i].language = row.language
                THEN "superseded" ELSE revisions[i].status

\* Writing a revision over the current one of its document publishes it.
LEMMA WritePublishes ==
    ASSUME TypeOK, OnePublished,
           NEW id \in RevisionIds \ DOMAIN revisions,
           NEW row \in RevisionRows, row.status = "published",
           row.number = NextNumber(Latest(row.key, row.language)),
           WriteRevision(id, row, Latest(row.key, row.language))
    PROVE  Publishes(id, row)
<1>1. /\ DOMAIN revisions' = DOMAIN revisions \cup {id}
      /\ revisions'[id] = row
      /\ \A i \in DOMAIN revisions :
            /\ revisions'[i] = [revisions[i] EXCEPT !.status = revisions'[i].status]
            /\ IF revisions[i].key = row.key /\ revisions[i].language = row.language
               THEN revisions'[i].status = "superseded"
               ELSE revisions'[i] = revisions[i]
  BY WriteRevisionEffect
<1>2. \A i \in DOMAIN revisions : revisions[i] \in RevisionRows
  BY DEF TypeOK
<1>3. ASSUME NEW i \in DOMAIN revisions
      PROVE  /\ revisions'[i].key = revisions[i].key
             /\ revisions'[i].language = revisions[i].language
             /\ revisions'[i].number = revisions[i].number
             /\ revisions'[i].body = revisions[i].body
             /\ revisions'[i].author = revisions[i].author
             /\ revisions'[i].commit = revisions[i].commit
  <2>1. PICK status : revisions'[i] = [revisions[i] EXCEPT !.status = status]
    BY <1>1
  <2> QED BY <1>2, <2>1 DEF RevisionRows
<1>4. \A i \in DOMAIN revisions :
         revisions'[i].status =
            IF revisions[i].key = row.key /\ revisions[i].language = row.language
            THEN "superseded" ELSE revisions[i].status
  BY <1>1
<1> QED BY <1>1, <1>3, <1>4 DEF Publishes

\* Accepting a proposal publishes its content.
LEMMA AcceptPublishes ==
    ASSUME TypeOK, OnePublished,
           NEW p \in ProposalIds, NEW reviewer \in Subjects, NEW id \in RevisionIds,
           AcceptProposal(p, reviewer, id)
    PROVE  LET draft == proposals[p].draft
           IN  Publishes(id, ReviewedRevision(draft, Latest(draft.key, draft.language)))
<1> DEFINE draft == proposals[p].draft
           row   == ReviewedRevision(draft, Latest(draft.key, draft.language))
<1>1. /\ id \in RevisionIds \ DOMAIN revisions /\ row \in RevisionRows
      /\ row.status = "published" /\ row.key = draft.key /\ row.language = draft.language
      /\ WriteRevision(id, row, Latest(row.key, row.language))
  BY AcceptEffect
<1>2. row.number = NextNumber(Latest(row.key, row.language))
  <2>1. row.number = NextNumber(Latest(draft.key, draft.language))
    BY DEF ReviewedRevision
  <2> HIDE DEF row, draft
  <2> QED BY <1>1, <2>1
<1> HIDE DEF row
<1> QED BY <1>1, <1>2, WritePublishes DEF row

\* Importing a content that is new publishes it.
LEMMA ImportPublishes ==
    ASSUME TypeOK, OnePublished,
           NEW draft \in SourceDrafts, NEW id \in RevisionIds, UpsertChangedSource(draft, id)
    PROVE  Publishes(id, SourceRevision(draft, Latest(draft.key, draft.language)))
<1> DEFINE row == SourceRevision(draft, Latest(draft.key, draft.language))
<1>1. /\ id \in RevisionIds \ DOMAIN revisions /\ row \in RevisionRows
      /\ row.status = "published" /\ row.key = draft.key /\ row.language = draft.language
      /\ WriteRevision(id, row, Latest(row.key, row.language))
  BY ImportEffect
<1>2. row.number = NextNumber(Latest(row.key, row.language))
  <2>1. row.number = NextNumber(Latest(draft.key, draft.language))
    BY DEF SourceRevision
  <2> HIDE DEF row
  <2> QED BY <1>1, <2>1
<1> HIDE DEF row
<1> QED BY <1>1, <1>2, WritePublishes DEF row

\* There are no other steps.
LEMMA RevisionSteps ==
    ASSUME IInv, [Next]_vars
    PROVE  RevisionsRest \/ \E id, row : Publishes(id, row)
<1>1. TypeOK /\ OnePublished
  BY DEF IInv
<1>2. UNCHANGED revisions => RevisionsRest
  BY DEF RevisionsRest
<1>3. ASSUME NEW p \in ProposalIds, NEW reviewer \in Subjects, NEW id \in RevisionIds,
             AcceptProposal(p, reviewer, id)
      PROVE  \E i, row : Publishes(i, row)
  <2>1. PICK row : row = ReviewedRevision(proposals[p].draft,
                            Latest(proposals[p].draft.key, proposals[p].draft.language))
    OBVIOUS
  <2>2. Publishes(id, row)
    BY <1>1, <1>3, <2>1, AcceptPublishes DEF Publishes
  <2> QED BY <2>2
<1>4. ASSUME NEW draft \in SourceDrafts, UpsertUnchangedSource(draft)
      PROVE  RevisionsRest
  BY <1>1, <1>4, UnchangedImportEffect DEF RevisionsRest
<1>5. ASSUME NEW draft \in SourceDrafts, NEW id \in RevisionIds, UpsertChangedSource(draft, id)
      PROVE  \E i, row : Publishes(i, row)
  <2>1. PICK row : row = SourceRevision(draft, Latest(draft.key, draft.language))
    OBVIOUS
  <2>2. Publishes(id, row)
    BY <1>1, <1>5, <2>1, ImportPublishes DEF Publishes
  <2> QED BY <2>2
<1> QED
  BY <1>2, <1>3, <1>4, <1>5 DEF Next, vars, CreateProposal, RejectProposal

-----------------------------------------------------------------------------
(* Numbers without gaps.                                                   *)

\* The next number of a document is the first that no revision of it has.
LEMMA NextNumberIsNew ==
    ASSUME TypeOK, HistoryOK, NEW k, NEW l
    PROVE  /\ NextNumber(Latest(k, l)) \in Nat \ {0}
           /\ \A i \in DOMAIN revisions :
                 revisions[i].key = k /\ revisions[i].language = l =>
                    revisions[i].number \in 1 .. NextNumber(Latest(k, l)) - 1
           /\ \A n \in 1 .. NextNumber(Latest(k, l)) - 1 :
                 \E i \in DOMAIN revisions : /\ revisions[i].key = k
                                             /\ revisions[i].language = l
                                             /\ revisions[i].number = n
<1> DEFINE latest == Latest(k, l)
<1>1. /\ latest = None <=> Published(k, l) = {}
      /\ latest # None => Published(k, l) = {latest}
  BY LatestIsPublished DEF HistoryOK
<1>2. \A i \in DOMAIN revisions : revisions[i].number \in Nat \ {0}
  BY DEF TypeOK, RevisionRows
<1>3. \A i \in DOMAIN revisions :
         revisions[i].key = k /\ revisions[i].language = l =>
            \E j \in Published(k, l) : revisions[i].number <= revisions[j].number
  BY DEF HistoryOK, PublishedIsLast, SameSlot, Published
<1> HIDE DEF latest
<1>4. CASE latest = None
  BY <1>1, <1>3, <1>4 DEF NextNumber, latest
<1>5. CASE latest # None
  <2>1. /\ latest \in DOMAIN revisions /\ revisions[latest].key = k
        /\ revisions[latest].language = l
    BY <1>1, <1>5 DEF Published
  <2>2. NextNumber(latest) = revisions[latest].number + 1
    BY <1>5 DEF NextNumber
  <2>3. NextNumber(latest) - 1 = revisions[latest].number
    BY <1>2, <2>1, <2>2
  <2>4. \A i \in DOMAIN revisions :
           revisions[i].key = k /\ revisions[i].language = l =>
              revisions[i].number \in 1 .. revisions[latest].number
    BY <1>1, <1>2, <1>3, <1>5, <2>1
  <2>5. \A n \in 1 .. revisions[latest].number :
           \E i \in DOMAIN revisions : /\ revisions[i].key = k
                                       /\ revisions[i].language = l
                                       /\ revisions[i].number = n
    BY <2>1 DEF HistoryOK, NumbersDense, SameSlot
  <2> QED BY <1>2, <2>1, <2>2, <2>3, <2>4, <2>5 DEF latest
<1> QED BY <1>4, <1>5

\* A publication extends the history of its document by one.
LEMMA PublishingExtendsHistory ==
    ASSUME TypeOK, HistoryOK, NEW id, NEW new, Publishes(id, new)
    PROVE  HistoryOK'
<1> DEFINE next == NextNumber(Latest(new.key, new.language))
           InSlot(i) == revisions[i].key = new.key /\ revisions[i].language = new.language
<1>1. /\ id \notin DOMAIN revisions
      /\ new.status = "published" /\ new.number = next
      /\ DOMAIN revisions' = DOMAIN revisions \cup {id}
      /\ revisions'[id] = new
      /\ \A i \in DOMAIN revisions :
            /\ revisions'[i].key = revisions[i].key
            /\ revisions'[i].language = revisions[i].language
            /\ revisions'[i].number = revisions[i].number
            /\ revisions'[i].status = IF InSlot(i) THEN "superseded" ELSE revisions[i].status
  BY DEF Publishes
<1>2. next \in Nat \ {0}
  BY NextNumberIsNew
<1>3. \A i \in DOMAIN revisions : InSlot(i) => revisions[i].number \in 1 .. next - 1
  BY NextNumberIsNew
<1>4. \A n \in 1 .. next - 1 : \E i \in DOMAIN revisions : InSlot(i) /\ revisions[i].number = n
  BY NextNumberIsNew
<1>5. \A i \in DOMAIN revisions : revisions[i].number \in Nat \ {0}
  BY DEF TypeOK, RevisionRows
<1> HIDE DEF next
<1>6. OnePublished'
  BY <1>1 DEF HistoryOK, OnePublished, SameSlot
<1>7. PublishedIsLast'
  <2> SUFFICES ASSUME NEW i \in DOMAIN revisions'
               PROVE  \E j \in DOMAIN revisions' : /\ SameSlot(i, j)'
                                                   /\ revisions'[j].status = "published"
                                                   /\ revisions'[i].number <= revisions'[j].number
    BY DEF PublishedIsLast
  <2>1. CASE i = id
    BY <1>1, <1>2, <2>1 DEF SameSlot
  <2>2. CASE i \in DOMAIN revisions /\ InSlot(i)
    <3>1. revisions[i].number <= next
      BY <1>2, <1>3, <1>5, <2>2
    <3> QED BY <1>1, <2>2, <3>1 DEF SameSlot
  <2>3. CASE i \in DOMAIN revisions /\ ~InSlot(i)
    <3>1. PICK j \in DOMAIN revisions : /\ SameSlot(i, j)
                                        /\ revisions[j].status = "published"
                                        /\ revisions[i].number <= revisions[j].number
      BY <2>3 DEF HistoryOK, PublishedIsLast
    <3> QED BY <1>1, <2>3, <3>1 DEF SameSlot
  <2> QED BY <1>1, <2>1, <2>2, <2>3
<1>8. NumbersUnique'
  <2>1. \A i \in DOMAIN revisions : InSlot(i) => revisions[i].number # next
    BY <1>2, <1>3
  <2> QED BY <1>1, <2>1 DEF HistoryOK, NumbersUnique, SameSlot
<1>9. NumbersDense'
  <2> SUFFICES ASSUME NEW i \in DOMAIN revisions', NEW n \in 1 .. revisions'[i].number
               PROVE  \E j \in DOMAIN revisions' : SameSlot(i, j)' /\ revisions'[j].number = n
    BY DEF NumbersDense
  <2>1. CASE i \in DOMAIN revisions
    <3>1. PICK j \in DOMAIN revisions : SameSlot(i, j) /\ revisions[j].number = n
      BY <1>1, <2>1 DEF HistoryOK, NumbersDense
    <3> QED BY <1>1, <2>1, <3>1 DEF SameSlot
  <2>2. CASE i = id /\ n = next
    BY <1>1, <2>2 DEF SameSlot
  <2>3. CASE i = id /\ n # next
    <3>1. n \in 1 .. next - 1
      BY <1>1, <1>2, <2>3
    <3>2. PICK j \in DOMAIN revisions : InSlot(j) /\ revisions[j].number = n
      BY <1>4, <3>1
    <3> QED BY <1>1, <2>3, <3>2 DEF SameSlot
  <2> QED BY <1>1, <2>1, <2>2, <2>3
<1> QED BY <1>6, <1>7, <1>8, <1>9 DEF HistoryOK

\* Whatever the step, a document has one line of revisions.
LEMMA NextHistory == IInv /\ HistoryOK /\ [Next]_vars => HistoryOK'
<1> SUFFICES ASSUME IInv, HistoryOK, [Next]_vars
             PROVE  HistoryOK'
  OBVIOUS
<1>1. CASE RevisionsRest
  BY <1>1 DEF RevisionsRest, HistoryOK, OnePublished, PublishedIsLast, NumbersUnique,
              NumbersDense, SameSlot
<1>2. CASE \E id, row : Publishes(id, row)
  BY <1>2, PublishingExtendsHistory DEF IInv
<1> QED BY <1>1, <1>2, RevisionSteps

\* A history of n revisions has the numbers 1 .. n, and only the last is published.
LEMMA HistoryGapless == TypeOK /\ HistoryOK => GaplessHistory
<1> SUFFICES ASSUME TypeOK, HistoryOK, NEW i \in DOMAIN revisions
             PROVE  LET slot == {j \in DOMAIN revisions : SameSlot(i, j)}
                    IN  /\ {revisions[j].number : j \in slot} = 1 .. Cardinality(slot)
                        /\ \A j \in slot : revisions[j].status = "published"
                                           <=> revisions[j].number = Cardinality(slot)
  BY DEF GaplessHistory
<1> DEFINE slot == {j \in DOMAIN revisions : SameSlot(i, j)}
           number == [j \in slot |-> revisions[j].number]
<1>1. PICK last \in slot : /\ revisions[last].status = "published"
                           /\ revisions[i].number <= revisions[last].number
  BY DEF HistoryOK, PublishedIsLast
<1>2. \A j \in slot : revisions[j].number \in Nat \ {0}
  BY DEF TypeOK, RevisionRows
<1>3. PICK n \in Nat : n = revisions[last].number
  BY <1>1, <1>2
<1>4. \A j \in slot : revisions[j].number \in 1 .. n
  <2> SUFFICES ASSUME NEW j \in slot PROVE revisions[j].number \in 1 .. n
    OBVIOUS
  <2>1. PICK m \in DOMAIN revisions : /\ SameSlot(j, m)
                                      /\ revisions[m].status = "published"
                                      /\ revisions[j].number <= revisions[m].number
    BY DEF HistoryOK, PublishedIsLast
  <2>2. m = last
    BY <1>1, <2>1 DEF HistoryOK, OnePublished, SameSlot
  <2> QED BY <1>2, <1>3, <2>1, <2>2
<1>5. \A m \in 1 .. n : \E j \in slot : revisions[j].number = m
  <2> SUFFICES ASSUME NEW m \in 1 .. n PROVE \E j \in slot : revisions[j].number = m
    OBVIOUS
  <2>1. PICK j \in DOMAIN revisions : SameSlot(last, j) /\ revisions[j].number = m
    BY <1>1, <1>3 DEF HistoryOK, NumbersDense
  <2> QED BY <1>1, <2>1 DEF SameSlot
<1>6. \A j, m \in slot : revisions[j].number = revisions[m].number => j = m
  BY DEF HistoryOK, NumbersUnique, SameSlot
<1> HIDE DEF slot
<1>7. {revisions[j].number : j \in slot} = 1 .. n
  BY <1>4, <1>5
<1>8. Cardinality(slot) = n
  <2>1. number \in Bijection(slot, 1 .. n)
    BY <1>4, <1>5, <1>6 DEF Bijection, Injection, Surjection, IsInjective
  <2>2. ExistsBijection(slot, 1 .. n)
    BY <2>1 DEF ExistsBijection
  <2>3. ExistsBijection(1 .. n, slot)
    BY <2>2, Fun_ExistsBijSymmetric
  <2> QED BY <2>3, FS_CountingElements
<1>9. \A j \in slot : revisions[j].status = "published" => j = last
  BY <1>1 DEF HistoryOK, OnePublished, SameSlot, slot
<1>10. \A j \in slot : revisions[j].number = n => j = last
  BY <1>3, <1>6
<1> QED BY <1>1, <1>3, <1>7, <1>8, <1>9, <1>10 DEF slot

-----------------------------------------------------------------------------
(* Pages and their workflows.                                              *)

\* A page that is there keeps its workflow, and the one that is written
\* belongs to the workflow that writes it.
PagesStep(key, kind) ==
    /\ DOMAIN pages' = DOMAIN pages \cup {key}
    /\ \A k \in DOMAIN pages :
          /\ pages'[k].kind = pages[k].kind
          /\ k # key => pages'[k] = pages[k]
    /\ pages'[key].kind = kind
    /\ (pages'[key].source # None) = (kind = "source")

\* Accepting a proposal leaves its page as it is, or makes a reviewed one.
LEMMA AcceptPage ==
    ASSUME TypeOK, KindSeparation, NEW p \in ProposalIds, NEW reviewer \in Subjects,
           NEW id \in RevisionIds, AcceptProposal(p, reviewer, id)
    PROVE  PagesStep(proposals[p].draft.key, "reviewed")
<1>1. PICK draft : draft = proposals[p].draft
  OBVIOUS
<1>2. PICK page : page = PageFor(draft.key, ReviewedPage(draft))
  OBVIOUS
<1>3. page.kind # "source"
      /\ pages' = [k \in DOMAIN pages \cup {draft.key} |-> IF k = draft.key THEN page ELSE pages[k]]
  BY <1>1, <1>2 DEF AcceptProposal, PublishProposal, Publishable, WritePage
<1>4. CASE draft.key \in DOMAIN pages
  <2>1. page = pages[draft.key] /\ pages[draft.key] \in PageRows
    BY <1>2, <1>4 DEF PageFor, TypeOK
  <2>2. page.kind = "reviewed" /\ page.source = None
    BY <1>3, <1>4, <2>1 DEF PageRows, KindSeparation
  <2> QED BY <1>1, <1>3, <2>1, <2>2 DEF PagesStep
<1>5. CASE draft.key \notin DOMAIN pages
  <2>1. page.kind = "reviewed" /\ page.source = None
    BY <1>2, <1>5 DEF PageFor, ReviewedPage
  <2> QED BY <1>1, <1>3, <1>5, <2>1 DEF PagesStep
<1> QED BY <1>4, <1>5

\* An import lands on its page if that is a source page, or makes one.
LEMMA ImportPage ==
    ASSUME TypeOK, NEW draft \in SourceDrafts, OwnsPage(draft), UpsertPage(draft)
    PROVE  PagesStep(draft.key, "source")
<1>1. PICK page : page = PageFor(draft.key, SourcePage(draft))
  OBVIOUS
<1>2. draft.source \in Sources /\ draft.source # None /\ page.kind = "source"
  BY <1>1, NoneAssumption DEF SourceDrafts, OwnsPage
<1>3. page \in PageRows
  <2>1. SourcePage(draft) \in PageRows
    BY DEF SourcePage, PageRows, SourceDrafts
  <2> QED BY <1>1, <2>1 DEF PageFor, TypeOK
<1>4. PICK row : row = [page EXCEPT !.visibility = draft.visibility, !.source = draft.source]
  OBVIOUS
<1>5. row.kind = "source" /\ row.source = draft.source
  BY <1>2, <1>3, <1>4 DEF PageRows
<1>6. pages' = [k \in DOMAIN pages \cup {draft.key} |-> IF k = draft.key THEN row ELSE pages[k]]
  BY <1>1, <1>4 DEF UpsertPage, WritePage
<1>7. draft.key \in DOMAIN pages => pages[draft.key].kind = "source"
  BY <1>1, <1>2 DEF PageFor
<1> QED BY <1>2, <1>5, <1>6, <1>7 DEF PagesStep

\* The page of an accepted proposal exists.
LEMMA AcceptedPage ==
    ASSUME IInv, NEW q \in DOMAIN proposals, proposals[q].status = "accepted"
    PROVE  proposals[q].draft.key \in DOMAIN pages
<1>1. PICK i \in DOMAIN revisions : revisions[i].key = proposals[q].draft.key
  BY DEF IInv, AcceptedLeavesTrace, Trace
<1> QED BY <1>1 DEF IInv, TypeOK

\* A publication by one workflow keeps the keys of both apart.
LEMMA PublishingSeparates ==
    ASSUME IInv, KindSeparation, NEW id, NEW row, Publishes(id, row),
           NEW kind \in {"reviewed", "source"}, PagesStep(row.key, kind),
           (row.commit # None) = (kind = "source"),
           \A p \in DOMAIN proposals' :
              proposals'[p].status = "accepted" =>
                 \/ p \in DOMAIN proposals /\ proposals'[p] = proposals[p]
                 \/ proposals'[p].draft.key = row.key /\ kind = "reviewed"
    PROVE  KindSeparation'
<1>1. \A i \in DOMAIN revisions : revisions[i].key \in DOMAIN pages
  BY DEF IInv, TypeOK
<1>2. \A k \in DOMAIN pages' : \E i \in DOMAIN revisions' : revisions'[i].key = k
  BY DEF Publishes, PagesStep, KindSeparation
<1>3. \A k \in DOMAIN pages' : (pages'[k].kind = "source") = (pages'[k].source # None)
  BY DEF PagesStep, KindSeparation
<1>4. \A i \in DOMAIN revisions' :
         (pages'[revisions'[i].key].kind = "source") = (revisions'[i].commit # None)
  BY <1>1 DEF Publishes, PagesStep, KindSeparation
<1>5. ASSUME NEW p \in DOMAIN proposals', proposals'[p].status = "accepted"
      PROVE  pages'[proposals'[p].draft.key].kind = "reviewed"
  <2>1. CASE p \in DOMAIN proposals /\ proposals'[p] = proposals[p]
    BY <1>5, <2>1, AcceptedPage DEF PagesStep, KindSeparation
  <2>2. CASE proposals'[p].draft.key = row.key /\ kind = "reviewed"
    BY <2>2 DEF PagesStep
  <2> QED BY <1>5, <2>1, <2>2
<1> QED BY <1>2, <1>3, <1>4, <1>5 DEF KindSeparation

\* Importing a known content changes the provenance of a source revision.
LEMMA UnchangedImportSeparates ==
    ASSUME IInv, KindSeparation, NEW draft \in SourceDrafts, UpsertUnchangedSource(draft)
    PROVE  KindSeparation'
<1>1. PICK latest : latest = Latest(draft.key, draft.language)
  OBVIOUS
<1>2. /\ TypeOK /\ OnePublished
      /\ OwnsPage(draft) /\ UpsertPage(draft) /\ UNCHANGED proposals /\ latest # None
      /\ revisions' = [revisions EXCEPT ![latest].commit = draft.commit]
  BY <1>1 DEF IInv, UpsertUnchangedSource, Unchanged
<1>3. PagesStep(draft.key, "source")
  BY <1>2, ImportPage
<1>4. latest \in DOMAIN revisions /\ revisions[latest].key = draft.key
  BY <1>1, <1>2, LatestIsPublished DEF Published
<1>5. /\ DOMAIN revisions' = DOMAIN revisions
      /\ \A i \in DOMAIN revisions : revisions'[i].key = revisions[i].key
  BY <1>2, UnchangedImportEffect
<1>6. draft.commit # None
  BY NoneAssumption DEF SourceDrafts
<1>7. /\ revisions'[latest].commit = draft.commit
      /\ \A i \in DOMAIN revisions : i # latest => revisions'[i] = revisions[i]
  <2>1. revisions[latest] \in RevisionRows
    BY <1>2, <1>4 DEF TypeOK
  <2> QED BY <1>2, <1>4, <2>1 DEF RevisionRows
<1>8. \A i \in DOMAIN revisions : revisions[i].key \in DOMAIN pages
  BY <1>2 DEF TypeOK
<1>9. \A k \in DOMAIN pages' : /\ \E i \in DOMAIN revisions' : revisions'[i].key = k
                               /\ (pages'[k].kind = "source") = (pages'[k].source # None)
  BY <1>3, <1>4, <1>5 DEF PagesStep, KindSeparation
<1>10. \A i \in DOMAIN revisions' :
          (pages'[revisions'[i].key].kind = "source") = (revisions'[i].commit # None)
  BY <1>3, <1>4, <1>5, <1>6, <1>7, <1>8 DEF PagesStep, KindSeparation
<1>11. \A p \in DOMAIN proposals' :
          proposals'[p].status = "accepted" => pages'[proposals'[p].draft.key].kind = "reviewed"
  BY <1>2, <1>3, AcceptedPage DEF PagesStep, KindSeparation
<1> QED BY <1>9, <1>10, <1>11 DEF KindSeparation

\* Whatever the step, a key stays with one workflow.
LEMMA NextSeparates == IInv /\ KindSeparation /\ [Next]_vars => KindSeparation'
<1> SUFFICES ASSUME IInv, KindSeparation, [Next]_vars
             PROVE  KindSeparation'
  OBVIOUS
<1>1. TypeOK /\ OnePublished
  BY DEF IInv
<1>2. ASSUME UNCHANGED <<pages, revisions>>,
             \A p \in DOMAIN proposals' : proposals'[p].status = "accepted" =>
                p \in DOMAIN proposals /\ proposals'[p] = proposals[p]
      PROVE  KindSeparation'
  BY <1>2 DEF KindSeparation
<1>3. ASSUME NEW p \in ProposalIds, NEW draft \in Drafts, CreateProposal(p, draft)
      PROVE  KindSeparation'
  BY <1>2, <1>3 DEF CreateProposal
<1>4. ASSUME NEW p \in ProposalIds, NEW reviewer \in Subjects, RejectProposal(p, reviewer)
      PROVE  KindSeparation'
  <2>1. /\ DOMAIN proposals' = DOMAIN proposals
        /\ \A q \in DOMAIN proposals : q # p => proposals'[q] = proposals[q]
        /\ proposals'[p].status = "rejected"
    BY <1>1, <1>4, DecideTyped DEF RejectProposal, Reviewable
  <2> QED BY <1>2, <1>4, <2>1 DEF RejectProposal
<1>5. ASSUME NEW p \in ProposalIds, NEW reviewer \in Subjects, NEW id \in RevisionIds,
             AcceptProposal(p, reviewer, id)
      PROVE  KindSeparation'
  <2>1. PICK draft, row : /\ draft = proposals[p].draft
                          /\ row = ReviewedRevision(draft, Latest(draft.key, draft.language))
    OBVIOUS
  <2>2. Publishes(id, row)
    BY <1>1, <1>5, <2>1, AcceptPublishes DEF Publishes
  <2>3. row.key = draft.key /\ row.commit = None
    BY <2>1 DEF ReviewedRevision
  <2>4. PagesStep(row.key, "reviewed")
    BY <1>1, <1>5, <2>1, <2>3, AcceptPage DEF PagesStep
  <2>5. /\ DOMAIN proposals' = DOMAIN proposals
        /\ proposals'[p].draft = draft
        /\ \A q \in DOMAIN proposals : q # p => proposals'[q] = proposals[q]
    BY <1>1, <1>5, <2>1, DecideTyped DEF AcceptProposal, Reviewable
  <2> QED BY <2>2, <2>3, <2>4, <2>5, PublishingSeparates
<1>6. ASSUME NEW draft \in SourceDrafts, NEW id \in RevisionIds, UpsertChangedSource(draft, id)
      PROVE  KindSeparation'
  <2>1. PICK row : row = SourceRevision(draft, Latest(draft.key, draft.language))
    OBVIOUS
  <2>2. Publishes(id, row)
    BY <1>1, <1>6, <2>1, ImportPublishes DEF Publishes
  <2>3. row.key = draft.key /\ row.commit # None
    BY <2>1, NoneAssumption DEF SourceRevision, SourceDrafts
  <2>4. PagesStep(row.key, "source") /\ UNCHANGED proposals
    BY <1>1, <1>6, <2>3, ImportPage DEF UpsertChangedSource
  <2> QED BY <2>2, <2>3, <2>4, PublishingSeparates
<1> QED
  BY <1>2, <1>3, <1>4, <1>5, <1>6, UnchangedImportSeparates DEF Next, vars

-----------------------------------------------------------------------------
(* Readers.                                                                *)

\* A revision and its chunks are stored together.
LEMMA NextIndexes == IInv /\ AllIndexed /\ [Next]_vars => AllIndexed'
<1> SUFFICES ASSUME IInv, AllIndexed, [Next]_vars
             PROVE  AllIndexed'
  OBVIOUS
<1>1. TypeOK /\ OnePublished
  BY DEF IInv
<1>2. ASSUME NEW p \in ProposalIds, NEW reviewer \in Subjects, NEW id \in RevisionIds,
             AcceptProposal(p, reviewer, id)
      PROVE  AllIndexed'
  <2>1. DOMAIN revisions' = DOMAIN revisions \cup {id}
    BY <1>1, <1>2, AcceptPublishes DEF Publishes
  <2> QED BY <1>2, <2>1 DEF AllIndexed, AcceptProposal, PublishProposal, IndexRevision
<1>3. ASSUME NEW draft \in SourceDrafts, NEW id \in RevisionIds, UpsertChangedSource(draft, id)
      PROVE  AllIndexed'
  <2>1. DOMAIN revisions' = DOMAIN revisions \cup {id}
    BY <1>1, <1>3, ImportPublishes DEF Publishes
  <2> QED BY <1>3, <2>1 DEF AllIndexed, UpsertChangedSource, IndexRevision
<1>4. ASSUME NEW draft \in SourceDrafts, UpsertUnchangedSource(draft)
      PROVE  AllIndexed'
  BY <1>1, <1>4, UnchangedImportEffect DEF AllIndexed, UpsertUnchangedSource
<1> QED
  BY <1>2, <1>3, <1>4 DEF Next, vars, CreateProposal, RejectProposal, AllIndexed

\* When all revisions are indexed and one of a document is published, the two
\* queries have the same answer.
LEMMA IndexedAgree == TypeOK /\ OnePublished /\ AllIndexed => SearchAgreesWithGet
<1> SUFFICES ASSUME TypeOK, OnePublished, AllIndexed,
                    NEW k \in Keys, NEW l \in Languages, NEW all \in BOOLEAN
             PROVE  LET fetched == {GetPublishedVisible(k, l, all)} \ {None}
                        hits(found) == {i \in found : /\ revisions[i].key = k
                                                      /\ revisions[i].language = l}
                    IN  /\ hits(SearchVisible(l, all)) = fetched
                        /\ hits(SearchVisible(None, all)) = fetched
  BY DEF SearchAgreesWithGet
<1>1. l # None
  BY NoneAssumption
<1>2. /\ Latest(k, l) = None <=> Published(k, l) = {}
      /\ Latest(k, l) # None => Published(k, l) = {Latest(k, l)}
  BY LatestIsPublished
<1>3. {GetPublishedVisible(k, l, all)} \ {None} = {i \in Published(k, l) : Visible(k, all)}
  <2>1. Published(k, l) # {} => k \in DOMAIN pages
    BY DEF Published, TypeOK
  <2> QED BY <1>2, <2>1 DEF GetPublishedVisible
<1>4. {i \in SearchVisible(l, all) : revisions[i].key = k /\ revisions[i].language = l}
         = {i \in Published(k, l) : Visible(k, all)}
  BY DEF SearchVisible, Published, AllIndexed, Visible
<1>5. {i \in SearchVisible(None, all) : revisions[i].key = k /\ revisions[i].language = l}
         = {i \in Published(k, l) : Visible(k, all)}
  BY DEF SearchVisible, Published, AllIndexed, Visible
<1> QED BY <1>3, <1>4, <1>5

-----------------------------------------------------------------------------
(* What was reviewed.                                                      *)

\* Revisions that were there keep their content.
ContentKept ==
    \A i \in DOMAIN revisions :
        /\ i \in DOMAIN revisions'
        /\ revisions'[i].key = revisions[i].key
        /\ revisions'[i].language = revisions[i].language
        /\ revisions'[i].number = revisions[i].number
        /\ revisions'[i].body = revisions[i].body
        /\ revisions'[i].author = revisions[i].author

\* What a proposal wrote, it has written for ever.
LEMMA WrittenForEver ==
    ASSUME TypeOK, ContentKept, NEW i \in DOMAIN revisions, NEW q \in DOMAIN proposals,
           proposals'[q].draft = proposals[q].draft, proposals'[q].status = proposals[q].status
    PROVE  WrittenBy(i, q)' = WrittenBy(i, q)
<1>1. proposals[q].draft.base \in DOMAIN revisions \cup {None}
  BY DEF TypeOK
<1>2. NextNumber(proposals[q].draft.base)' = NextNumber(proposals[q].draft.base)
  BY <1>1 DEF NextNumber, ContentKept
<1> QED BY <1>1, <1>2 DEF WrittenBy, SameSlot, ContentKept

\* A step that accepts nothing and writes on source pages only.
LEMMA LineageKept ==
    ASSUME IInv, KindSeparation, ReviewedLineage, ContentKept, NEW key,
           \A k \in DOMAIN pages : pages'[k].kind = pages[k].kind,
           \A i \in DOMAIN revisions' \ DOMAIN revisions :
              /\ revisions'[i].key = key
              /\ pages'[key].kind = "source",
           \A q \in DOMAIN proposals : /\ q \in DOMAIN proposals'
                                       /\ proposals'[q].draft = proposals[q].draft,
           \A q \in DOMAIN proposals' :
              \/ q \in DOMAIN proposals /\ proposals'[q] = proposals[q]
              \/ /\ proposals'[q].status # "accepted"
                 /\ q \in DOMAIN proposals => proposals[q].status # "accepted"
    PROVE  ReviewedLineage'
<1>1. TypeOK
  BY DEF IInv
<1>2. ASSUME NEW i \in DOMAIN revisions, NEW q \in DOMAIN proposals
      PROVE  WrittenBy(i, q)' = WrittenBy(i, q)
  <2>1. CASE proposals'[q] = proposals[q]
    BY <1>1, <2>1, WrittenForEver
  <2>2. CASE proposals'[q].status # "accepted" /\ proposals[q].status # "accepted"
    BY <2>2 DEF WrittenBy
  <2> QED BY <2>1, <2>2
<1>3. ASSUME NEW q \in DOMAIN proposals' \ DOMAIN proposals, NEW i
      PROVE  ~WrittenBy(i, q)'
  BY DEF WrittenBy
<1>4. ASSUME NEW i \in DOMAIN revisions', pages'[revisions'[i].key].kind = "reviewed"
      PROVE  \E p \in DOMAIN proposals' :
                /\ WrittenBy(i, p)'
                /\ proposals'[p].reviewer \notin {None, proposals'[p].draft.proposer}
                /\ \A q \in DOMAIN proposals' : WrittenBy(i, q)' => q = p
  <2>1. i \in DOMAIN revisions
    BY <1>4
  <2>2. pages[revisions[i].key].kind = "reviewed"
    BY <1>1, <1>4, <2>1 DEF TypeOK, ContentKept
  <2>3. PICK p \in DOMAIN proposals :
           /\ WrittenBy(i, p)
           /\ proposals[p].reviewer \notin {None, proposals[p].draft.proposer}
           /\ \A q \in DOMAIN proposals : WrittenBy(i, q) => q = p
    BY <2>1, <2>2 DEF ReviewedLineage
  <2>4. proposals'[p] = proposals[p]
    BY <2>3 DEF WrittenBy
  <2> QED BY <1>2, <1>3, <2>1, <2>3, <2>4
<1>5. ASSUME NEW p \in DOMAIN proposals', proposals'[p].status = "accepted"
      PROVE  \E i \in DOMAIN revisions' : WrittenBy(i, p)'
  <2>1. p \in DOMAIN proposals /\ proposals[p].status = "accepted"
    BY <1>5
  <2>2. PICK i \in DOMAIN revisions : WrittenBy(i, p)
    BY <2>1 DEF ReviewedLineage
  <2> QED BY <1>2, <2>1, <2>2 DEF ContentKept
<1> QED BY <1>4, <1>5 DEF ReviewedLineage

\* The pair of an accepted proposal and its revision joins the others.
LEMMA AcceptanceLineage ==
    ASSUME IInv, HistoryOK, KindSeparation, ReviewedLineage,
           NEW p \in ProposalIds, NEW reviewer \in Subjects, NEW id \in RevisionIds,
           AcceptProposal(p, reviewer, id)
    PROVE  ReviewedLineage'
<1>a. PICK draft, new, next :
          /\ draft = proposals[p].draft
          /\ new = ReviewedRevision(draft, Latest(draft.key, draft.language))
          /\ next = NextNumber(Latest(draft.key, draft.language))
  OBVIOUS
<1>1. TypeOK /\ OnePublished
  BY DEF IInv
<1>2. /\ id \in RevisionIds \ DOMAIN revisions
      /\ new.number = next /\ new.body = draft.body /\ new.author = draft.proposer
      /\ new.key = draft.key /\ new.language = draft.language
      /\ DOMAIN revisions' = DOMAIN revisions \cup {id}
      /\ revisions'[id] = new
      /\ ContentKept
  <2>1. Publishes(id, new)
    BY <1>1, <1>a, AcceptPublishes DEF Publishes
  <2> QED BY <1>a, <2>1 DEF Publishes, ReviewedRevision, ContentKept
<1>3. /\ p \in DOMAIN proposals /\ proposals[p].status = "pending"
      /\ draft.proposer # reviewer
      /\ proposals[p].draft = draft
      /\ DOMAIN proposals' = DOMAIN proposals
      /\ \A q \in DOMAIN proposals : /\ proposals'[q].draft = proposals[q].draft
                                     /\ q # p => proposals'[q] = proposals[q]
      /\ proposals'[p].status = "accepted" /\ proposals'[p].reviewer = reviewer
  BY <1>1, <1>a, DecideTyped DEF AcceptProposal, Reviewable
<1>4. draft.base = Latest(draft.key, draft.language)
  BY <1>1, <1>a, AcceptEffect
<1>5. \A q \in DOMAIN proposals : proposals[q].draft.base \in DOMAIN revisions \cup {None}
  BY <1>1 DEF TypeOK
<1>6. \A i \in DOMAIN revisions :
         revisions[i].key = draft.key /\ revisions[i].language = draft.language =>
            revisions[i].number # next
  <2>1. next \in Nat \ {0}
    BY <1>1, <1>a, NextNumberIsNew
  <2>2. \A i \in DOMAIN revisions :
           revisions[i].key = draft.key /\ revisions[i].language = draft.language =>
              revisions[i].number \in 1 .. next - 1
    BY <1>1, <1>a, NextNumberIsNew
  <2> QED BY <2>1, <2>2
<1>7. draft.base # None => /\ revisions[draft.base].key = draft.key
                           /\ revisions[draft.base].language = draft.language
  BY <1>1, <1>4, LatestIsPublished DEF Published
<1>8. next = NextNumber(draft.base)
  BY <1>4, <1>a
<1>9. \A q \in DOMAIN proposals :
         NextNumber(proposals[q].draft.base)' = NextNumber(proposals[q].draft.base)
  BY <1>2, <1>3, <1>5 DEF NextNumber, ContentKept
<1>10. \A i \in DOMAIN revisions, q \in DOMAIN proposals :
          q # p => WrittenBy(i, q)' = WrittenBy(i, q)
  BY <1>1, <1>2, <1>3, WrittenForEver
<1>11. \A i \in DOMAIN revisions : ~WrittenBy(i, p) /\ ~WrittenBy(i, p)'
  BY <1>2, <1>3, <1>6, <1>8, <1>9 DEF WrittenBy, ContentKept
<1>12. WrittenBy(id, p)'
  <2>1. draft.base # None => /\ revisions'[draft.base].key = draft.key
                             /\ revisions'[draft.base].language = draft.language
    BY <1>2, <1>3, <1>5, <1>7 DEF ContentKept
  <2> QED BY <1>2, <1>3, <1>8, <1>9, <2>1 DEF WrittenBy, SameSlot
<1>13. \A q \in DOMAIN proposals : WrittenBy(id, q)' => q = p
  <2> SUFFICES ASSUME NEW q \in DOMAIN proposals, q # p, WrittenBy(id, q)'
               PROVE  FALSE
    OBVIOUS
  <2>1. /\ proposals[q].status = "accepted"
        /\ proposals[q].draft.key = draft.key /\ proposals[q].draft.language = draft.language
        /\ NextNumber(proposals[q].draft.base) = next
    BY <1>2, <1>3, <1>9 DEF WrittenBy
  <2>2. PICK i \in DOMAIN revisions : WrittenBy(i, q)
    BY <2>1 DEF ReviewedLineage
  <2>3. /\ revisions[i].key = draft.key /\ revisions[i].language = draft.language
        /\ revisions[i].number = next
    BY <2>1, <2>2 DEF WrittenBy
  <2> QED BY <1>6, <2>3
<1>14. \A k \in DOMAIN pages : pages'[k].kind = pages[k].kind
  BY <1>1, AcceptPage DEF PagesStep
<1>15. ASSUME NEW i \in DOMAIN revisions', pages'[revisions'[i].key].kind = "reviewed"
       PROVE  \E q \in DOMAIN proposals' :
                 /\ WrittenBy(i, q)'
                 /\ proposals'[q].reviewer \notin {None, proposals'[q].draft.proposer}
                 /\ \A s \in DOMAIN proposals' : WrittenBy(i, s)' => s = q
  <2>1. CASE i = id
    <3>1. reviewer \notin {None, draft.proposer}
      BY <1>3, NoneAssumption
    <3> QED BY <1>3, <1>12, <1>13, <2>1, <3>1
  <2>2. CASE i \in DOMAIN revisions
    <3>1. pages[revisions[i].key].kind = "reviewed"
      BY <1>1, <1>2, <1>14, <1>15, <2>2 DEF TypeOK, ContentKept
    <3>2. PICK q \in DOMAIN proposals :
             /\ WrittenBy(i, q)
             /\ proposals[q].reviewer \notin {None, proposals[q].draft.proposer}
             /\ \A s \in DOMAIN proposals : WrittenBy(i, s) => s = q
      BY <2>2, <3>1 DEF ReviewedLineage
    <3>3. q # p
      BY <1>11, <2>2, <3>2
    <3>4. WrittenBy(i, q)' /\ \A s \in DOMAIN proposals' : WrittenBy(i, s)' => s = q
      BY <1>3, <1>10, <1>11, <2>2, <3>2, <3>3
    <3> QED BY <1>3, <3>2, <3>3, <3>4
  <2> QED BY <1>2, <2>1, <2>2
<1>16. ASSUME NEW q \in DOMAIN proposals', proposals'[q].status = "accepted"
       PROVE  \E i \in DOMAIN revisions' : WrittenBy(i, q)'
  <2>1. CASE q = p
    BY <1>2, <1>12, <2>1
  <2>2. CASE q # p
    <3>1. PICK i \in DOMAIN revisions : WrittenBy(i, q)
      BY <1>3, <1>16, <2>2 DEF ReviewedLineage
    <3> QED BY <1>2, <1>3, <1>10, <2>2, <3>1
  <2> QED BY <2>1, <2>2
<1> QED BY <1>15, <1>16 DEF ReviewedLineage

\* Whatever the step, reviewed knowledge is what was reviewed.
LEMMA NextLineage ==
    IInv /\ HistoryOK /\ KindSeparation /\ ReviewedLineage /\ [Next]_vars => ReviewedLineage'
<1> SUFFICES ASSUME IInv, HistoryOK, KindSeparation, ReviewedLineage, [Next]_vars
             PROVE  ReviewedLineage'
  OBVIOUS
<1>1. TypeOK /\ OnePublished
  BY DEF IInv
<1>2. ASSUME UNCHANGED <<pages, revisions>>,
             \A q \in DOMAIN proposals : /\ q \in DOMAIN proposals'
                                         /\ proposals'[q].draft = proposals[q].draft,
             \A q \in DOMAIN proposals' :
                \/ q \in DOMAIN proposals /\ proposals'[q] = proposals[q]
                \/ /\ proposals'[q].status # "accepted"
                   /\ q \in DOMAIN proposals => proposals[q].status # "accepted"
      PROVE  ReviewedLineage'
  <2>1. ContentKept
    BY <1>2 DEF ContentKept
  <2> QED BY <1>2, <2>1, LineageKept
<1>3. ASSUME NEW p \in ProposalIds, NEW draft \in Drafts, CreateProposal(p, draft)
      PROVE  ReviewedLineage'
  BY <1>2, <1>3 DEF CreateProposal
<1>4. ASSUME NEW p \in ProposalIds, NEW reviewer \in Subjects, RejectProposal(p, reviewer)
      PROVE  ReviewedLineage'
  <2>1. /\ DOMAIN proposals' = DOMAIN proposals
        /\ \A q \in DOMAIN proposals : /\ proposals'[q].draft = proposals[q].draft
                                       /\ q # p => proposals'[q] = proposals[q]
        /\ proposals'[p].status = "rejected" /\ proposals[p].status = "pending"
    BY <1>1, <1>4, DecideTyped DEF RejectProposal, Reviewable
  <2> QED BY <1>2, <1>4, <2>1 DEF RejectProposal
<1>5. ASSUME NEW draft \in SourceDrafts, UpsertUnchangedSource(draft)
      PROVE  ReviewedLineage'
  <2>1. ContentKept /\ DOMAIN revisions' = DOMAIN revisions
    BY <1>1, <1>5, UnchangedImportEffect DEF ContentKept
  <2>2. PagesStep(draft.key, "source") /\ UNCHANGED proposals
    BY <1>1, <1>5, ImportPage DEF UpsertUnchangedSource
  <2>3. \A k \in DOMAIN pages : pages'[k].kind = pages[k].kind
    BY <2>2 DEF PagesStep
  <2> QED BY <2>1, <2>2, <2>3, LineageKept
<1>6. ASSUME NEW draft \in SourceDrafts, NEW id \in RevisionIds, UpsertChangedSource(draft, id)
      PROVE  ReviewedLineage'
  <2>1. PICK row : row = SourceRevision(draft, Latest(draft.key, draft.language))
    OBVIOUS
  <2>2. Publishes(id, row) /\ row.key = draft.key
    BY <1>1, <1>6, <2>1, ImportPublishes DEF Publishes, SourceRevision
  <2>3. /\ ContentKept
        /\ \A i \in DOMAIN revisions' \ DOMAIN revisions : revisions'[i].key = draft.key
    BY <2>2 DEF ContentKept, Publishes
  <2>4. PagesStep(draft.key, "source") /\ UNCHANGED proposals
    BY <1>1, <1>6, ImportPage DEF UpsertChangedSource
  <2>5. /\ \A k \in DOMAIN pages : pages'[k].kind = pages[k].kind
        /\ pages'[draft.key].kind = "source"
    BY <2>4 DEF PagesStep
  <2> QED BY <2>3, <2>4, <2>5, LineageKept
<1> QED
  BY <1>2, <1>3, <1>4, <1>5, <1>6, AcceptanceLineage DEF Next, vars

-----------------------------------------------------------------------------
(* The event log.                                                          *)

\* An event names one more subject, for its type and its row.
LEMMA OneRecorded ==
    ASSUME NEW t, NEW a, NEW s, Record({Event(t, a, s)})
    PROVE  \A type, subject :
              Actors(type, subject)' =
                 IF type = t /\ subject = s
                 THEN Actors(type, subject) \cup {a} ELSE Actors(type, subject)
<1> SUFFICES ASSUME NEW type, NEW subject
             PROVE  Actors(type, subject)' =
                       IF type = t /\ subject = s
                       THEN Actors(type, subject) \cup {a} ELSE Actors(type, subject)
  OBVIOUS
<1> DEFINE now == [type |-> t, actor |-> a, subject |-> s]
<1>1. events' = events \cup {now}
  BY DEF Record, Event
<1>2. now.type = t /\ now.actor = a /\ now.subject = s
  OBVIOUS
<1> HIDE DEF now
<1>3. CASE type = t /\ subject = s
  BY <1>1, <1>2, <1>3 DEF Actors
<1>4. CASE ~(type = t /\ subject = s)
  BY <1>1, <1>2, <1>4 DEF Actors
<1> QED BY <1>3, <1>4

\* An acceptance records two events, of different types, in one write.
LEMMA TwoRecorded ==
    ASSUME NEW t, NEW u, NEW a, NEW s, NEW r, t # u,
           Record({Event(t, a, s), Event(u, a, r)})
    PROVE  \A type, subject :
              Actors(type, subject)' =
                 IF \/ type = t /\ subject = s
                    \/ type = u /\ subject = r
                 THEN Actors(type, subject) \cup {a} ELSE Actors(type, subject)
<1> SUFFICES ASSUME NEW type, NEW subject
             PROVE  Actors(type, subject)' =
                       IF \/ type = t /\ subject = s
                          \/ type = u /\ subject = r
                       THEN Actors(type, subject) \cup {a} ELSE Actors(type, subject)
  OBVIOUS
<1> DEFINE one == [type |-> t, actor |-> a, subject |-> s]
<1> DEFINE other == [type |-> u, actor |-> a, subject |-> r]
<1>1. events' = events \cup {one, other}
  BY DEF Record, Event
<1>2. /\ one.type = t /\ one.actor = a /\ one.subject = s
      /\ other.type = u /\ other.actor = a /\ other.subject = r
  OBVIOUS
<1> HIDE DEF one, other
<1>3. CASE \/ type = t /\ subject = s
           \/ type = u /\ subject = r
  BY <1>1, <1>2, <1>3 DEF Actors
<1>4. CASE ~(\/ type = t /\ subject = s
             \/ type = u /\ subject = r)
  BY <1>1, <1>2, <1>4 DEF Actors
<1> QED BY <1>3, <1>4

\* The event log and the tables say the same after a step that leaves the rows
\* of a proposal, or of a revision, alone and records nothing of it.
LEMMA ProposalAuditKept ==
    ASSUME NEW p, ProposalAudited(p),
           (p \in DOMAIN proposals') = (p \in DOMAIN proposals),
           p \in DOMAIN proposals => proposals'[p] = proposals[p],
           \A type \in {"proposal.created", "proposal.accepted", "proposal.rejected"} :
              Actors(type, p)' = Actors(type, p)
    PROVE  ProposalAudited(p)'
  BY DEF ProposalAudited

\* The same of a revision.
LEMMA RevisionAuditKept ==
    ASSUME TypeOK, NEW i, RevisionAudited(i),
           (i \in DOMAIN revisions') = (i \in DOMAIN revisions),
           i \in DOMAIN revisions => /\ revisions'[i].key = revisions[i].key
                                     /\ revisions'[i].author = revisions[i].author,
           \A k \in DOMAIN pages : pages'[k].kind = pages[k].kind,
           \A type \in {"revision.published", "source.synced"} :
              Actors(type, i)' = Actors(type, i)
    PROVE  RevisionAudited(i)'
  BY DEF RevisionAudited, TypeOK

\* CreateProposal records the proposer with the row.
LEMMA CreateAudited ==
    ASSUME TypeOK, Audited, NEW p \in ProposalIds, NEW draft \in Drafts, CreateProposal(p, draft)
    PROVE  Audited'
<1>1. /\ p \notin DOMAIN proposals
      /\ DOMAIN proposals' = DOMAIN proposals \cup {p}
      /\ proposals'[p].draft = draft /\ proposals'[p].status = "pending"
      /\ \A q \in DOMAIN proposals : proposals'[q] = proposals[q]
      /\ UNCHANGED <<pages, revisions>>
      /\ Record({Event("proposal.created", draft.proposer, p)})
  BY DEF CreateProposal
<1>2. \A type, subject :
         Actors(type, subject)' =
            IF type = "proposal.created" /\ subject = p
            THEN Actors(type, subject) \cup {draft.proposer} ELSE Actors(type, subject)
  BY <1>1, OneRecorded
<1>3. ASSUME NEW q \in ProposalIds PROVE ProposalAudited(q)'
  <2>1. ProposalAudited(q)
    BY DEF Audited
  <2>2. CASE q = p
    BY <1>1, <1>2, <2>1, <2>2 DEF ProposalAudited
  <2>3. CASE q # p
    BY <1>1, <1>2, <2>1, <2>3, ProposalAuditKept
  <2> QED BY <2>2, <2>3
<1>4. ASSUME NEW i \in RevisionIds PROVE RevisionAudited(i)'
  BY <1>1, <1>2, RevisionAuditKept DEF Audited
<1> QED BY <1>3, <1>4 DEF Audited

\* RejectProposal records the reviewer it stores.
LEMMA RejectAudited ==
    ASSUME TypeOK, Audited, NEW p \in ProposalIds, NEW reviewer \in Subjects,
           RejectProposal(p, reviewer)
    PROVE  Audited'
<1>1. /\ p \in DOMAIN proposals /\ proposals[p].status = "pending"
      /\ Decide(p, reviewer, "rejected")
      /\ UNCHANGED <<pages, revisions>>
      /\ Record({Event("proposal.rejected", reviewer, p)})
  BY DEF RejectProposal, Reviewable
<1>2. /\ DOMAIN proposals' = DOMAIN proposals
      /\ \A q \in DOMAIN proposals : q # p => proposals'[q] = proposals[q]
      /\ proposals'[p].draft = proposals[p].draft
      /\ proposals'[p].status = "rejected" /\ proposals'[p].reviewer = reviewer
  BY <1>1, DecideTyped
<1>3. \A type, subject :
         Actors(type, subject)' =
            IF type = "proposal.rejected" /\ subject = p
            THEN Actors(type, subject) \cup {reviewer} ELSE Actors(type, subject)
  BY <1>1, OneRecorded
<1>4. ASSUME NEW q \in ProposalIds PROVE ProposalAudited(q)'
  <2>1. ProposalAudited(q)
    BY DEF Audited
  <2>2. CASE q = p
    BY <1>1, <1>2, <1>3, <2>1, <2>2 DEF ProposalAudited
  <2>3. CASE q # p
    BY <1>2, <1>3, <2>1, <2>3, ProposalAuditKept
  <2> QED BY <2>2, <2>3
<1>5. ASSUME NEW i \in RevisionIds PROVE RevisionAudited(i)'
  BY <1>1, <1>3, RevisionAuditKept DEF Audited
<1> QED BY <1>4, <1>5 DEF Audited

\* AcceptProposal records its reviewer twice, of the proposal and of the new
\* revision; that reviewer is not the author.
LEMMA AcceptAudited ==
    ASSUME TypeOK, OnePublished, KindSeparation, Audited,
           NEW p \in ProposalIds, NEW reviewer \in Subjects, NEW id \in RevisionIds,
           AcceptProposal(p, reviewer, id)
    PROVE  Audited'
<1>1. PICK draft, row : /\ draft = proposals[p].draft
                        /\ row = ReviewedRevision(draft, Latest(draft.key, draft.language))
  OBVIOUS
<1>2. /\ p \in DOMAIN proposals /\ proposals[p].status = "pending"
      /\ draft.proposer # reviewer
      /\ Decide(p, reviewer, "accepted")
      /\ Record({Event("proposal.accepted", reviewer, p),
                 Event("revision.published", reviewer, id)})
  BY <1>1 DEF AcceptProposal, Reviewable, PublishProposal
<1>3. /\ DOMAIN proposals' = DOMAIN proposals
      /\ \A q \in DOMAIN proposals : q # p => proposals'[q] = proposals[q]
      /\ proposals'[p].draft = proposals[p].draft
      /\ proposals'[p].status = "accepted" /\ proposals'[p].reviewer = reviewer
  BY <1>2, DecideTyped
<1>4. /\ Publishes(id, row)
      /\ row.key = draft.key /\ row.author = draft.proposer
  <2>1. Publishes(id, row)
    BY <1>1, AcceptPublishes DEF Publishes
  <2> QED BY <1>1, <2>1 DEF ReviewedRevision
<1>5. /\ \A k \in DOMAIN pages : pages'[k].kind = pages[k].kind
      /\ pages'[draft.key].kind = "reviewed"
  BY <1>1, AcceptPage DEF PagesStep
<1>6. \A type, subject :
         Actors(type, subject)' =
            IF \/ type = "proposal.accepted" /\ subject = p
               \/ type = "revision.published" /\ subject = id
            THEN Actors(type, subject) \cup {reviewer} ELSE Actors(type, subject)
  BY <1>2, TwoRecorded
<1>7. ASSUME NEW q \in ProposalIds PROVE ProposalAudited(q)'
  <2>1. ProposalAudited(q)
    BY DEF Audited
  <2>2. CASE q = p
    BY <1>2, <1>3, <1>6, <2>1, <2>2 DEF ProposalAudited
  <2>3. CASE q # p
    BY <1>3, <1>6, <2>1, <2>3, ProposalAuditKept
  <2> QED BY <2>2, <2>3
<1>8. ASSUME NEW i \in RevisionIds PROVE RevisionAudited(i)'
  <2>1. RevisionAudited(i)
    BY DEF Audited
  <2>2. CASE i = id
    BY <1>2, <1>4, <1>5, <1>6, <2>1, <2>2 DEF RevisionAudited, Publishes
  <2>3. CASE i # id
    BY <1>4, <1>5, <1>6, <2>1, <2>3, RevisionAuditKept DEF Publishes
  <2> QED BY <2>2, <2>3
<1> QED BY <1>7, <1>8 DEF Audited

\* A changed import records the importer with the new revision.
LEMMA ImportAudited ==
    ASSUME TypeOK, OnePublished, Audited,
           NEW draft \in SourceDrafts, NEW id \in RevisionIds, UpsertChangedSource(draft, id)
    PROVE  Audited'
<1>1. PICK row : row = SourceRevision(draft, Latest(draft.key, draft.language))
  OBVIOUS
<1>2. Publishes(id, row) /\ row.key = draft.key /\ row.author = draft.importer
  <2>1. Publishes(id, row)
    BY <1>1, ImportPublishes DEF Publishes
  <2> QED BY <1>1, <2>1 DEF SourceRevision
<1>3. /\ UNCHANGED proposals /\ PagesStep(draft.key, "source")
      /\ Record({Event("source.synced", draft.importer, id)})
  BY ImportPage DEF UpsertChangedSource
<1>4. /\ \A k \in DOMAIN pages : pages'[k].kind = pages[k].kind
      /\ pages'[draft.key].kind = "source"
  BY <1>3 DEF PagesStep
<1>5. \A type, subject :
         Actors(type, subject)' =
            IF type = "source.synced" /\ subject = id
            THEN Actors(type, subject) \cup {draft.importer} ELSE Actors(type, subject)
  BY <1>3, OneRecorded
<1>6. ASSUME NEW q \in ProposalIds PROVE ProposalAudited(q)'
  BY <1>3, <1>5, ProposalAuditKept DEF Audited
<1>7. ASSUME NEW i \in RevisionIds PROVE RevisionAudited(i)'
  <2>1. RevisionAudited(i)
    BY DEF Audited
  <2>2. CASE i = id
    BY <1>2, <1>4, <1>5, <2>1, <2>2 DEF RevisionAudited, Publishes
  <2>3. CASE i # id
    BY <1>2, <1>4, <1>5, <2>1, <2>3, RevisionAuditKept DEF Publishes
  <2> QED BY <2>2, <2>3
<1> QED BY <1>6, <1>7 DEF Audited

\* Whatever the step, the log and the tables agree.  An import of a content that
\* is current records nothing, and changes nothing the log tells of.
LEMMA NextAudited == IInv /\ KindSeparation /\ Audited /\ [Next]_vars => Audited'
<1> SUFFICES ASSUME IInv, KindSeparation, Audited, [Next]_vars
             PROVE  Audited'
  OBVIOUS
<1>1. TypeOK /\ OnePublished
  BY DEF IInv
<1>2. ASSUME NEW draft \in SourceDrafts, UpsertUnchangedSource(draft)
      PROVE  Audited'
  <2>1. /\ DOMAIN revisions' = DOMAIN revisions
        /\ \A i \in DOMAIN revisions : /\ revisions'[i].key = revisions[i].key
                                       /\ revisions'[i].author = revisions[i].author
    BY <1>1, <1>2, UnchangedImportEffect
  <2>2. PagesStep(draft.key, "source") /\ UNCHANGED <<proposals, events>>
    BY <1>1, <1>2, ImportPage DEF UpsertUnchangedSource
  <2>3. \A type, subject : Actors(type, subject)' = Actors(type, subject)
    BY <2>2 DEF Actors
  <2>4. \A k \in DOMAIN pages : pages'[k].kind = pages[k].kind
    BY <2>2 DEF PagesStep
  <2> QED BY <1>1, <2>1, <2>2, <2>3, <2>4, ProposalAuditKept, RevisionAuditKept DEF Audited
<1>3. CASE UNCHANGED vars
  BY <1>3 DEF vars, Audited, ProposalAudited, RevisionAudited, Actors
<1> QED
  BY <1>1, <1>2, <1>3, CreateAudited, RejectAudited, AcceptAudited, ImportAudited DEF Next

\* The subjects the invariant knows of are the ones the log is read for.
LEMMA AuditedTrail == Audited => AuditTrail
<1> SUFFICES ASSUME Audited PROVE AuditTrail
  OBVIOUS
<1>1. \A x : Cardinality({x}) = 1
  BY FS_Singleton
<1>2. \A p \in ProposalIds :
         LET known(S) == IF p \in DOMAIN proposals THEN S ELSE {}
             reviewer(status) ==
                 known({proposals[p].reviewer : x \in {proposals[p].status} \cap {status}})
         IN  /\ Actors("proposal.created", p) = known({proposals[p].draft.proposer})
             /\ Actors("proposal.accepted", p) = reviewer("accepted")
             /\ Actors("proposal.rejected", p) = reviewer("rejected")
  BY DEF Audited, ProposalAudited
<1>3. \A i \in RevisionIds :
         LET published == Actors("revision.published", i)
             synced    == Actors("source.synced", i)
         IN  IF i \notin DOMAIN revisions
             THEN published = {} /\ synced = {}
             ELSE IF pages[revisions[i].key].kind = "source"
             THEN published = {} /\ synced = {revisions[i].author}
             ELSE /\ synced = {} /\ Cardinality(published) = 1
                  /\ revisions[i].author \notin published
  BY <1>1 DEF Audited, RevisionAudited
<1> QED BY <1>2, <1>3 DEF AuditTrail

-----------------------------------------------------------------------------
(* The theorems.                                                           *)

\* The empty store satisfies the invariant.
LEMMA InitHistoryInv == Init => HistoryInv
<1> SUFFICES ASSUME Init
             PROVE  HistoryInv
  OBVIOUS
<1>1. /\ DOMAIN pages = {} /\ DOMAIN revisions = {} /\ DOMAIN proposals = {}
      /\ indexed = {} /\ events = {}
  BY DEF Init
<1>2. IInv
  BY InitIInv
<1>3. HistoryOK
  BY <1>1 DEF HistoryOK, OnePublished, PublishedIsLast, NumbersUnique, NumbersDense
<1>4. AllIndexed /\ KindSeparation /\ ReviewedLineage
  BY <1>1 DEF AllIndexed, KindSeparation, ReviewedLineage
<1>5. \A type, subject : Actors(type, subject) = {}
  BY <1>1 DEF Actors
<1>6. Audited
  BY <1>1, <1>5 DEF Audited, ProposalAudited, RevisionAudited
<1> QED BY <1>2, <1>3, <1>4, <1>6 DEF HistoryInv

\* Every step preserves it, part by part.
LEMMA NextHistoryInv == HistoryInv /\ [Next]_vars => HistoryInv'
<1> SUFFICES ASSUME HistoryInv, [Next]_vars
             PROVE  HistoryInv'
  OBVIOUS
<1>1. /\ IInv /\ HistoryOK /\ AllIndexed /\ KindSeparation /\ ReviewedLineage /\ Audited
  BY DEF HistoryInv
<1>2. IInv'
  BY <1>1, NextIInv
<1>3. HistoryOK'
  BY <1>1, NextHistory
<1>4. AllIndexed'
  BY <1>1, NextIndexes
<1>5. KindSeparation'
  BY <1>1, NextSeparates
<1>6. ReviewedLineage'
  BY <1>1, NextLineage
<1>7. Audited'
  BY <1>1, NextAudited
<1> QED BY <1>2, <1>3, <1>4, <1>5, <1>6, <1>7 DEF HistoryInv

\* HistoryInv is an inductive invariant of the store.
THEOREM HistoryInvariant == Spec => []HistoryInv
BY InitHistoryInv, NextHistoryInv, PTL DEF Spec

\* The revisions of a document in a language are numbered 1 .. n without gap
\* or repetition, and revision n, no other, is published.
THEOREM GaplessForever == Spec => []GaplessHistory
<1>1. HistoryInv => GaplessHistory
  BY HistoryGapless DEF HistoryInv, IInv
<1> QED BY <1>1, HistoryInvariant, PTL

\* Reviews and imports never meet on one key.
THEOREM KindsSeparate == Spec => []KindSeparation
<1>1. HistoryInv => KindSeparation
  BY DEF HistoryInv
<1> QED BY <1>1, HistoryInvariant, PTL

\* Every reviewed revision is the work of one accepted proposal that a second
\* subject decided, and every accepted proposal has its revision.
THEOREM LineageReviewed == Spec => []ReviewedLineage
<1>1. HistoryInv => ReviewedLineage
  BY DEF HistoryInv
<1> QED BY <1>1, HistoryInvariant, PTL

\* The event log tells who created and decided each proposal, and who brought
\* each revision in.
THEOREM TrailComplete == Spec => []AuditTrail
<1>1. HistoryInv => AuditTrail
  BY AuditedTrail DEF HistoryInv
<1> QED BY <1>1, HistoryInvariant, PTL

\* A search and a lookup of one document return the same revision.
THEOREM ReadersAgree == Spec => []SearchAgreesWithGet
<1>1. HistoryInv => SearchAgreesWithGet
  BY IndexedAgree DEF HistoryInv, IInv
<1> QED BY <1>1, HistoryInvariant, PTL

-----------------------------------------------------------------------------
(* One document in one language moves at a time.                           *)

\* What the current revision is, in one state or the next.
LatestFacts ==
    \A k, l : /\ Latest(k, l) = None <=> Published(k, l) = {}
              /\ Latest(k, l) # None => Published(k, l) = {Latest(k, l)}

\* In every state that OnePublished allows, it is the one published.
LEMMA LatestKnown == IInv => LatestFacts
<1> SUFFICES ASSUME IInv, NEW k, NEW l
             PROVE  /\ Latest(k, l) = None <=> Published(k, l) = {}
                    /\ Latest(k, l) # None => Published(k, l) = {Latest(k, l)}
  BY DEF LatestFacts
<1> QED BY LatestIsPublished DEF IInv

\* A publication moves the current revision of its document, to the row it
\* wrote, and no other.
LEMMA PublishingMovesOne ==
    ASSUME LatestFacts, LatestFacts', NEW id, NEW row, Publishes(id, row),
           NEW k, NEW l
    PROVE  Latest(k, l)' =
              IF k = row.key /\ l = row.language THEN id ELSE Latest(k, l)
<1>1. Published(k, l)' =
         IF k = row.key /\ l = row.language THEN {id} ELSE Published(k, l)
  BY DEF Publishes, Published
<1>2. /\ Latest(k, l) = None <=> Published(k, l) = {}
      /\ Latest(k, l) # None => Published(k, l) = {Latest(k, l)}
  BY DEF LatestFacts
<1>3. /\ Latest(k, l)' = None <=> Published(k, l)' = {}
      /\ Latest(k, l)' # None => Published(k, l)' = {Latest(k, l)'}
  BY DEF LatestFacts
<1> QED BY <1>1, <1>2, <1>3

\* A step that publishes nothing moves no current revision.
LEMMA RestMovesNone ==
    ASSUME LatestFacts, LatestFacts', RevisionsRest, NEW k, NEW l
    PROVE  Latest(k, l)' = Latest(k, l)
<1>1. Published(k, l)' = Published(k, l)
  BY DEF RevisionsRest, Published
<1>2. /\ Latest(k, l) = None <=> Published(k, l) = {}
      /\ Latest(k, l) # None => Published(k, l) = {Latest(k, l)}
  BY DEF LatestFacts
<1>3. /\ Latest(k, l)' = None <=> Published(k, l)' = {}
      /\ Latest(k, l)' # None => Published(k, l)' = {Latest(k, l)'}
  BY DEF LatestFacts
<1> QED BY <1>1, <1>2, <1>3

\* Whatever the step, at most one document in one language moves, to the
\* successor of the revision it had.
LEMMA NextMovesOne == IInv /\ IInv' /\ [Next]_vars => OneSlotStep
<1> SUFFICES ASSUME IInv, IInv', [Next]_vars
             PROVE  OneSlotStep
  OBVIOUS
<1>1. LatestFacts /\ LatestFacts'
  BY LatestKnown, PTL
<1>2. CASE RevisionsRest
  <2>1. \A k, l : Latest(k, l)' = Latest(k, l)
    BY <1>1, <1>2, RestMovesNone
  <2> QED BY <2>1 DEF OneSlotStep
<1>3. ASSUME NEW id, NEW row, Publishes(id, row)
      PROVE  OneSlotStep
  <2>1. \A k, l : Latest(k, l)' =
                     IF k = row.key /\ l = row.language THEN id ELSE Latest(k, l)
    BY <1>1, <1>3, PublishingMovesOne
  <2>2. /\ id # None
        /\ revisions'[id] = row
        /\ row.number = NextNumber(Latest(row.key, row.language))
    BY <1>3, NoneAssumption DEF Publishes
  <2> QED BY <2>1, <2>2 DEF OneSlotStep
<1> QED BY <1>2, <1>3, RevisionSteps

\* No operation disturbs the other languages of a document, or another one.
THEOREM OneDocumentAtATime == Spec => TranslationsIndependent
<1>1. Spec => []IInv
  BY InductiveInvariant
<1>2. IInv /\ IInv' /\ [Next]_vars => [OneSlotStep]_vars
  BY NextMovesOne
<1> QED BY <1>1, <1>2, PTL DEF Spec, TranslationsIndependent

=============================================================================
