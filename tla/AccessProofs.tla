----------------------------- MODULE AccessProofs -----------------------------
(***************************************************************************)
(* Theorems about Access, for any number of requests, any texts and their  *)
(* spellings, any people, lists and identity service.                      *)
(*                                                                         *)
(* A handler either leaves the store alone or does one operation of it, in *)
(* the name of its actor (HandlerEffect); so the store is driven through   *)
(* its operations only, and what the theorems about it show, here through  *)
(* the instance Proved, holds behind the API as well.                      *)
(***************************************************************************)
EXTENDS Access, FiniteSetTheorems, TLAPS

\* The theorems about the store that the handlers call.
Proved == INSTANCE SqliteContractProofs WITH
    Keys        <- Exactly(Keys),
    Languages   <- Exactly(Languages),
    Subjects    <- People,
    RevisionIds <- 1 .. Cardinality(Requests),
    ProposalIds <- 1 .. Cardinality(Requests)

\* NULL is none of what the store stores: the assumption of SqliteStore.
LEMMA StoreAssumption == Proved!NoneAssumption
  BY NoneAssumption DEF Proved!NoneAssumption

-----------------------------------------------------------------------------
(* The store and the instance that is proved about are the same.           *)

\* Queries.
LEMMA SameQueries ==
    /\ \A k, l : Store!Latest(k, l) = Proved!Latest(k, l)
    /\ \A k, l, all :
          Store!GetPublishedVisible(k, l, all) = Proved!GetPublishedVisible(k, l, all)
    /\ \A l, all : Store!SearchVisible(l, all) = Proved!SearchVisible(l, all)
  BY DEF Store!Latest, Proved!Latest, Store!Published, Proved!Published,
         Store!GetPublishedVisible, Proved!GetPublishedVisible, Store!Visible, Proved!Visible,
         Store!SearchVisible, Proved!SearchVisible

\* Proposals.
LEMMA SameProposing ==
    /\ \A p, draft : Store!CreateProposal(p, draft) <=> Proved!CreateProposal(p, draft)
    /\ \A p, reviewer : Store!RejectProposal(p, reviewer) <=> Proved!RejectProposal(p, reviewer)
  BY DEF Store!CreateProposal, Proved!CreateProposal, Store!RejectProposal,
         Proved!RejectProposal, Store!Reviewable, Proved!Reviewable, Store!Decide, Proved!Decide,
         Store!Record, Proved!Record, Store!Event, Proved!Event

\* Acceptances.
LEMMA SameAccepting ==
    ASSUME NEW p, NEW reviewer, NEW id
    PROVE  Store!AcceptProposal(p, reviewer, id) <=> Proved!AcceptProposal(p, reviewer, id)
  BY DEF Store!AcceptProposal, Proved!AcceptProposal, Store!Reviewable, Proved!Reviewable,
         Store!PublishProposal, Proved!PublishProposal, Store!Publishable, Proved!Publishable,
         Store!PageFor, Proved!PageFor, Store!ReviewedPage, Proved!ReviewedPage,
         Store!BaseIsCurrent, Proved!BaseIsCurrent, Store!Latest, Proved!Latest,
         Store!Published, Proved!Published, Store!WritePage, Proved!WritePage,
         Store!WriteRevision, Proved!WriteRevision, Store!ReviewedRevision,
         Proved!ReviewedRevision, Store!NextNumber, Proved!NextNumber, Store!Superseded,
         Proved!Superseded, Store!IndexRevision, Proved!IndexRevision, Store!Record,
         Proved!Record, Store!Event, Proved!Event, Store!Decide, Proved!Decide

\* Imports.
LEMMA SameImporting ==
    ASSUME NEW draft, NEW id
    PROVE  /\ Store!UpsertUnchangedSource(draft) <=> Proved!UpsertUnchangedSource(draft)
           /\ Store!UpsertChangedSource(draft, id) <=> Proved!UpsertChangedSource(draft, id)
  BY DEF Store!UpsertUnchangedSource, Proved!UpsertUnchangedSource,
         Store!UpsertChangedSource, Proved!UpsertChangedSource, Store!OwnsPage, Proved!OwnsPage,
         Store!PageFor, Proved!PageFor, Store!SourcePage, Proved!SourcePage,
         Store!UpsertPage, Proved!UpsertPage, Store!WritePage, Proved!WritePage,
         Store!Unchanged, Proved!Unchanged, Store!Latest, Proved!Latest,
         Store!Published, Proved!Published, Store!WriteRevision, Proved!WriteRevision,
         Store!SourceRevision, Proved!SourceRevision, Store!NextNumber, Proved!NextNumber,
         Store!Superseded, Proved!Superseded, Store!IndexRevision, Proved!IndexRevision,
         Store!Record, Proved!Record, Store!Event, Proved!Event

\* Its rows.
LEMMA SameTypes ==
    /\ Store!TypeOK <=> Proved!TypeOK
    /\ Store!Init <=> Proved!Init
    /\ Store!Drafts = Proved!Drafts /\ Store!SourceDrafts = Proved!SourceDrafts
  BY DEF Store!TypeOK, Proved!TypeOK, Store!Init, Proved!Init,
         Store!PageRows, Proved!PageRows, Store!RevisionRows, Proved!RevisionRows,
         Store!ProposalRows, Proved!ProposalRows, Store!EventRows, Proved!EventRows,
         Store!Drafts, Proved!Drafts, Store!SourceDrafts, Proved!SourceDrafts,
         Store!Visibilities, Proved!Visibilities

-----------------------------------------------------------------------------
(* Spelling.                                                               *)

\* What a valid key or language is normalised to is the text itself: the store
\* gets one spelling of each.
LEMMA OneSpelling ==
    /\ \A s \in SentKeys : ValidKey(NormalKey(s)) => NormalKey(s) \in Exactly(Keys)
    /\ \A s \in SentLanguages :
          /\ ValidLanguage(NormalLanguage(s)) => NormalLanguage(s) \in Exactly(Languages)
          /\ ValidLanguage(NormalCanonical(s)) => NormalCanonical(s) \in Exactly(Languages)
<1>1. ASSUME NEW texts, NEW s \in Spellings(texts), NEW trait
      PROVE  /\ Without(s, trait) \in Spellings(texts)
             /\ Without(s, trait).traits = s.traits \ {trait}
  BY DEF Spellings, Without
<1>2. ASSUME NEW texts, NEW s \in Spellings(texts), s.traits = {}
      PROVE  s \in Exactly(texts)
  BY <1>2 DEF Spellings, Exactly
<1>3. ASSUME NEW s \in Spellings(Keys), ValidKey(NormalKey(s))
      PROVE  NormalKey(s) \in Exactly(Keys)
  <2>1. NormalKey(s) \in Spellings(Keys)
    BY <1>1 DEF NormalKey, TrimSpace, TrimSlashes, ToLower
  <2> QED BY <1>2, <1>3, <2>1 DEF ValidKey
<1>4. ASSUME NEW s \in Spellings(Languages), ValidLanguage(ToLower(TrimSpace(s)))
      PROVE  ToLower(TrimSpace(s)) \in Exactly(Languages)
  <2>1. TrimSpace(s) \in Spellings(Languages)
    BY <1>1 DEF TrimSpace
  <2>2. /\ ToLower(TrimSpace(s)) \in Spellings(Languages)
        /\ "capital" \notin ToLower(TrimSpace(s)).traits
    BY <1>1, <2>1 DEF ToLower
  <2>3. ToLower(TrimSpace(s)).traits = {}
    BY <1>4, <2>2 DEF ValidLanguage
  <2> QED BY <1>2, <2>2, <2>3
<1> QED BY <1>3, <1>4, SpellingAssumption DEF NormalLanguage, NormalCanonical

\* Whom a list lets pass it grants: folding its entries never lets in somebody
\* it does not name.
LEMMA ListedIsGranted ==
    ASSUME NEW list \in SUBSET SpelledNames, NEW principal,
           principal.subject \in Listed(list)
    PROVE  Grants(list, principal)
<1>1. PICK s \in list : ~Blank(s) /\ principal.subject = ToLower(TrimSpace(s))
  BY DEF Listed
<1>2. s \in SpelledNames
  OBVIOUS
<1>3. ToLower(TrimSpace(s)) = Exact(s)
  <2>1. s.traits \subseteq {"spaced", "capital"}
    BY <1>1, <1>2 DEF SpelledNames, Blank
  <2>2. PICK t : t = TrimSpace(s)
    OBVIOUS
  <2>3. /\ t \in [text : Names, traits : SUBSET {"spaced", "capital", "blank"}]
        /\ t.text = s.text /\ t.traits = s.traits \ {"spaced"}
    BY <1>2, <2>2 DEF SpelledNames, TrimSpace, Without
  <2>4. t.traits \ {"capital"} = {}
    BY <2>1, <2>3
  <2>5. [t EXCEPT !.traits = {}] = [s EXCEPT !.traits = {}]
    BY <1>2, <2>3 DEF SpelledNames
  <2> QED BY <2>2, <2>4, <2>5 DEF ToLower, Without, Exact
<1> QED BY <1>1, <1>3 DEF Grants

\* A name that is not blank is a person's after TrimSpace.
LEMMA TrimmedIsPerson ==
    ASSUME NEW s \in SpelledNames, ~Blank(s)
    PROVE  TrimSpace(s) \in People
<1>1. s.traits \ {"spaced"} \in SUBSET {"capital"}
  BY DEF SpelledNames, Blank
<1> QED BY <1>1 DEF SpelledNames, TrimSpace, Without, People

-----------------------------------------------------------------------------
(* The inductive invariant.                                                *)

\* Requests that are over.
Answered == {r \in Requests : request[r].step = "answered"}

\* A request is resolved to a principal: a handler has somebody to name.
Authenticated ==
    \A r \in Requests : request[r].step = "resolved" => request[r].principal \in Principals

\* Each proposal took a request, so an identifier is left for one more.
IdentifiersLeft == Cardinality(DOMAIN proposals) <= Cardinality(Answered)

\* The review workflow makes shared pages, and imports keep away from them.
ReviewedShared ==
    \A k \in DOMAIN pages : pages[k].kind = "reviewed" => pages[k].visibility = "shared"

IInv ==
    /\ NormalisedTypeOK
    /\ Authenticated
    /\ IdentifiersLeft
    /\ ReviewedShared
    /\ Proved!IInv

-----------------------------------------------------------------------------
(* What a handler does to the store, in the name of `actor`.               *)

\* Reviewed knowledge: one proposal, or one decision.
ReviewStep(actor) ==
    \/ \E draft \in Proved!Drafts :
          draft.proposer = actor /\ Proved!CreateProposal(FreshProposal, draft)
    \/ \E p \in 1 .. Cardinality(Requests) : Proved!RejectProposal(p, actor)
    \/ \E p \in 1 .. Cardinality(Requests), id \in 1 .. Cardinality(Requests) :
          Proved!AcceptProposal(p, actor, id)

\* Imported knowledge: one document.
ImportStep(actor) ==
    \E draft \in Proved!SourceDrafts :
        /\ draft.importer = actor
        /\ \/ Proved!UpsertUnchangedSource(draft)
           \/ \E id \in 1 .. Cardinality(Requests) : Proved!UpsertChangedSource(draft, id)

\* What the policy lets an answer carry, when the tables are what the request has
\* made of them.
MayShow(r, shown, imported) ==
    \A i \in shown :
        \/ pages'[revisions'[i].key].visibility = "shared"
        \/ CanReadRestricted(Principal(r))
        \/ CanIngest(Principal(r)) /\ Repeats(revisions'[i], imported)

\* r is answered with something of that kind.
AnswerStep(r, statuses) ==
    \E status \in statuses, shown \in SUBSET DOMAIN revisions',
       imported \in Documents \cup {None} :
          AnswerWith(r, status, shown, imported) /\ MayShow(r, shown, imported)

\* The store is left alone.
ReadStep(r) ==
    /\ UNCHANGED store
    /\ AnswerStep(r, Statuses)

\* The store does one operation.
WriteStep(r) ==
    /\ AnswerStep(r, {200, 201})
    /\ \/ ReviewStep(Principal(r).actor)
       \/ CanIngest(Principal(r)) /\ ImportStep(Principal(r).actor)

\* An answer that carries no revision.
LEMMA PlainAnswer ==
    ASSUME NEW r, NEW statuses, NEW status \in statuses, Answer(r, status)
    PROVE  AnswerStep(r, statuses)
<1>1. AnswerWith(r, status, {}, None) /\ MayShow(r, {}, None)
  BY DEF Answer, MayShow
<1>2. {} \in SUBSET DOMAIN revisions' /\ None \in Documents \cup {None}
  OBVIOUS
<1> QED BY <1>1, <1>2 DEF AnswerStep

\* A refusal leaves the store alone.
LEMMA RefusalReads ==
    ASSUME NEW r, NEW status \in Statuses, Refuse(r, status)
    PROVE  ReadStep(r)
  BY PlainAnswer DEF Refuse, ReadStep

\* An identifier is left for the proposal of a request that is not over.
LEMMA FreshProposalLeft ==
    ASSUME IInv, NEW r \in Requests, request[r].step # "answered"
    PROVE  FreshProposal \in 1 .. Cardinality(Requests)
<1>1. IsFiniteSet(Requests) /\ Cardinality(Requests) \in Nat
  BY RequestsAssumption, FS_CardinalityType
<1>2. /\ IsFiniteSet(Requests \ {r})
      /\ Cardinality(Requests \ {r}) = Cardinality(Requests) - 1
  BY <1>1, FS_RemoveElement
<1>3. Answered \in SUBSET (Requests \ {r})
  BY DEF Answered
<1>4. /\ IsFiniteSet(Answered)
      /\ Cardinality(Answered) <= Cardinality(Requests \ {r})
  BY <1>2, <1>3, FS_Subset
<1>5. Cardinality(Answered) \in Nat
  BY <1>4, FS_CardinalityType
<1>6. DOMAIN proposals \in SUBSET (1 .. Cardinality(Requests))
  BY DEF IInv, Proved!IInv, Proved!TypeOK
<1>7. IsFiniteSet(1 .. Cardinality(Requests))
  BY <1>1, FS_Interval
<1>8. Cardinality(DOMAIN proposals) \in Nat
  BY <1>6, <1>7, FS_Subset, FS_CardinalityType
<1> QED BY <1>1, <1>2, <1>4, <1>5, <1>8 DEF IInv, IdentifiersLeft, FreshProposal

\* POST /v1/proposals
LEMMA ProposeEffect ==
    ASSUME IInv, NEW r \in Requests, request[r].step = "resolved",
           NEW key \in SentKeys, NEW canonical \in SentLanguages,
           NEW language \in SentLanguages,
           NEW base \in {None} \cup DOMAIN revisions, NEW body \in Bodies,
           Propose(r, key, canonical, language, base, body)
    PROVE  ReadStep(r) \/ WriteStep(r)
<1> DEFINE draft == [key |-> NormalKey(key), canonical |-> NormalCanonical(canonical),
                     language |-> NormalLanguage(language), base |-> base, body |-> body,
                     proposer |-> RecordedAs(Principal(r))]
           valid == /\ ValidKey(NormalKey(key))
                    /\ ValidLanguage(NormalCanonical(canonical))
                    /\ ValidLanguage(NormalLanguage(language))
<1>1. CASE ~valid
  BY <1>1, RefusalReads DEF Propose, RefuseInvalid, Statuses
<1>2. CASE valid
  <2>1. Store!CreateProposal(FreshProposal, draft) /\ Answer(r, 201)
    BY <1>2 DEF Propose
  <2>2. /\ NormalKey(key) \in Exactly(Keys)
        /\ NormalCanonical(canonical) \in Exactly(Languages)
        /\ NormalLanguage(language) \in Exactly(Languages)
    BY <1>2, OneSpelling
  <2>3. RecordedAs(Principal(r)) = Principal(r).actor /\ Principal(r).actor \in People
    BY DEF RecordedAs, Principal, Principals, IInv, Authenticated
  <2>4. base \in {None} \cup 1 .. Cardinality(Requests)
    BY DEF IInv, Proved!IInv, Proved!TypeOK
  <2>5. draft \in Proved!Drafts /\ draft.proposer = Principal(r).actor
    BY <2>2, <2>3, <2>4 DEF Proved!Drafts
  <2>6. Proved!CreateProposal(FreshProposal, draft)
    BY <2>1, SameProposing
  <2>7. ReviewStep(Principal(r).actor)
    BY <2>5, <2>6 DEF ReviewStep
  <2> QED BY <2>1, <2>7, PlainAnswer DEF WriteStep
<1> QED BY <1>1, <1>2

\* An acceptance writes a revision of a shared page, which the review workflow owns,
\* and no other page.
LEMMA AcceptWrites ==
    ASSUME IInv, NEW actor \in People, NEW p \in 1 .. Cardinality(Requests),
           NEW id \in 1 .. Cardinality(Requests), Proved!AcceptProposal(p, actor, id)
    PROVE  \E key :
              /\ DOMAIN pages' = DOMAIN pages \cup {key}
              /\ pages'[key].kind = "reviewed" /\ pages'[key].visibility = "shared"
              /\ \A k \in DOMAIN pages : k # key => pages'[k] = pages[k]
              /\ DOMAIN revisions' = DOMAIN revisions \cup {id}
              /\ revisions'[id].key = key
              /\ \A i \in DOMAIN revisions :
                    /\ revisions'[i] = [revisions[i] EXCEPT !.status = revisions'[i].status]
                    /\ revisions'[i].key = revisions[i].key
<1> DEFINE draft == proposals[p].draft
           row   == Proved!ReviewedRevision(draft, Proved!Latest(draft.key, draft.language))
           page  == Proved!PageFor(draft.key, Proved!ReviewedPage(draft))
<1>1. Proved!TypeOK /\ Proved!OnePublished
  BY DEF IInv, Proved!IInv
<1>2. /\ row \in Proved!RevisionRows
      /\ row.status = "published"
      /\ row.key = draft.key
      /\ id \in (1 .. Cardinality(Requests)) \ DOMAIN revisions
      /\ Proved!WriteRevision(id, row, Proved!Latest(row.key, row.language))
  BY <1>1, StoreAssumption, Proved!AcceptEffect
<1>3. PICK r \in Proved!RevisionRows : r = row
  BY <1>2
<1>4. /\ DOMAIN revisions' = DOMAIN revisions \cup {id}
      /\ revisions'[id] = r
      /\ \A i \in DOMAIN revisions :
            /\ revisions'[i] = [revisions[i] EXCEPT !.status = revisions'[i].status]
            /\ revisions'[i].key = revisions[i].key
  BY <1>1, <1>2, <1>3, StoreAssumption, Proved!WriteRevisionEffect
<1>5. page.kind # "source" /\ Proved!WritePage(draft.key, page)
  BY DEF Proved!AcceptProposal, Proved!PublishProposal, Proved!Publishable
<1>6. /\ DOMAIN pages' = DOMAIN pages \cup {draft.key}
      /\ pages'[draft.key] = page
      /\ \A k \in DOMAIN pages : k # draft.key => pages'[k] = pages[k]
  BY <1>5 DEF Proved!WritePage
<1>7. page.kind = "reviewed" /\ page.visibility = "shared"
  <2>1. CASE draft.key \in DOMAIN pages
    <3>1. page = pages[draft.key] /\ pages[draft.key] \in Proved!PageRows
      BY <1>1, <2>1 DEF Proved!PageFor, Proved!TypeOK
    <3>2. page.kind \in {"reviewed", "source"}
      BY <3>1 DEF Proved!PageRows
    <3> QED BY <1>5, <2>1, <3>1, <3>2 DEF IInv, ReviewedShared
  <2>2. CASE draft.key \notin DOMAIN pages
    BY <2>2 DEF Proved!PageFor, Proved!ReviewedPage
  <2> QED BY <2>1, <2>2
<1> QED BY <1>2, <1>3, <1>4, <1>6, <1>7

\* POST /v1/proposals/{proposalID}/review
LEMMA ReviewEffect ==
    ASSUME IInv, NEW r \in Requests, request[r].step = "resolved",
           NEW p \in 1 .. Cardinality(Requests), NEW decision \in {"accept", "reject"},
           Review(r, p, decision)
    PROVE  ReadStep(r) \/ WriteStep(r)
<1>0. Principal(r).actor \in People
  BY DEF IInv, Authenticated, Principal, Principals
<1>1. CASE Refuse(r, 404) \/ Refuse(r, 409)
  BY <1>1, RefusalReads DEF Statuses
<1>2. CASE /\ Store!AcceptProposal(p, Principal(r).actor, FreshRevision)
           /\ AnswerWith(r, 200, {FreshRevision}, None)
  <2>1. Proved!AcceptProposal(p, Principal(r).actor, FreshRevision)
    BY <1>2, SameAccepting
  <2>2. PICK id \in 1 .. Cardinality(Requests) : id = FreshRevision
    BY <2>1 DEF Proved!AcceptProposal
  <2>3. Proved!AcceptProposal(p, Principal(r).actor, id)
    BY <2>1, <2>2
    DEF Proved!AcceptProposal, Proved!PublishProposal, Proved!WriteRevision,
        Proved!IndexRevision, Proved!Record, Proved!Event
  <2>4. id \in DOMAIN revisions' /\ pages'[revisions'[id].key].visibility = "shared"
    <3>1. PICK key : /\ pages'[key].visibility = "shared"
                     /\ DOMAIN revisions' = DOMAIN revisions \cup {id}
                     /\ revisions'[id].key = key
      BY <1>0, <2>3, AcceptWrites
    <3> QED BY <3>1
  <2>5. MayShow(r, {id}, None)
    BY <2>4 DEF MayShow
  <2>6. AnswerStep(r, {200, 201})
    BY <1>2, <2>2, <2>4, <2>5 DEF AnswerStep
  <2> QED BY <2>3, <2>6 DEF WriteStep, ReviewStep
<1>3. CASE Store!RejectProposal(p, Principal(r).actor) /\ Answer(r, 200)
  <2>1. Proved!RejectProposal(p, Principal(r).actor)
    BY <1>3, SameProposing
  <2> QED BY <1>3, <2>1, PlainAnswer DEF WriteStep, ReviewStep
<1>4. \/ Refuse(r, 404) \/ Refuse(r, 409)
      \/ /\ Store!AcceptProposal(p, Principal(r).actor, FreshRevision)
         /\ AnswerWith(r, 200, {FreshRevision}, None)
      \/ Store!RejectProposal(p, Principal(r).actor) /\ Answer(r, 200)
  BY Zenon DEF Review, RecordedAs
<1> QED BY <1>1, <1>2, <1>3, <1>4

\* GET /v1/pages
LEMMA GetPageEffect ==
    ASSUME IInv, NEW r \in Requests, NEW key, NEW language, GetPage(r, key, language)
    PROVE  ReadStep(r)
<1> DEFINE k     == LookedUp(key)
           l     == LookedUp(language)
           all   == CanReadRestricted(Principal(r))
           found == Store!GetPublishedVisible(k, l, all)
<1>1. CASE Blank(key) \/ Blank(language)
  BY <1>1, RefusalReads DEF GetPage, RefuseInvalid, Statuses
<1>2. CASE ~Blank(key) /\ ~Blank(language) /\ found = None
  <2>1. Refuse(r, 404)
    BY <1>2, Zenon DEF GetPage
  <2> QED BY <2>1, RefusalReads DEF Statuses
<1>3. CASE ~Blank(key) /\ ~Blank(language) /\ found # None
  <2>1. AnswerWith(r, 200, {found}, None) /\ UNCHANGED store
    BY <1>3, Zenon DEF GetPage
  <2>2. found = Proved!GetPublishedVisible(k, l, all)
    BY SameQueries
  <2>3. /\ found = Proved!Latest(k, l)
        /\ all \/ pages[k].visibility = "shared"
    BY <1>3, <2>2 DEF Proved!GetPublishedVisible, Proved!Visible
  <2>4. found \in Proved!Published(k, l)
    <3>1. Proved!TypeOK /\ Proved!OnePublished
      BY DEF IInv, Proved!IInv
    <3>2. Proved!Published(k, l) = {Proved!Latest(k, l)}
      BY <1>3, <2>3, <3>1, StoreAssumption, Proved!LatestIsPublished
    <3> QED BY <2>3, <3>2
  <2>5. found \in DOMAIN revisions /\ revisions[found].key = k
    BY <2>4 DEF Proved!Published
  <2>6. revisions' = revisions /\ pages' = pages
    BY <2>1 DEF store
  <2>7. MayShow(r, {found}, None) /\ {found} \in SUBSET DOMAIN revisions'
    BY <2>3, <2>5, <2>6 DEF MayShow
  <2> HIDE DEF found
  <2> QED BY <2>1, <2>7 DEF ReadStep, AnswerStep, Statuses
<1> QED BY <1>1, <1>2, <1>3

\* GET /v1/search
LEMMA SearchEffect ==
    ASSUME IInv, NEW r \in Requests, NEW language, Search(r, language)
    PROVE  ReadStep(r)
<1> DEFINE asked == IF Blank(language) THEN None ELSE LookedUp(language)
           all   == CanReadRestricted(Principal(r))
<1>1. PICK hits \in SUBSET Store!SearchVisible(asked, all) : AnswerWith(r, 200, hits, None)
  BY Zenon DEF Search
<1>2. hits \subseteq Proved!SearchVisible(asked, all)
  BY SameQueries
<1>3. indexed \subseteq DOMAIN revisions
  BY DEF IInv, Proved!IInv, Proved!TypeOK
<1>4. \A i \in hits : /\ i \in DOMAIN revisions
                      /\ all \/ pages[revisions[i].key].visibility = "shared"
  BY <1>2, <1>3 DEF Proved!SearchVisible, Proved!Visible
<1>5. UNCHANGED store /\ revisions' = revisions /\ pages' = pages
  BY DEF Search, store
<1>6. MayShow(r, hits, None) /\ hits \in SUBSET DOMAIN revisions'
  BY <1>4, <1>5 DEF MayShow
<1> QED BY <1>1, <1>5, <1>6 DEF ReadStep, AnswerStep, Statuses

\* After an import the answer carries the document that was sent.
LEMMA ImportShows ==
    ASSUME IInv, NEW draft \in Proved!SourceDrafts, NEW imported, imported # None,
           imported.key = draft.key, imported.language = draft.language,
           imported.body = draft.body
    PROVE  /\ Proved!UpsertUnchangedSource(draft) =>
                 LET i == Proved!Latest(draft.key, draft.language)
                 IN  i \in DOMAIN revisions' /\ Repeats(revisions'[i], imported)
           /\ \A id \in 1 .. Cardinality(Requests) :
                 Proved!UpsertChangedSource(draft, id) =>
                    id \in DOMAIN revisions' /\ Repeats(revisions'[id], imported)
<1>1. Proved!TypeOK /\ Proved!OnePublished
  BY DEF IInv, Proved!IInv
<1>2. ASSUME Proved!UpsertUnchangedSource(draft)
      PROVE  LET i == Proved!Latest(draft.key, draft.language)
             IN  i \in DOMAIN revisions' /\ Repeats(revisions'[i], imported)
  <2>1. PICK i : i = Proved!Latest(draft.key, draft.language)
    OBVIOUS
  <2>2. i # None /\ revisions[i].body = draft.body
    BY <1>2, <2>1 DEF Proved!UpsertUnchangedSource, Proved!Unchanged
  <2>3. Proved!Published(draft.key, draft.language) = {i}
    BY <1>1, <2>1, <2>2, StoreAssumption, Proved!LatestIsPublished
  <2>4. /\ i \in DOMAIN revisions
        /\ revisions[i].key = draft.key /\ revisions[i].language = draft.language
    BY <2>3 DEF Proved!Published
  <2>5. /\ i \in DOMAIN revisions'
        /\ revisions'[i].key = revisions[i].key
        /\ revisions'[i].language = revisions[i].language
        /\ revisions'[i].body = revisions[i].body
    BY <1>1, <1>2, <2>4, StoreAssumption, Proved!UnchangedImportEffect
  <2> QED BY <2>1, <2>2, <2>4, <2>5 DEF Repeats
<1>3. ASSUME NEW id \in 1 .. Cardinality(Requests), Proved!UpsertChangedSource(draft, id)
      PROVE  id \in DOMAIN revisions' /\ Repeats(revisions'[id], imported)
  <2> DEFINE row == Proved!SourceRevision(draft, Proved!Latest(draft.key, draft.language))
  <2>1. /\ id \in (1 .. Cardinality(Requests)) \ DOMAIN revisions
        /\ row \in Proved!RevisionRows
        /\ row.status = "published"
        /\ row.key = draft.key /\ row.language = draft.language
        /\ Proved!WriteRevision(id, row, Proved!Latest(row.key, row.language))
    BY <1>1, <1>3, StoreAssumption, Proved!ImportEffect
  <2>2. row.body = draft.body
    BY DEF Proved!SourceRevision
  <2>3. PICK r \in Proved!RevisionRows : r = row
    BY <2>1
  <2>4. id \in DOMAIN revisions' /\ revisions'[id] = r
    BY <1>1, <2>1, <2>3, StoreAssumption, Proved!WriteRevisionEffect
  <2> QED BY <2>1, <2>2, <2>3, <2>4 DEF Repeats
<1> QED BY <1>2, <1>3

\* An import writes the page of its document, and that is a source page.
LEMMA ImportWritesPage ==
    ASSUME IInv, NEW draft \in Proved!SourceDrafts,
           \/ Proved!UpsertUnchangedSource(draft)
           \/ \E id \in 1 .. Cardinality(Requests) : Proved!UpsertChangedSource(draft, id)
    PROVE  /\ DOMAIN pages' = DOMAIN pages \cup {draft.key}
           /\ pages'[draft.key].kind = "source"
           /\ \A k \in DOMAIN pages : k # draft.key => pages'[k] = pages[k]
<1> DEFINE page == Proved!PageFor(draft.key, Proved!SourcePage(draft))
           row  == [page EXCEPT !.visibility = draft.visibility, !.source = draft.source]
<1>1. page.kind = "source" /\ Proved!WritePage(draft.key, row)
  BY DEF Proved!UpsertUnchangedSource, Proved!UpsertChangedSource, Proved!OwnsPage,
         Proved!UpsertPage
<1>2. row.kind = "source"
  <2>1. page \in Proved!PageRows
    <3>1. CASE draft.key \in DOMAIN pages
      BY <3>1 DEF Proved!PageFor, IInv, Proved!IInv, Proved!TypeOK
    <3>2. CASE draft.key \notin DOMAIN pages
      BY <3>2 DEF Proved!PageFor, Proved!SourcePage, Proved!SourceDrafts, Proved!PageRows
    <3> QED BY <3>1, <3>2
  <2> HIDE DEF page
  <2> QED BY <1>1, <2>1 DEF Proved!PageRows
<1> HIDE DEF row
<1> QED BY <1>1, <1>2 DEF Proved!WritePage

\* PUT /v1/source-documents
LEMMA PutSourceEffect ==
    ASSUME IInv, NEW r \in Requests, request[r].step = "resolved",
           NEW key \in SentKeys, NEW canonical \in SentLanguages,
           NEW language \in SentLanguages,
           NEW body \in Bodies, NEW visibility \in Store!Visibilities,
           NEW source \in Sources, NEW commit \in Commits,
           PutSource(r, key, canonical, language, body, visibility, source, commit)
    PROVE  ReadStep(r) \/ WriteStep(r)
<1> DEFINE draft == [key |-> NormalKey(key), canonical |-> NormalCanonical(canonical),
                     language |-> NormalLanguage(language), body |-> body,
                     visibility |-> visibility, source |-> source, commit |-> commit,
                     importer |-> RecordedAs(Principal(r))]
           imported == [key |-> NormalKey(key), language |-> NormalLanguage(language),
                        body |-> body]
           valid == /\ ValidKey(NormalKey(key))
                    /\ ValidLanguage(NormalCanonical(canonical))
                    /\ ValidLanguage(NormalLanguage(language))
           latest == Store!Latest(NormalKey(key), NormalLanguage(language))
<1>1. CASE Refuse(r, 403) \/ RefuseInvalid(r) \/ Refuse(r, 409)
  BY <1>1, RefusalReads DEF RefuseInvalid, Statuses
<1>2. CASE /\ CanIngest(Principal(r))
           /\ valid
           /\ \/ /\ Store!UpsertUnchangedSource(draft)
                 /\ AnswerWith(r, 200, {latest}, imported)
              \/ /\ Store!UpsertChangedSource(draft, FreshRevision)
                 /\ AnswerWith(r, 200, {FreshRevision}, imported)
  <2>1. PICK shown :
           /\ AnswerWith(r, 200, {shown}, imported)
           /\ \/ Store!UpsertUnchangedSource(draft) /\ shown = latest
              \/ Store!UpsertChangedSource(draft, FreshRevision) /\ shown = FreshRevision
    BY <1>2
  <2>2. /\ NormalKey(key) \in Exactly(Keys)
        /\ NormalCanonical(canonical) \in Exactly(Languages)
        /\ NormalLanguage(language) \in Exactly(Languages)
    BY <1>2, OneSpelling
  <2>3. RecordedAs(Principal(r)) = Principal(r).actor /\ Principal(r).actor \in People
    BY DEF RecordedAs, Principal, Principals, IInv, Authenticated
  <2>4. visibility \in Proved!Visibilities
    BY DEF Store!Visibilities, Proved!Visibilities
  <2>5. draft \in Proved!SourceDrafts /\ draft.importer = Principal(r).actor
    BY <2>2, <2>3, <2>4 DEF Proved!SourceDrafts
  <2>6. imported \in Documents
    BY <2>2 DEF Documents
  <2>7. \/ Proved!UpsertUnchangedSource(draft) /\ shown = Proved!Latest(draft.key, draft.language)
        \/ Proved!UpsertChangedSource(draft, FreshRevision) /\ shown = FreshRevision
    BY <2>1, SameImporting, SameQueries
  <2>8. Proved!UpsertChangedSource(draft, FreshRevision)
        => FreshRevision \in 1 .. Cardinality(Requests)
    BY DEF Proved!UpsertChangedSource
  <2>9. ImportStep(Principal(r).actor)
    BY <2>5, <2>7, <2>8 DEF ImportStep
  <2>10. imported # None /\ imported.key = draft.key /\ imported.language = draft.language
         /\ imported.body = draft.body
    BY <2>6, NoneAssumption DEF Documents
  <2> HIDE DEF draft, imported
  <2>11. shown \in DOMAIN revisions' /\ Repeats(revisions'[shown], imported)
    BY <2>5, <2>7, <2>8, <2>10, ImportShows
  <2>12. MayShow(r, {shown}, imported)
    BY <1>2, <2>11 DEF MayShow
  <2>13. AnswerStep(r, {200, 201})
    BY <2>1, <2>6, <2>11, <2>12 DEF AnswerStep
  <2> QED BY <1>2, <2>9, <2>13 DEF WriteStep
<1>3. \/ Refuse(r, 403) \/ RefuseInvalid(r) \/ Refuse(r, 409)
      \/ /\ CanIngest(Principal(r))
         /\ valid
         /\ \/ /\ Store!UpsertUnchangedSource(draft)
               /\ AnswerWith(r, 200, {latest}, imported)
            \/ /\ Store!UpsertChangedSource(draft, FreshRevision)
               /\ AnswerWith(r, 200, {FreshRevision}, imported)
  BY Zenon DEF PutSource
<1> QED BY <1>1, <1>2, <1>3

\* A handler reads, or it writes once; either way it answers.
LEMMA HandlerEffect ==
    ASSUME IInv, NEW r \in Requests, Handle(r)
    PROVE  ReadStep(r) \/ WriteStep(r)
<1>0. request[r].step = "resolved"
  BY DEF Handle
<1>1. CASE ShowPrincipal(r) \/ RefuseInvalid(r) \/ StoreFails(r)
  BY <1>1, RefusalReads DEF ShowPrincipal, RefuseInvalid, StoreFails, Statuses
<1>2. CASE \E key \in SentKeys, canonical \in SentLanguages, language \in SentLanguages,
              base \in {None} \cup DOMAIN revisions, body \in Bodies :
                 Propose(r, key, canonical, language, base, body)
  BY <1>0, <1>2, ProposeEffect
<1>3. CASE \E p \in 1 .. Cardinality(Requests), decision \in {"accept", "reject"} :
              Review(r, p, decision)
  BY <1>0, <1>3, ReviewEffect
<1>4. CASE \E key \in SentKeys, language \in SentLanguages : GetPage(r, key, language)
  BY <1>4, GetPageEffect
<1>5. CASE \E language \in SentLanguages : Search(r, language)
  BY <1>5, SearchEffect
<1>6. CASE \E key \in SentKeys, canonical \in SentLanguages, language \in SentLanguages,
              body \in Bodies, visibility \in Store!Visibilities,
              source \in Sources, commit \in Commits :
                 PutSource(r, key, canonical, language, body, visibility, source, commit)
  BY <1>0, <1>6, PutSourceEffect
<1> QED BY <1>1, <1>2, <1>3, <1>4, <1>5, <1>6, Zenon DEF Handle

-----------------------------------------------------------------------------
(* The store keeps what is proved of it, and runs as it specifies.         *)

\* What a write does is an operation of the store.
LEMMA WriteIsOperation ==
    ASSUME IInv, NEW r \in Requests, request[r].step = "resolved", WriteStep(r)
    PROVE  Proved!Next
<1>1. Principal(r).actor \in People
  BY DEF IInv, Authenticated, Principal, Principals
<1>2. FreshProposal \in 1 .. Cardinality(Requests)
  BY FreshProposalLeft
<1>3. CASE ReviewStep(Principal(r).actor)
  BY <1>1, <1>2, <1>3 DEF ReviewStep, Proved!Next
<1>4. CASE ImportStep(Principal(r).actor)
  BY <1>4 DEF ImportStep, Proved!Next
<1> QED BY <1>3, <1>4 DEF WriteStep

\* What is kept of a request.
RequestRows == [step : Steps, principal : Principals \cup {None}]

\* What is kept of the last answer.
AnswerRows == [status : Statuses, shown : SUBSET DOMAIN revisions,
               imported : Documents \cup {None}]

\* A request on its way to a handler: nothing is read, written or shown.
EarlyStep(r) ==
    /\ UNCHANGED store
    /\ request[r].step \in {"idle", "arrived"}
    /\ request' \in [Requests -> RequestRows]
    /\ request'[r].step = "resolved" => request'[r].principal \in Principals
    /\ \A s \in Requests \ {r} : request'[s] = request[s]
    /\ answer' \in AnswerRows

\* What every step does to the requests and the store.
LEMMA StepEffect ==
    ASSUME IInv, Next
    PROVE  \E r \in Requests :
              \/ EarlyStep(r)
              \/ request[r].step = "resolved" /\ (ReadStep(r) \/ WriteStep(r))
<1>1. PICK r \in Requests : Arrive(r) \/ ResolveLocally(r) \/ IdentityAnswers(r)
                            \/ IdentityTimesOut(r) \/ Handle(r)
  BY DEF Next
<1>2. /\ request[r] \in RequestRows /\ request \in [Requests -> RequestRows]
      /\ answer \in AnswerRows
  BY DEF IInv, NormalisedTypeOK, RequestRows, AnswerRows
<1>3. ASSUME NEW status \in Statuses, request[r].step = "arrived", Refuse(r, status)
      PROVE  EarlyStep(r)
  <2>1. [step |-> "answered", principal |-> None] \in RequestRows
    BY DEF RequestRows, Steps
  <2>2. [status |-> status, shown |-> {}, imported |-> None] \in AnswerRows
    BY DEF AnswerRows
  <2> QED BY <1>2, <1>3, <2>1, <2>2 DEF Refuse, Answer, AnswerWith, EarlyStep
<1>4. ASSUME NEW actor \in People, NEW subject \in People,
             request[r].step = "arrived", Resolved(r, actor, subject)
      PROVE  EarlyStep(r)
  <2> DEFINE principal == [actor |-> actor, subject |-> subject]
             row == [request[r] EXCEPT !.step = "resolved", !.principal = principal]
  <2>1. principal \in Principals
    BY DEF Principals
  <2>2. row \in RequestRows /\ row.step = "resolved" /\ row.principal = principal
    BY <1>2, <2>1 DEF RequestRows, Steps
  <2>3. /\ request'[r] = row
        /\ request' \in [Requests -> {row} \cup RequestRows]
        /\ \A s \in Requests \ {r} : request'[s] = request[s]
    BY <1>2, <1>4 DEF Resolved
  <2>4. request' \in [Requests -> RequestRows]
    BY <1>2, <2>2, <2>3
  <2>5. UNCHANGED store /\ answer' = answer
    BY <1>4 DEF Resolved
  <2> HIDE DEF principal, row
  <2> QED BY <1>2, <1>4, <2>1, <2>2, <2>3, <2>4, <2>5 DEF EarlyStep
<1>5. CASE Arrive(r)
  <2> DEFINE row == [request[r] EXCEPT !.step = "arrived"]
  <2>1. row \in RequestRows /\ row.step = "arrived"
    BY <1>2 DEF RequestRows, Steps
  <2>2. /\ request'[r] = row
        /\ request' \in [Requests -> {row} \cup RequestRows]
        /\ \A s \in Requests \ {r} : request'[s] = request[s]
    BY <1>2, <1>5 DEF Arrive
  <2>3. request' \in [Requests -> RequestRows]
    BY <2>1, <2>2
  <2>4. UNCHANGED store /\ request[r].step = "idle" /\ answer' = answer
    BY <1>5 DEF Arrive, store
  <2> HIDE DEF row
  <2> QED BY <1>2, <2>1, <2>2, <2>3, <2>4 DEF EarlyStep
<1>6. CASE ResolveLocally(r)
  <2>1. request[r].step = "arrived"
    BY <1>6 DEF ResolveLocally
  <2>2. CASE Refuse(r, 401)
    BY <1>3, <2>1, <2>2 DEF Statuses
  <2>3. CASE \E name \in SentNames :
                ~Blank(name) /\ Resolved(r, TrimSpace(name), TrimSpace(name))
    BY <1>4, <2>1, <2>3, SpellingAssumption, TrimmedIsPerson
  <2> QED BY <1>6, <2>2, <2>3 DEF ResolveLocally
<1>7. CASE IdentityAnswers(r)
  <2>1. request[r].step = "arrived"
    BY <1>7 DEF IdentityAnswers
  <2>2. CASE \E status \in {401, 403, 503} : Refuse(r, status)
    BY <1>3, <2>1, <2>2 DEF Statuses
  <2>3. CASE \E identity \in Identities :
                /\ ~Blank(identity.actor) /\ ~Blank(identity.subject)
                /\ Resolved(r, TrimSpace(identity.actor), TrimSpace(identity.subject))
    <3>1. PICK identity \in Identities :
                /\ ~Blank(identity.actor) /\ ~Blank(identity.subject)
                /\ Resolved(r, TrimSpace(identity.actor), TrimSpace(identity.subject))
      BY <2>3
    <3>2. identity.actor \in SpelledNames /\ identity.subject \in SpelledNames
      BY SpellingAssumption
    <3>3. TrimSpace(identity.actor) \in People /\ TrimSpace(identity.subject) \in People
      BY <3>1, <3>2, TrimmedIsPerson
    <3> QED BY <1>4, <2>1, <3>1, <3>3
  <2>4. \/ \E status \in {401, 403, 503} : Refuse(r, status)
        \/ Refuse(r, 503)
        \/ \E identity \in Identities :
                /\ ~Blank(identity.actor) /\ ~Blank(identity.subject)
                /\ Resolved(r, TrimSpace(identity.actor), TrimSpace(identity.subject))
    BY <1>7, Zenon DEF IdentityAnswers
  <2> QED BY <2>2, <2>3, <2>4
<1>8. CASE IdentityTimesOut(r)
  BY <1>3, <1>8 DEF IdentityTimesOut, Statuses
<1>9. CASE Handle(r)
  <2>1. request[r].step = "resolved"
    BY <1>9 DEF Handle
  <2> QED BY <1>9, <2>1, HandlerEffect
<1> QED BY <1>1, <1>5, <1>6, <1>7, <1>8, <1>9

\* One operation adds a proposal, and none takes one away.
LEMMA WriteGrows ==
    ASSUME IInv, NEW r \in Requests, request[r].step = "resolved", WriteStep(r)
    PROVE  \/ DOMAIN proposals' = DOMAIN proposals
           \/ DOMAIN proposals' = DOMAIN proposals \cup {FreshProposal}
<1>1. CASE \E draft \in Proved!Drafts : Proved!CreateProposal(FreshProposal, draft)
  BY <1>1 DEF Proved!CreateProposal
<1>2. CASE \E p \in 1 .. Cardinality(Requests) :
              Proved!RejectProposal(p, Principal(r).actor)
  BY <1>2 DEF Proved!RejectProposal, Proved!Decide
<1>3. CASE \E p \in 1 .. Cardinality(Requests), id \in 1 .. Cardinality(Requests) :
              Proved!AcceptProposal(p, Principal(r).actor, id)
  BY <1>3 DEF Proved!AcceptProposal, Proved!Decide
<1>4. CASE \E draft \in Proved!SourceDrafts : Proved!UpsertUnchangedSource(draft)
  BY <1>4 DEF Proved!UpsertUnchangedSource
<1>5. CASE \E draft \in Proved!SourceDrafts, id \in 1 .. Cardinality(Requests) :
              Proved!UpsertChangedSource(draft, id)
  BY <1>5 DEF Proved!UpsertChangedSource
<1> QED BY <1>1, <1>2, <1>3, <1>4, <1>5 DEF WriteStep, ReviewStep, ImportStep

\* An answer ends one request and touches no other.
LEMMA AnswerEffect ==
    ASSUME IInv, NEW r \in Requests, NEW statuses \in SUBSET Statuses,
           AnswerStep(r, statuses)
    PROVE  /\ request' \in [Requests -> RequestRows]
           /\ request'[r].step = "answered"
           /\ \A s \in Requests \ {r} : request'[s] = request[s]
           /\ answer' \in AnswerRows'
           /\ answer'.status \in statuses
           /\ MayShow(r, answer'.shown, answer'.imported)
           /\ Authenticated'
           /\ Answered' = Answered \cup {r}
<1> DEFINE row == [step |-> "answered", principal |-> None]
<1>1. request \in [Requests -> RequestRows]
  BY DEF IInv, NormalisedTypeOK, RequestRows
<1>2. row \in RequestRows
  BY DEF RequestRows, Steps
<1>3. PICK status \in statuses, shown \in SUBSET DOMAIN revisions',
           imported \in Documents \cup {None} :
              AnswerWith(r, status, shown, imported) /\ MayShow(r, shown, imported)
  BY DEF AnswerStep
<1>4. /\ request' \in [Requests -> RequestRows]
      /\ request'[r] = row
      /\ \A s \in Requests \ {r} : request'[s] = request[s]
  BY <1>1, <1>2, <1>3 DEF AnswerWith
<1>5. answer' = [status |-> status, shown |-> shown, imported |-> imported]
  BY <1>3 DEF AnswerWith
<1>6. answer' \in AnswerRows'
  BY <1>5 DEF AnswerRows
<1>7. /\ answer'.status = status
      /\ answer'.shown = shown /\ answer'.imported = imported
  BY <1>5
<1>8. Authenticated'
  BY <1>4 DEF IInv, Authenticated
<1>9. Answered' = Answered \cup {r}
  BY <1>4 DEF Answered
<1> QED BY <1>3, <1>4, <1>6, <1>7, <1>8, <1>9

\* A request that is answered makes room for its proposal.
LEMMA RoomForOne ==
    ASSUME IInv, NEW r \in Requests, request[r].step # "answered",
           Answered' = Answered \cup {r}, NEW p,
           \/ DOMAIN proposals' = DOMAIN proposals
           \/ DOMAIN proposals' = DOMAIN proposals \cup {p}
    PROVE  IdentifiersLeft'
<1>1. IsFiniteSet(Requests) /\ Cardinality(Requests) \in Nat
  BY RequestsAssumption, FS_CardinalityType
<1>2. Answered \in SUBSET Requests /\ r \notin Answered
  BY DEF Answered
<1>3. IsFiniteSet(Answered) /\ Cardinality(Answered) \in Nat
  BY <1>1, <1>2, FS_Subset, FS_CardinalityType
<1>4. Cardinality(Answered \cup {r}) = Cardinality(Answered) + 1
  BY <1>2, <1>3, FS_AddElement
<1>5. DOMAIN proposals \in SUBSET (1 .. Cardinality(Requests))
  BY DEF IInv, Proved!IInv, Proved!TypeOK
<1>6. IsFiniteSet(1 .. Cardinality(Requests))
  BY <1>1, FS_Interval
<1>7. IsFiniteSet(DOMAIN proposals) /\ Cardinality(DOMAIN proposals) \in Nat
  BY <1>5, <1>6, FS_Subset, FS_CardinalityType
<1>8. Cardinality(DOMAIN proposals \cup {p})
         \in {Cardinality(DOMAIN proposals), Cardinality(DOMAIN proposals) + 1}
  BY <1>7, FS_AddElement
<1>9. Cardinality(DOMAIN proposals)' <= Cardinality(DOMAIN proposals) + 1
  BY <1>7, <1>8
<1>10. Cardinality(Answered)' = Cardinality(Answered) + 1
  BY <1>4
<1>11. Cardinality(DOMAIN proposals)' \in Nat
  BY <1>7, <1>8
<1>12. Cardinality(DOMAIN proposals) <= Cardinality(Answered)
  BY DEF IInv, IdentifiersLeft
<1>13. Cardinality(DOMAIN proposals)' <= Cardinality(Answered)'
  BY <1>3, <1>7, <1>9, <1>10, <1>11, <1>12
<1> QED BY <1>13 DEF IdentifiersLeft

\* The invariant is inductive.
LEMMA InitIInv == Init => IInv
<1> SUFFICES ASSUME Init
             PROVE  IInv
  OBVIOUS
<1>1. Proved!IInv
  BY StoreAssumption, SameTypes, Proved!InitIInv DEF Init
<1>2. NormalisedTypeOK
  BY <1>1, SameTypes DEF Init, NormalisedTypeOK, Proved!IInv, Steps, Statuses
<1>3. Authenticated
  BY DEF Init, Authenticated
<1>4. DOMAIN proposals = {}
  BY DEF Init, Store!Init
<1>5. Answered = {}
  BY DEF Init, Answered
<1>6. IdentifiersLeft
  BY <1>4, <1>5, FS_EmptySet DEF IdentifiersLeft
<1>7. ReviewedShared
  BY DEF Init, Store!Init, ReviewedShared
<1> QED BY <1>1, <1>2, <1>3, <1>6, <1>7 DEF IInv

\* No operation makes a reviewed page that is not shared, or one of a source page.
LEMMA WriteKeepsShared ==
    ASSUME IInv, NEW r \in Requests, request[r].step = "resolved", WriteStep(r)
    PROVE  ReviewedShared'
<1>1. Principal(r).actor \in People
  BY DEF IInv, Authenticated, Principal, Principals
<1>2. CASE UNCHANGED pages
  BY <1>2 DEF IInv, ReviewedShared
<1>3. ASSUME NEW p \in 1 .. Cardinality(Requests), NEW id \in 1 .. Cardinality(Requests),
             Proved!AcceptProposal(p, Principal(r).actor, id)
      PROVE  ReviewedShared'
  <2>1. PICK key :
           /\ DOMAIN pages' = DOMAIN pages \cup {key}
           /\ pages'[key].kind = "reviewed" /\ pages'[key].visibility = "shared"
           /\ \A k \in DOMAIN pages : k # key => pages'[k] = pages[k]
    BY <1>1, <1>3, AcceptWrites
  <2> QED BY <2>1 DEF IInv, ReviewedShared
<1>4. ASSUME NEW draft \in Proved!SourceDrafts,
             \/ Proved!UpsertUnchangedSource(draft)
             \/ \E id \in 1 .. Cardinality(Requests) : Proved!UpsertChangedSource(draft, id)
      PROVE  ReviewedShared'
  <2>1. /\ DOMAIN pages' = DOMAIN pages \cup {draft.key}
        /\ pages'[draft.key].kind = "source"
        /\ \A k \in DOMAIN pages : k # draft.key => pages'[k] = pages[k]
    BY <1>4, ImportWritesPage
  <2> QED BY <2>1 DEF IInv, ReviewedShared
<1>5. ASSUME NEW draft, Proved!CreateProposal(FreshProposal, draft)
      PROVE  UNCHANGED pages
  BY <1>5 DEF Proved!CreateProposal
<1>6. ASSUME NEW p, Proved!RejectProposal(p, Principal(r).actor)
      PROVE  UNCHANGED pages
  BY <1>6 DEF Proved!RejectProposal
<1> QED BY <1>2, <1>3, <1>4, <1>5, <1>6 DEF WriteStep, ReviewStep, ImportStep

\* Every step keeps it.
LEMMA NextIInv == IInv /\ [Next]_vars => IInv'
<1> SUFFICES ASSUME IInv, [Next]_vars
             PROVE  IInv'
  OBVIOUS
<1>1. ASSUME UNCHANGED store
      PROVE  /\ Proved!IInv'
             /\ ReviewedShared'
             /\ AnswerRows' = AnswerRows
             /\ DOMAIN proposals' = DOMAIN proposals
  <2>1. UNCHANGED Proved!vars
    BY <1>1 DEF store, Proved!vars
  <2>2. Proved!IInv'
    BY <2>1, StoreAssumption, Proved!NextIInv DEF IInv
  <2>3. ReviewedShared'
    BY <1>1 DEF store, IInv, ReviewedShared
  <2> QED BY <1>1, <2>2, <2>3 DEF store, AnswerRows
<1>2. UNCHANGED provider
  BY DEF Next, Arrive, ResolveLocally, IdentityAnswers, IdentityTimesOut, Handle, vars
<1>3. ASSUME request' \in [Requests -> RequestRows], answer' \in AnswerRows', Proved!IInv'
      PROVE  NormalisedTypeOK'
  <2>1. Store!TypeOK'
    BY <1>3, SameTypes, PTL DEF Proved!IInv
  <2> QED BY <1>2, <1>3, <2>1 DEF IInv, NormalisedTypeOK, RequestRows, AnswerRows
<1>4. CASE UNCHANGED vars
  <2>1. UNCHANGED store /\ request' = request /\ answer' = answer
    BY <1>4 DEF vars
  <2>2. request' \in [Requests -> RequestRows] /\ answer' \in AnswerRows'
    BY <1>1, <2>1 DEF IInv, NormalisedTypeOK, RequestRows, AnswerRows
  <2>3. Authenticated' /\ IdentifiersLeft'
    BY <1>1, <2>1 DEF IInv, Authenticated, IdentifiersLeft, Answered
  <2> QED BY <1>1, <1>3, <2>1, <2>2, <2>3 DEF IInv
<1>5. ASSUME NEW r \in Requests, EarlyStep(r)
      PROVE  IInv'
  <2>1. UNCHANGED store /\ request[r].step \in {"idle", "arrived"}
    BY <1>5 DEF EarlyStep
  <2>2. request' \in [Requests -> RequestRows] /\ answer' \in AnswerRows'
    BY <1>1, <1>5, <2>1 DEF EarlyStep
  <2>3. Authenticated'
    BY <1>5 DEF EarlyStep, IInv, Authenticated
  <2>4. Answered' = Answered \/ Answered' = Answered \cup {r}
    BY <1>5, <2>1 DEF EarlyStep, Answered
  <2>5. IdentifiersLeft'
    <3>1. CASE Answered' = Answered
      BY <1>1, <2>1, <3>1 DEF IInv, IdentifiersLeft
    <3>2. CASE Answered' = Answered \cup {r}
      BY <1>1, <2>1, <3>2, RoomForOne
    <3> QED BY <2>4, <3>1, <3>2
  <2> QED BY <1>1, <1>3, <2>1, <2>2, <2>3, <2>5 DEF IInv
<1>6. ASSUME NEW r \in Requests, request[r].step = "resolved", ReadStep(r)
      PROVE  IInv'
  <2>1. UNCHANGED store /\ AnswerStep(r, Statuses)
    BY <1>6 DEF ReadStep
  <2>2. /\ request' \in [Requests -> RequestRows]
        /\ answer' \in AnswerRows'
        /\ Authenticated'
        /\ Answered' = Answered \cup {r}
    BY <2>1, AnswerEffect
  <2>3. IdentifiersLeft'
    BY <1>1, <1>6, <2>1, <2>2, RoomForOne
  <2> QED BY <1>1, <1>3, <2>1, <2>2, <2>3 DEF IInv
<1>7. ASSUME NEW r \in Requests, request[r].step = "resolved", WriteStep(r)
      PROVE  IInv'
  <2>1. Proved!Next
    BY <1>7, WriteIsOperation
  <2>2. Proved!IInv'
    BY <2>1, StoreAssumption, Proved!NextIInv DEF IInv
  <2>3. \/ DOMAIN proposals' = DOMAIN proposals
        \/ DOMAIN proposals' = DOMAIN proposals \cup {FreshProposal}
    BY <1>7, WriteGrows
  <2>4. ReviewedShared'
    BY <1>7, WriteKeepsShared
  <2>5. AnswerStep(r, {200, 201}) /\ {200, 201} \in SUBSET Statuses
    BY <1>7 DEF WriteStep, Statuses
  <2>6. /\ request' \in [Requests -> RequestRows]
        /\ answer' \in AnswerRows'
        /\ Authenticated'
        /\ Answered' = Answered \cup {r}
    BY <2>5, AnswerEffect
  <2>7. IdentifiersLeft'
    <3>1. PICK p : \/ DOMAIN proposals' = DOMAIN proposals
                     \/ DOMAIN proposals' = DOMAIN proposals \cup {p}
      BY <2>3
    <3>2. request[r].step # "answered" /\ Answered' = Answered \cup {r}
      BY <1>7, <2>6
    <3>3. CASE DOMAIN proposals' = DOMAIN proposals
      BY <3>2, <3>3, RoomForOne
    <3>4. CASE DOMAIN proposals' = DOMAIN proposals \cup {p}
      BY <3>2, <3>4, RoomForOne
    <3> QED BY <3>1, <3>3, <3>4
  <2> QED BY <1>3, <2>2, <2>4, <2>6, <2>7 DEF IInv
<1> QED BY <1>4, <1>5, <1>6, <1>7, StepEffect

-----------------------------------------------------------------------------
(* Theorems.                                                               *)

\* The invariant holds in every reachable state.
LEMMA Invariance == Spec => []IInv
<1> QED BY InitIInv, NextIInv, PTL DEF Spec

\* Requests and tables hold what they may: whatever the spelling of a key, a
\* language or a name, the store gets normalised ones (prepareProposal,
\* prepareSourceDocument, TrimSpace in the resolvers).
THEOREM TypeCorrect == Spec => []NormalisedTypeOK
<1>1. IInv => NormalisedTypeOK
  BY DEF IInv
<1> QED BY <1>1, Invariance, PTL

\* An operation records what it did under the name it was given.
LEMMA EventsName ==
    ASSUME IInv, NEW r \in Requests, request[r].step = "resolved", WriteStep(r)
    PROVE  \A event \in events' \ events : event.actor = Principal(r).actor
<1> DEFINE actor == Principal(r).actor
<1>1. ASSUME NEW draft, draft.proposer = actor,
             Proved!CreateProposal(FreshProposal, draft)
      PROVE  \A event \in events' \ events : event.actor = actor
  BY <1>1 DEF Proved!CreateProposal, Proved!Record, Proved!Event
<1>2. ASSUME NEW p, Proved!RejectProposal(p, actor)
      PROVE  \A event \in events' \ events : event.actor = actor
  BY <1>2 DEF Proved!RejectProposal, Proved!Record, Proved!Event
<1>3. ASSUME NEW p, NEW id, Proved!AcceptProposal(p, actor, id)
      PROVE  \A event \in events' \ events : event.actor = actor
  BY <1>3 DEF Proved!AcceptProposal, Proved!PublishProposal, Proved!Record, Proved!Event
<1>4. ASSUME NEW draft, Proved!UpsertUnchangedSource(draft)
      PROVE  \A event \in events' \ events : event.actor = actor
  BY <1>4 DEF Proved!UpsertUnchangedSource
<1>5. ASSUME NEW draft, NEW id, draft.importer = actor,
             Proved!UpsertChangedSource(draft, id)
      PROVE  \A event \in events' \ events : event.actor = actor
  BY <1>5 DEF Proved!UpsertChangedSource, Proved!Record, Proved!Event
<1>6. CASE ReviewStep(actor)
  BY <1>1, <1>2, <1>3, <1>6 DEF ReviewStep
<1>7. CASE ImportStep(actor)
  BY <1>4, <1>5, <1>7 DEF ImportStep
<1> QED BY <1>6, <1>7 DEF WriteStep

\* What a write answers.
LEMMA WriteAnswers ==
    ASSUME IInv, NEW r \in Requests, request[r].step = "resolved", WriteStep(r)
    PROVE  /\ request'[r].step = "answered"
           /\ answer'.status \in {200, 201}
           /\ MayShow(r, answer'.shown, answer'.imported)
           /\ \A s \in Requests \ {r} : request'[s] = request[s]
<1>1. AnswerStep(r, {200, 201}) /\ {200, 201} \in SUBSET Statuses
  BY DEF WriteStep, Statuses
<1> QED BY <1>1, AnswerEffect

\* Whatever changes the store is one authenticated request, which is told so and
\* named; one that is told anything else changed nothing: authenticate and each
\* handler of internal/httpapi, for any mix of concurrent requests.
THEOREM EveryChangeHasARequest == Spec => ChangesAreAccountedFor
<1> DEFINE Step ==
        store' # store =>
          \E r \in Requests :
             /\ Answers(r)
             /\ answer'.status \in {200, 201}
             /\ \A event \in events' \ events : event.actor = request[r].principal.actor
             /\ \A s \in Requests \ {r} : request'[s] = request[s]
<1>1. IInv /\ [Next]_vars => [Step]_vars
  <2> SUFFICES ASSUME IInv, Next, store' # store
               PROVE  \E r \in Requests :
                 /\ Answers(r)
                 /\ answer'.status \in {200, 201}
                 /\ \A event \in events' \ events : event.actor = request[r].principal.actor
                 /\ \A s \in Requests \ {r} : request'[s] = request[s]
    OBVIOUS
  <2>1. PICK r \in Requests : request[r].step = "resolved" /\ WriteStep(r)
    BY StepEffect DEF EarlyStep, ReadStep
  <2>2. /\ Answers(r)
        /\ answer'.status \in {200, 201}
        /\ \A s \in Requests \ {r} : request'[s] = request[s]
    BY <2>1, WriteAnswers DEF Answers
  <2>3. \A event \in events' \ events : event.actor = request[r].principal.actor
    BY <2>1, EventsName DEF Principal
  <2> QED BY <2>2, <2>3
<1> QED BY <1>1, Invariance, PTL DEF Spec, ChangesAreAccountedFor

\* An answer carries a revision of a restricted page only to a subject of
\* KC_RESTRICTED_SUBJECTS, whatever an import in any language does to the visibility
\* of the page meanwhile, unless it repeats to an importer the document that the
\* importer has sent with the request (canReadRestricted, GetPublishedVisible,
\* SearchVisible, reviewProposal, putSourceDocument).
THEOREM RestrictedStaysRestricted == Spec => RestrictedOnlyToListed
<1> DEFINE Step ==
        \A r \in Requests : Answers(r) =>
          \A i \in answer'.shown :
             \/ pages'[revisions'[i].key].visibility = "shared"
             \/ Grants(RestrictedList, request[r].principal)
             \/ /\ Grants(IngestList, request[r].principal)
                /\ Repeats(revisions'[i], answer'.imported)
<1>1. IInv /\ [Next]_vars => [Step]_vars
  <2> SUFFICES ASSUME IInv, Next, NEW r \in Requests, Answers(r),
                      NEW i \in answer'.shown
               PROVE  \/ pages'[revisions'[i].key].visibility = "shared"
                      \/ Grants(RestrictedList, request[r].principal)
                      \/ /\ Grants(IngestList, request[r].principal)
                         /\ Repeats(revisions'[i], answer'.imported)
    OBVIOUS
  <2>1. request[r].step = "resolved" /\ request'[r].step = "answered"
    BY DEF Answers
  <2>2. PICK s \in Requests :
           \/ EarlyStep(s)
           \/ request[s].step = "resolved" /\ (ReadStep(s) \/ WriteStep(s))
    BY StepEffect
  <2>3. request[s].step = "resolved" /\ (ReadStep(s) \/ WriteStep(s))
    BY <2>1, <2>2 DEF EarlyStep
  <2>4. /\ MayShow(s, answer'.shown, answer'.imported)
        /\ \A q \in Requests \ {s} : request'[q] = request[q]
    <3>1. CASE ReadStep(s)
      BY <3>1, AnswerEffect DEF ReadStep
    <3>2. CASE WriteStep(s)
      BY <2>3, <3>2, WriteAnswers
    <3> QED BY <2>3, <3>1, <3>2
  <2>5. s = r
    BY <2>1, <2>4
  <2>6. /\ CanReadRestricted(Principal(r)) => Grants(RestrictedList, request[r].principal)
        /\ CanIngest(Principal(r)) => Grants(IngestList, request[r].principal)
    BY SpellingAssumption, ListedIsGranted DEF CanReadRestricted, CanIngest, Principal
  <2> QED BY <2>4, <2>5, <2>6 DEF MayShow
<1> QED BY <1>1, Invariance, PTL DEF Spec, RestrictedOnlyToListed

\* The antecedent of ImportsOnlyByListed: something of a source page moves.
Imports ==
    \E i \in DOMAIN revisions' :
        /\ pages'[revisions'[i].key].kind = "source"
        /\ \/ i \notin DOMAIN revisions
           \/ revisions[i].commit # revisions'[i].commit
           \/ pages[revisions[i].key] # pages'[revisions[i].key]

\* The review workflow moves nothing of a source page.
LEMMA ReviewsImportNothing ==
    ASSUME IInv, NEW actor \in People, ReviewStep(actor)
    PROVE  ~Imports
<1>1. CASE UNCHANGED <<pages, revisions>>
  BY <1>1 DEF Imports
<1>2. ASSUME NEW p \in 1 .. Cardinality(Requests), NEW id \in 1 .. Cardinality(Requests),
             Proved!AcceptProposal(p, actor, id)
      PROVE  ~Imports
  <2>1. PICK key :
           /\ pages'[key].kind = "reviewed"
           /\ \A k \in DOMAIN pages : k # key => pages'[k] = pages[k]
           /\ DOMAIN revisions' = DOMAIN revisions \cup {id}
           /\ revisions'[id].key = key
           /\ \A i \in DOMAIN revisions :
                 /\ revisions'[i] = [revisions[i] EXCEPT !.status = revisions'[i].status]
                 /\ revisions'[i].key = revisions[i].key
    BY <1>2, AcceptWrites
  <2>2. \A i \in DOMAIN revisions :
           revisions[i] \in Proved!RevisionRows /\ revisions[i].key \in DOMAIN pages
    BY DEF IInv, Proved!IInv, Proved!TypeOK
  <2>3. \A i \in DOMAIN revisions : revisions'[i].commit = revisions[i].commit
    BY <2>1, <2>2 DEF Proved!RevisionRows
  <2>4. SUFFICES ASSUME NEW i \in DOMAIN revisions',
                        pages'[revisions'[i].key].kind = "source",
                        \/ i \notin DOMAIN revisions
                        \/ revisions[i].commit # revisions'[i].commit
                        \/ pages[revisions[i].key] # pages'[revisions[i].key]
                 PROVE  FALSE
    BY DEF Imports
  <2>5. revisions'[i].key # key
    BY <2>1, <2>4
  <2>6. i \in DOMAIN revisions
    BY <2>1, <2>4, <2>5
  <2> QED BY <2>1, <2>2, <2>3, <2>4, <2>5, <2>6
<1>3. ASSUME NEW draft, Proved!CreateProposal(FreshProposal, draft)
      PROVE  UNCHANGED <<pages, revisions>>
  BY <1>3 DEF Proved!CreateProposal
<1>4. ASSUME NEW p, Proved!RejectProposal(p, actor)
      PROVE  UNCHANGED <<pages, revisions>>
  BY <1>4 DEF Proved!RejectProposal
<1> QED BY <1>1, <1>2, <1>3, <1>4 DEF ReviewStep

\* Something of a source page moves only through a subject of KC_INGEST_SUBJECTS
\* (putSourceDocument asks canIngest first; the review workflow refuses a source
\* page).
THEOREM ImportersAreListed == Spec => ImportsOnlyByListed
<1> DEFINE Step ==
        Imports => \E r \in Requests : Answers(r) /\ Grants(IngestList, request[r].principal)
<1>1. IInv /\ [Next]_vars => [Step]_vars
  <2> SUFFICES ASSUME IInv, Next, Imports
               PROVE  \E r \in Requests :
                         Answers(r) /\ Grants(IngestList, request[r].principal)
    OBVIOUS
  <2>1. store' # store
    BY DEF Imports, store
  <2>2. PICK r \in Requests : request[r].step = "resolved" /\ WriteStep(r)
    BY <2>1, StepEffect DEF EarlyStep, ReadStep
  <2>3. Principal(r).actor \in People
    BY <2>2 DEF IInv, Authenticated, Principal, Principals
  <2>4. CanIngest(Principal(r))
    BY <2>2, <2>3, ReviewsImportNothing DEF WriteStep
  <2>5. Grants(IngestList, request[r].principal)
    BY <2>4, SpellingAssumption, ListedIsGranted DEF CanIngest, Principal
  <2>6. Answers(r)
    BY <2>2, WriteAnswers DEF Answers
  <2> QED BY <2>5, <2>6
<1> QED BY <1>1, Invariance, PTL DEF Spec, ImportsOnlyByListed, Imports

\* An operation of the store, or none, is what a step is to it.
LEMMA StoreStep == IInv /\ [Next]_vars => [Proved!Next]_(Proved!vars)
<1> SUFFICES ASSUME IInv, [Next]_vars, Proved!vars' # Proved!vars
             PROVE  Proved!Next
  OBVIOUS
<1>1. store' # store
  BY DEF store, Proved!vars
<1>2. Next
  BY <1>1 DEF vars
<1>3. PICK r \in Requests : request[r].step = "resolved" /\ WriteStep(r)
  BY <1>1, <1>2, StepEffect DEF EarlyStep, ReadStep
<1> QED BY <1>3, WriteIsOperation

\* The theorems about the store hold behind the API.
LEMMA ProvedIsDriven == Spec => Proved!Spec
<1>1. Init => Proved!Init
  BY DEF Init, Store!Init, Proved!Init
<1> QED BY <1>1, StoreStep, Invariance, PTL DEF Spec, Proved!Spec

\* Behind the API the store runs as SqliteStore specifies it, on one spelling of
\* each key and language and on authenticated actors: what is checked and proved
\* of the store holds of it there.
THEOREM StoreIsDriven == Spec => Store!Spec
<1>1. Init => Store!Init
  BY DEF Init
<1>2. [Proved!Next]_(Proved!vars) => [Store!Next]_(Store!vars)
  BY SameProposing, SameAccepting, SameImporting, SameTypes
     DEF Proved!Next, Store!Next, Proved!vars, Store!vars
<1> QED BY <1>1, <1>2, StoreStep, Invariance, PTL DEF Spec, Store!Spec

\* The first of several reviews wins, and readers are offered one revision, when
\* the reviews are concurrent requests in any spelling (reviewProposal).
THEOREM ReviewsStayExclusive == Spec => [](Store!OnePublished /\ Store!FirstReviewWins)
<1>1. IInv => Store!OnePublished /\ Store!FirstReviewWins
  BY DEF IInv, Proved!IInv, Proved!OnePublished, Proved!FirstReviewWins,
         Store!OnePublished, Store!FirstReviewWins, Proved!SameSlot, Store!SameSlot
<1> QED BY <1>1, Invariance, PTL

\* Whatever requests clients send, translations included, in whatever spelling and
\* order: the revisions
\* of a document in a language are numbered without gap, and those of a reviewed
\* page were each written by one accepted proposal that somebody else reviewed;
\* the event log names whoever did each of these things, and search and lookup
\* offer a reader the same revision (handlers of /v1/proposals and
\* /v1/source-documents over publishProposal and UpsertSource).
THEOREM HistoryBehindApi ==
    Spec => [](/\ Proved!GaplessHistory /\ Proved!ReviewedLineage /\ Proved!KindSeparation
               /\ Proved!AuditTrail /\ Proved!SearchAgreesWithGet)
<1>1. Proved!Spec =>
         [](/\ Proved!GaplessHistory /\ Proved!ReviewedLineage /\ Proved!KindSeparation
            /\ Proved!AuditTrail /\ Proved!SearchAgreesWithGet)
  BY StoreAssumption, Proved!GaplessForever, Proved!LineageReviewed, Proved!KindsSeparate,
     Proved!TrailComplete, Proved!ReadersAgree, PTL
<1> QED BY <1>1, ProvedIsDriven, PTL

\* No request takes back what an earlier one published, decided or logged, and
\* none moves a second document or language with the one it is about (the same
\* handlers).
THEOREM ChangesBehindApi == Spec => Proved!HistoryAppendOnly /\ Proved!TranslationsIndependent
<1>1. Proved!Spec => Proved!HistoryAppendOnly
  BY StoreAssumption, Proved!AppendOnlyForever
<1>2. Proved!Spec => Proved!TranslationsIndependent
  BY StoreAssumption, Proved!OneDocumentAtATime
<1> QED BY <1>1, <1>2, ProvedIsDriven, PTL

\* The API implements the contract of knowledge.Repository (module Commons): seen
\* through histories, owners and requests, a step of any handler is one operation
\* of the contract or nothing.
THEOREM ContractBehindApi == Spec => Proved!RefinesCommons
<1>1. Proved!Spec => Proved!RefinesCommons
  BY StoreAssumption, Proved!ImplementsContract
<1> QED BY <1>1, ProvedIsDriven, PTL

=============================================================================
