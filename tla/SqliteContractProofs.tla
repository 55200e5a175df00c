------------------------- MODULE SqliteContractProofs -------------------------
(***************************************************************************)
(* SqliteStore implements the contract of module Commons.                  *)
(*                                                                         *)
(* The contract sees a history of contents per document and language, an   *)
(* owner per key, and the requests.  By the invariant of                   *)
(* SqliteHistoryProofs the history that the store shows holds, at each     *)
(* number, the content of the revision of that number (HistoryIs).  A step *)
(* that publishes a row therefore appends its body to one history, and the *)
(* others leave all of them alone, an import of a content that is current  *)
(* among them.                                                             *)
(***************************************************************************)
EXTENDS SqliteHistoryProofs, SequenceTheorems

-----------------------------------------------------------------------------
(* The contract.                                                           *)

\* The history of a document holds, at each number, the content of the revision
\* of that number.
HistoryIs ==
    \A k, l :
        /\ HistoryOf(<<k, l>>) \in Seq(Bodies)
        /\ Len(HistoryOf(<<k, l>>)) = NextNumber(Latest(k, l)) - 1
        /\ \A i \in DOMAIN revisions :
              revisions[i].key = k /\ revisions[i].language = l =>
                 /\ revisions[i].number \in 1 .. Len(HistoryOf(<<k, l>>))
                 /\ HistoryOf(<<k, l>>)[revisions[i].number] = revisions[i].body
        /\ \A n \in 1 .. Len(HistoryOf(<<k, l>>)) :
              \E i \in DOMAIN revisions : /\ revisions[i].key = k
                                          /\ revisions[i].language = l
                                          /\ revisions[i].number = n

\* The invariant makes the histories of the contract what HistoryIs says.
LEMMA HistoryFacts == TypeOK /\ HistoryOK => HistoryIs
<1> SUFFICES ASSUME TypeOK, HistoryOK, NEW k, NEW l
             PROVE  /\ HistoryOf(<<k, l>>) \in Seq(Bodies)
                    /\ Len(HistoryOf(<<k, l>>)) = NextNumber(Latest(k, l)) - 1
                    /\ \A i \in DOMAIN revisions :
                          revisions[i].key = k /\ revisions[i].language = l =>
                             /\ revisions[i].number \in 1 .. Len(HistoryOf(<<k, l>>))
                             /\ HistoryOf(<<k, l>>)[revisions[i].number] = revisions[i].body
                    /\ \A n \in 1 .. Len(HistoryOf(<<k, l>>)) :
                          \E i \in DOMAIN revisions : /\ revisions[i].key = k
                                                      /\ revisions[i].language = l
                                                      /\ revisions[i].number = n
  BY DEF HistoryIs
<1> DEFINE len == NextNumber(Latest(k, l)) - 1
           Of(i) == revisions[i].key = k /\ revisions[i].language = l
<1>1. /\ len \in Nat
      /\ \A i \in DOMAIN revisions : Of(i) => revisions[i].number \in 1 .. len
      /\ \A n \in 1 .. len : \E i \in DOMAIN revisions : Of(i) /\ revisions[i].number = n
  <2>1. NextNumber(Latest(k, l)) \in Nat \ {0}
    BY NextNumberIsNew
  <2> QED BY <2>1, NextNumberIsNew
<1>2. \A i, j \in DOMAIN revisions :
         Of(i) /\ Of(j) /\ revisions[i].number = revisions[j].number => i = j
  BY DEF HistoryOK, NumbersUnique, SameSlot
<1>3. ASSUME NEW i \in DOMAIN revisions, Of(i)
      PROVE  BodyOf(<<k, l>>, revisions[i].number) = revisions[i].body
  <2> DEFINE Sought(j) == /\ SlotOf(revisions[j].key, revisions[j].language) = <<k, l>>
                          /\ revisions[j].number = revisions[i].number
  <2>1. \A j : Sought(j) <=> Of(j) /\ revisions[j].number = revisions[i].number
    BY DEF SlotOf
  <2>2. (CHOOSE j \in DOMAIN revisions : Sought(j)) = i
    <3>1. Sought(i) /\ \A j \in DOMAIN revisions : Sought(j) => j = i
      BY <1>2, <1>3, <2>1
    <3> HIDE DEF Sought
    <3> QED BY <3>1
  <2> QED BY <2>2 DEF BodyOf
<1>4. HistoryOf(<<k, l>>) = [n \in 1 .. len |-> BodyOf(<<k, l>>, n)]
  BY DEF HistoryOf
<1> HIDE DEF len
<1>5. \A i \in DOMAIN revisions :
         Of(i) => HistoryOf(<<k, l>>)[revisions[i].number] = revisions[i].body
  BY <1>1, <1>3, <1>4
<1>6. \A n \in 1 .. len : BodyOf(<<k, l>>, n) \in Bodies
  <2> SUFFICES ASSUME NEW n \in 1 .. len PROVE BodyOf(<<k, l>>, n) \in Bodies
    OBVIOUS
  <2>1. PICK i \in DOMAIN revisions : Of(i) /\ revisions[i].number = n
    BY <1>1
  <2>2. revisions[i].body \in Bodies
    BY DEF TypeOK, RevisionRows
  <2> QED BY <1>3, <2>1, <2>2
<1>7. HistoryOf(<<k, l>>) \in Seq(Bodies) /\ Len(HistoryOf(<<k, l>>)) = len
  BY <1>1, <1>4, <1>6
<1> QED BY <1>1, <1>5, <1>7 DEF len

\* While the revisions rest, so do the histories.
LEMMA HistoriesRest ==
    ASSUME HistoryIs, HistoryIs', RevisionsRest, NEW k, NEW l
    PROVE  HistoryOf(<<k, l>>)' = HistoryOf(<<k, l>>)
<1>1. PICK h, g : h = HistoryOf(<<k, l>>) /\ g = HistoryOf(<<k, l>>)'
  OBVIOUS
<1>2. h \in Seq(Bodies) /\ g \in Seq(Bodies) /\ Len(h) \in Nat /\ Len(g) \in Nat
  BY <1>1 DEF HistoryIs
<1>3. \A i \in DOMAIN revisions :
         revisions[i].key = k /\ revisions[i].language = l =>
            /\ revisions[i].number \in 1 .. Len(h) /\ h[revisions[i].number] = revisions[i].body
            /\ revisions[i].number \in 1 .. Len(g) /\ g[revisions[i].number] = revisions[i].body
  BY <1>1 DEF HistoryIs, RevisionsRest
<1>4. \A n \in 1 .. Len(h) :
         \E i \in DOMAIN revisions :
            revisions[i].key = k /\ revisions[i].language = l /\ revisions[i].number = n
  BY <1>1 DEF HistoryIs
<1>5. \A n \in 1 .. Len(g) :
         \E i \in DOMAIN revisions :
            revisions[i].key = k /\ revisions[i].language = l /\ revisions[i].number = n
  <2>1. \A n \in 1 .. Len(g) :
           \E i \in DOMAIN revisions' :
              revisions'[i].key = k /\ revisions'[i].language = l /\ revisions'[i].number = n
    BY <1>1 DEF HistoryIs
  <2> QED BY <2>1 DEF RevisionsRest
<1>6. Len(g) = Len(h)
  <2>1. /\ \A n \in 1 .. Len(g) : n \in 1 .. Len(h)
        /\ \A n \in 1 .. Len(h) : n \in 1 .. Len(g)
    BY <1>3, <1>4, <1>5
  <2> QED BY <1>2, <2>1
<1>7. \A n \in 1 .. Len(h) : h[n] = g[n]
  BY <1>3, <1>4
<1> QED BY <1>1, <1>2, <1>6, <1>7, SeqEqual

\* A publication appends the content of its row to the history of its document,
\* and to no other.
LEMMA PublishingAppends ==
    ASSUME TypeOK, HistoryOK, HistoryIs, HistoryIs', NEW id, NEW row, Publishes(id, row),
           NEW k, NEW l
    PROVE  HistoryOf(<<k, l>>)' =
              IF k = row.key /\ l = row.language
              THEN Append(HistoryOf(<<k, l>>), row.body) ELSE HistoryOf(<<k, l>>)
<1>1. PICK h, g : h = HistoryOf(<<k, l>>) /\ g = HistoryOf(<<k, l>>)'
  OBVIOUS
<1>2. /\ id \notin DOMAIN revisions /\ row.body \in Bodies
      /\ row.number = NextNumber(Latest(row.key, row.language))
      /\ DOMAIN revisions' = DOMAIN revisions \cup {id}
      /\ revisions'[id] = row
      /\ \A i \in DOMAIN revisions : /\ revisions'[i].key = revisions[i].key
                                     /\ revisions'[i].language = revisions[i].language
                                     /\ revisions'[i].number = revisions[i].number
                                     /\ revisions'[i].body = revisions[i].body
  BY DEF Publishes, RevisionRows
<1>3. h \in Seq(Bodies) /\ g \in Seq(Bodies) /\ Len(h) \in Nat /\ Len(g) \in Nat
  BY <1>1 DEF HistoryIs
<1>4. \A i \in DOMAIN revisions :
         revisions[i].key = k /\ revisions[i].language = l =>
            /\ revisions[i].number \in 1 .. Len(h) /\ h[revisions[i].number] = revisions[i].body
            /\ revisions[i].number \in 1 .. Len(g) /\ g[revisions[i].number] = revisions[i].body
  BY <1>1, <1>2 DEF HistoryIs
<1>5. \A n \in 1 .. Len(h) :
         \E i \in DOMAIN revisions :
            revisions[i].key = k /\ revisions[i].language = l /\ revisions[i].number = n
  BY <1>1 DEF HistoryIs
<1>6. \A n \in 1 .. Len(g) :
         \E i \in DOMAIN revisions \cup {id} :
            revisions'[i].key = k /\ revisions'[i].language = l /\ revisions'[i].number = n
  BY <1>1, <1>2 DEF HistoryIs
<1>7. CASE k = row.key /\ l = row.language
  <2>1. row.number = Len(h) + 1
    BY <1>1, <1>2, <1>3, <1>7, NextNumberIsNew DEF HistoryIs
  <2>2. row.number \in 1 .. Len(g) /\ g[row.number] = row.body
    BY <1>1, <1>2, <1>7 DEF HistoryIs
  <2>3. Len(g) = Len(h) + 1
    <3>1. \A n \in 1 .. Len(g) : n \in 1 .. Len(h) + 1
      BY <1>2, <1>3, <1>4, <1>6, <2>1
    <3> QED BY <1>3, <2>1, <2>2, <3>1
  <2>4. /\ Append(h, row.body) \in Seq(Bodies)
        /\ Len(Append(h, row.body)) = Len(h) + 1
        /\ \A n \in 1 .. Len(h) : Append(h, row.body)[n] = h[n]
        /\ Append(h, row.body)[Len(h) + 1] = row.body
    BY <1>2, <1>3
  <2>5. \A n \in 1 .. Len(g) : g[n] = Append(h, row.body)[n]
    BY <1>3, <1>4, <1>5, <2>1, <2>2, <2>3, <2>4
  <2> QED BY <1>1, <1>3, <1>7, <2>3, <2>4, <2>5, SeqEqual
<1>8. CASE ~(k = row.key /\ l = row.language)
  <2>1. \A n \in 1 .. Len(g) :
           \E i \in DOMAIN revisions :
              revisions[i].key = k /\ revisions[i].language = l /\ revisions[i].number = n
    BY <1>2, <1>6, <1>8
  <2>2. Len(g) = Len(h)
    <3>1. /\ \A n \in 1 .. Len(g) : n \in 1 .. Len(h)
          /\ \A n \in 1 .. Len(h) : n \in 1 .. Len(g)
      BY <1>4, <1>5, <2>1
    <3> QED BY <1>3, <3>1
  <2>3. \A n \in 1 .. Len(h) : h[n] = g[n]
    BY <1>4, <1>5
  <2> QED BY <1>1, <1>3, <1>8, <2>2, <2>3, SeqEqual
<1> QED BY <1>7, <1>8

\* The variables of the contract, as the tables show them.
Slots == Keys \X Languages

PublicHistory == [slot \in Slots |-> HistoryOf(slot)]

PublicOwner == [k \in Keys |-> IF k \in DOMAIN pages THEN pages[k].kind ELSE "none"]

PublicRequest(p) ==
    [slot     |-> SlotOf(proposals[p].draft.key, proposals[p].draft.language),
     base     |-> VersionOf(proposals[p].draft.base),
     proposer |-> proposals[p].draft.proposer,
     body     |-> proposals[p].draft.body,
     status   |-> proposals[p].status,
     reviewer |-> proposals[p].reviewer]

PublicRequests == [p \in DOMAIN proposals |-> PublicRequest(p)]

\* What the decisions of the contract say of the requests.
PublicDecide(p, reviewer, status) ==
    /\ p \in DOMAIN PublicRequests
    /\ PublicRequests[p].status = "pending"
    /\ PublicRequests[p].proposer # reviewer
    /\ PublicRequests' = [PublicRequests EXCEPT ![p].status = status, ![p].reviewer = reviewer]

\* A rejected request and nothing else: the contract's Decline.
LEMMA DeclineIs ==
    ASSUME NEW p, NEW reviewer, PublicDecide(p, reviewer, "rejected"),
           UNCHANGED <<PublicHistory, PublicOwner>>
    PROVE  Promise!Decline(p, reviewer)
  BY DEF Promise!Decline, Promise!Decide, PublicDecide, PublicHistory, PublicOwner,
         PublicRequests, PublicRequest, Slots

\* An accepted request whose content extends the history: the contract's Approve.
LEMMA ApproveIs ==
    ASSUME NEW p, NEW reviewer, PublicDecide(p, reviewer, "accepted"),
           PublicOwner[PublicRequests[p].slot[1]] # "source",
           PublicRequests[p].base =
              (IF PublicHistory[PublicRequests[p].slot] = <<>>
               THEN None
               ELSE [slot   |-> PublicRequests[p].slot,
                     number |-> Len(PublicHistory[PublicRequests[p].slot])]),
           PublicHistory' = [PublicHistory EXCEPT ![PublicRequests[p].slot] =
                                Append(@, PublicRequests[p].body)],
           PublicOwner' = [PublicOwner EXCEPT ![PublicRequests[p].slot[1]] = "reviewed"]
    PROVE  Promise!Approve(p, reviewer)
  BY DEF Promise!Approve, Promise!Decide, Promise!Extend, Promise!Current, PublicDecide,
         PublicHistory, PublicOwner, PublicRequests, PublicRequest, Slots

\* A content that is new on a key without reviews: the contract's Import.
LEMMA ImportIs ==
    ASSUME NEW slot, NEW body,
           PublicOwner[slot[1]] # "reviewed",
           \/ PublicHistory[slot] = <<>>
           \/ PublicHistory[slot][Len(PublicHistory[slot])] # body,
           PublicHistory' = [PublicHistory EXCEPT ![slot] = Append(@, body)],
           PublicOwner' = [PublicOwner EXCEPT ![slot[1]] = "source"],
           UNCHANGED PublicRequests
    PROVE  Promise!Import(slot, body)
  BY DEF Promise!Import, Promise!Extend, PublicHistory, PublicOwner, PublicRequests,
         PublicRequest, Slots

\* What changes no public value is invisible.
LEMMA StutterIs ==
    ASSUME UNCHANGED <<PublicHistory, PublicOwner, PublicRequests>>
    PROVE  UNCHANGED Promise!vars
  BY DEF Promise!vars, PublicHistory, PublicOwner, PublicRequests, PublicRequest, Slots

-----------------------------------------------------------------------------
(* What the steps do to the public values.                                 *)

\* While the revisions rest, so does the public history.
LEMMA PublicHistoryRests ==
    ASSUME HistoryIs, HistoryIs', RevisionsRest
    PROVE  PublicHistory' = PublicHistory
<1>1. \A k, l : HistoryOf(<<k, l>>)' = HistoryOf(<<k, l>>)
  BY HistoriesRest
<1>2. \A s \in Slots : HistoryOf(s)' = HistoryOf(s)
  BY <1>1 DEF Slots
<1>3. /\ PublicHistory = [slot \in Slots |-> HistoryOf(slot)]
      /\ PublicHistory' = [slot \in Slots |-> HistoryOf(slot)']
  BY DEF PublicHistory, Slots
<1> QED BY <1>2, <1>3

\* A publication extends it in one place.
LEMMA PublicHistoryGrows ==
    ASSUME TypeOK, HistoryOK, HistoryIs, HistoryIs', NEW id, NEW row, Publishes(id, row),
           NEW slot, slot = <<row.key, row.language>>
    PROVE  PublicHistory' = [PublicHistory EXCEPT ![slot] = Append(@, row.body)]
<1>1. \A k, l : HistoryOf(<<k, l>>)' =
         IF k = row.key /\ l = row.language
         THEN Append(HistoryOf(<<k, l>>), row.body) ELSE HistoryOf(<<k, l>>)
  BY PublishingAppends
<1>2. ASSUME NEW k \in Keys, NEW l \in Languages
      PROVE  HistoryOf(<<k, l>>)' = IF <<k, l>> = slot
                                    THEN Append(HistoryOf(<<k, l>>), row.body)
                                    ELSE HistoryOf(<<k, l>>)
  <2>1. <<k, l>> = slot <=> k = row.key /\ l = row.language
    OBVIOUS
  <2> QED BY <1>1, <2>1
<1>3. \A s \in Slots : HistoryOf(s)' = IF s = slot THEN Append(HistoryOf(s), row.body)
                                      ELSE HistoryOf(s)
  BY <1>2 DEF Slots
<1>4. /\ PublicHistory = [s \in Slots |-> HistoryOf(s)]
      /\ PublicHistory' = [s \in Slots |-> HistoryOf(s)']
  BY DEF PublicHistory, Slots
<1> QED BY <1>3, <1>4

\* Versions keep their name as long as key, language and number stay.
LEMMA VersionsStay ==
    ASSUME TypeOK,
           \A i \in DOMAIN revisions : /\ revisions'[i].key = revisions[i].key
                                       /\ revisions'[i].language = revisions[i].language
                                       /\ revisions'[i].number = revisions[i].number
    PROVE  \A base \in DOMAIN revisions \cup {None} : VersionOf(base)' = VersionOf(base)
  BY DEF VersionOf, SlotOf

\* Requests rest when the proposals do.
LEMMA RequestsRest ==
    ASSUME TypeOK, UNCHANGED proposals,
           \A base \in DOMAIN revisions \cup {None} : VersionOf(base)' = VersionOf(base)
    PROVE  PublicRequests' = PublicRequests
<1>1. \A p \in DOMAIN proposals :
         VersionOf(proposals[p].draft.base)' = VersionOf(proposals[p].draft.base)
  BY DEF TypeOK
<1>2. \A p \in DOMAIN proposals : PublicRequest(p)' = PublicRequest(p)
  BY <1>1 DEF PublicRequest, SlotOf
<1>3. /\ PublicRequests = [p \in DOMAIN proposals |-> PublicRequest(p)]
      /\ PublicRequests' = [p \in DOMAIN proposals |-> PublicRequest(p)']
  BY DEF PublicRequests
<1> QED BY <1>2, <1>3

\* A page that is written has the owner that writes it, before and after, or
\* had none before.
LEMMA OwnerMoves ==
    ASSUME NEW key \in Keys, NEW kind, PagesStep(key, kind)
    PROVE  /\ PublicOwner[key] \in {kind, "none"}
           /\ PublicOwner' = [PublicOwner EXCEPT ![key] = kind]
  BY DEF PagesStep, PublicOwner

\* Pages that stay leave the owners alone.
LEMMA OwnersRest == UNCHANGED pages => PublicOwner' = PublicOwner
  BY DEF PublicOwner

\* The current version, as the contract computes it.
LEMMA CurrentIs ==
    ASSUME TypeOK, HistoryOK, HistoryIs, NEW k \in Keys, NEW l \in Languages,
           NEW latest, latest = Latest(k, l), NEW h, h = PublicHistory[<<k, l>>]
    PROVE  /\ h = <<>> <=> latest = None
           /\ latest # None => /\ latest \in DOMAIN revisions
                               /\ h[Len(h)] = revisions[latest].body
           /\ VersionOf(latest) = IF h = <<>> THEN None
                                  ELSE [slot |-> <<k, l>>, number |-> Len(h)]
<1>1. h = HistoryOf(<<k, l>>)
  BY DEF PublicHistory, Slots
<1>2. h \in Seq(Bodies) /\ Len(h) = NextNumber(latest) - 1
  BY <1>1 DEF HistoryIs
<1>3. CASE latest = None
  <2>1. Len(h) = 0
    BY <1>2, <1>3 DEF NextNumber
  <2>2. h = <<>>
    BY <1>2, <2>1
  <2> QED BY <1>3, <2>2 DEF VersionOf
<1>4. CASE latest # None
  <2>1. /\ latest \in DOMAIN revisions
        /\ revisions[latest].key = k /\ revisions[latest].language = l
    BY <1>4, LatestIsPublished DEF HistoryOK, Published
  <2>2. revisions[latest].number \in Nat \ {0}
    BY <2>1 DEF TypeOK, RevisionRows
  <2>3. Len(h) = revisions[latest].number
    BY <1>2, <1>4, <2>2 DEF NextNumber
  <2>4. h # <<>>
    BY <2>2, <2>3
  <2>5. h[Len(h)] = revisions[latest].body
    BY <1>1, <2>1, <2>3 DEF HistoryIs
  <2> QED BY <1>4, <2>1, <2>3, <2>4, <2>5 DEF VersionOf, SlotOf
<1> QED BY <1>3, <1>4

-----------------------------------------------------------------------------
(* The operations, one by one.                                             *)

\* A revision that exists is a version of the public history of its document.
LEMMA BaseExists ==
    ASSUME TypeOK, HistoryIs, NEW base \in DOMAIN revisions
    PROVE  /\ <<revisions[base].key, revisions[base].language>> \in Slots
           /\ VersionOf(base) =
                 [slot   |-> <<revisions[base].key, revisions[base].language>>,
                  number |-> revisions[base].number]
           /\ revisions[base].number \in
                 1 .. Len(PublicHistory[<<revisions[base].key, revisions[base].language>>])
<1>1. base # None
  BY NoneAssumption DEF TypeOK
<1>2. revisions[base].key \in Keys /\ revisions[base].language \in Languages
  BY DEF TypeOK, RevisionRows
<1>3. VersionOf(base) = [slot   |-> <<revisions[base].key, revisions[base].language>>,
                         number |-> revisions[base].number]
  BY <1>1 DEF VersionOf, SlotOf
<1>4. PublicHistory[<<revisions[base].key, revisions[base].language>>]
         = HistoryOf(<<revisions[base].key, revisions[base].language>>)
  BY <1>2 DEF PublicHistory, Slots
<1>5. revisions[base].number \in
         1 .. Len(HistoryOf(<<revisions[base].key, revisions[base].language>>))
  BY DEF HistoryIs
<1> QED BY <1>2, <1>3, <1>4, <1>5 DEF Slots

\* Creating a proposal submits a request.
LEMMA CreateRefines ==
    ASSUME TypeOK, HistoryIs, HistoryIs', NEW p \in ProposalIds, NEW draft \in Drafts,
           CreateProposal(p, draft)
    PROVE  Promise!Next
<1> DEFINE slot == SlotOf(draft.key, draft.language)
           base == VersionOf(draft.base)
           versions == UNION {{[slot |-> s, number |-> n]
                               : n \in 1 .. Len(PublicHistory[s])} : s \in Slots}
<1>1. /\ p \notin DOMAIN proposals /\ draft.base \in DOMAIN revisions \cup {None}
      /\ proposals' = [q \in DOMAIN proposals \cup {p} |->
                          IF q = p
                          THEN [draft |-> draft, status |-> "pending", reviewer |-> None]
                          ELSE proposals[q]]
      /\ UNCHANGED <<pages, revisions>>
  BY DEF CreateProposal
<1>2. slot \in Slots /\ draft.proposer \in Subjects /\ draft.body \in Bodies
  BY DEF Drafts, SlotOf, Slots
<1>3. base \in versions \cup {None}
  <2>1. CASE draft.base = None
    BY <2>1 DEF VersionOf
  <2>2. CASE draft.base \in DOMAIN revisions
    <3> HIDE DEF base
    <3>2. PICK s, n : /\ s = <<revisions[draft.base].key, revisions[draft.base].language>>
                      /\ n = revisions[draft.base].number
      OBVIOUS
    <3>3. s \in Slots /\ n \in 1 .. Len(PublicHistory[s]) /\ base = [slot |-> s, number |-> n]
      BY <2>2, <3>2, BaseExists DEF base
    <3> QED BY <3>3
  <2> QED BY <1>1, <2>1, <2>2
<1>4. UNCHANGED <<PublicHistory, PublicOwner>> /\ \A b : VersionOf(b)' = VersionOf(b)
  <2>1. PublicHistory' = PublicHistory /\ PublicOwner' = PublicOwner
    BY <1>1, PublicHistoryRests, OwnersRest DEF RevisionsRest
  <2> QED BY <1>1, <2>1 DEF VersionOf
<1>5. PublicRequests' = [q \in DOMAIN PublicRequests \cup {p} |->
         IF q = p
         THEN [slot |-> slot, base |-> base, proposer |-> draft.proposer,
               body |-> draft.body, status |-> "pending", reviewer |-> None]
         ELSE PublicRequests[q]]
  <2>1. DOMAIN proposals' = DOMAIN proposals \cup {p} /\ DOMAIN PublicRequests = DOMAIN proposals
    BY <1>1 DEF PublicRequests
  <2>2. PublicRequest(p)' = [slot |-> slot, base |-> base, proposer |-> draft.proposer,
                             body |-> draft.body, status |-> "pending", reviewer |-> None]
    <3>1. /\ proposals'[p].draft = draft /\ proposals'[p].status = "pending"
          /\ proposals'[p].reviewer = None
      BY <1>1
    <3>2. VersionOf(proposals[p].draft.base)' = VersionOf(draft.base)
      BY <1>4, <3>1
    <3> QED BY <3>1, <3>2 DEF PublicRequest, SlotOf
  <2>3. ASSUME NEW q \in DOMAIN proposals
        PROVE  PublicRequest(q)' = PublicRequests[q]
    <3>1. proposals'[q] = proposals[q]
      BY <1>1
    <3>2. VersionOf(proposals[q].draft.base)' = VersionOf(proposals[q].draft.base)
      BY <1>4, <3>1
    <3> QED BY <3>1, <3>2 DEF PublicRequest, PublicRequests, SlotOf
  <2>4. PublicRequests' = [q \in DOMAIN proposals' |-> PublicRequest(q)']
    BY DEF PublicRequests
  <2> HIDE DEF slot, base
  <2> QED BY <1>1, <2>1, <2>2, <2>3, <2>4
<1>6. p \notin DOMAIN PublicRequests
  BY <1>1 DEF PublicRequests
<1> HIDE DEF slot, base
<1>7. \E s \in Slots, proposer \in Subjects, body \in Bodies : \E b \in versions \cup {None} :
         /\ p \notin DOMAIN PublicRequests
         /\ b = None \/ b \in versions
         /\ PublicRequests' = [q \in DOMAIN PublicRequests \cup {p} |->
               IF q = p
               THEN [slot |-> s, base |-> b, proposer |-> proposer,
                     body |-> body, status |-> "pending", reviewer |-> None]
               ELSE PublicRequests[q]]
         /\ UNCHANGED <<PublicHistory, PublicOwner>>
  BY <1>2, <1>3, <1>4, <1>5, <1>6
<1> QED
  BY <1>7
  DEF Promise!Next, Promise!Submit, Promise!Existing, Promise!Slots, PublicHistory, PublicOwner,
      PublicRequests, PublicRequest, Slots

\* A decision decides the request of the contract as it decides the proposal.
LEMMA DecisionRefines ==
    ASSUME TypeOK, NEW p \in ProposalIds, NEW reviewer \in Subjects,
           NEW status \in {"accepted", "rejected"},
           Reviewable(p, reviewer), Decide(p, reviewer, status),
           \A base \in DOMAIN revisions \cup {None} : VersionOf(base)' = VersionOf(base)
    PROVE  PublicDecide(p, reviewer, status)
<1>1. /\ p \in DOMAIN proposals
      /\ DOMAIN proposals' = DOMAIN proposals
      /\ \A q \in DOMAIN proposals : /\ proposals'[q].draft = proposals[q].draft
                                     /\ q # p => proposals'[q] = proposals[q]
      /\ proposals'[p].status = status /\ proposals'[p].reviewer = reviewer
  BY DecideTyped DEF Reviewable
<1>2. /\ PublicRequests = [q \in DOMAIN proposals |-> PublicRequest(q)]
      /\ PublicRequests' = [q \in DOMAIN proposals |-> PublicRequest(q)']
  BY <1>1 DEF PublicRequests
<1>3. \A q \in DOMAIN proposals :
         VersionOf(proposals[q].draft.base)' = VersionOf(proposals[q].draft.base)
  BY <1>1 DEF TypeOK
<1>4. \A q \in DOMAIN proposals : q # p => PublicRequest(q)' = PublicRequest(q)
  BY <1>1, <1>3 DEF PublicRequest
<1>5. PublicRequest(p)' = [PublicRequest(p) EXCEPT !.status = status, !.reviewer = reviewer]
  <2>1. PublicRequest(p)' =
           [slot     |-> SlotOf(proposals[p].draft.key, proposals[p].draft.language),
            base     |-> VersionOf(proposals[p].draft.base),
            proposer |-> proposals[p].draft.proposer,
            body     |-> proposals[p].draft.body,
            status   |-> status,
            reviewer |-> reviewer]
    BY <1>1, <1>3 DEF PublicRequest, SlotOf
  <2>2. PublicRequest(p) =
           [slot     |-> SlotOf(proposals[p].draft.key, proposals[p].draft.language),
            base     |-> VersionOf(proposals[p].draft.base),
            proposer |-> proposals[p].draft.proposer,
            body     |-> proposals[p].draft.body,
            status   |-> proposals[p].status,
            reviewer |-> proposals[p].reviewer]
    BY DEF PublicRequest
  <2>3. PICK r, d : r = PublicRequest(p) /\ d = PublicRequest(p)'
    OBVIOUS
  <2>4. d = [r EXCEPT !.status = status, !.reviewer = reviewer]
    <3>1. PICK s, b, by, body, old, nobody :
             /\ r = [slot |-> s, base |-> b, proposer |-> by, body |-> body,
                     status |-> old, reviewer |-> nobody]
             /\ d = [slot |-> s, base |-> b, proposer |-> by, body |-> body,
                     status |-> status, reviewer |-> reviewer]
      BY <2>1, <2>2, <2>3
    <3>2. /\ d \in [slot : {s}, base : {b}, proposer : {by}, body : {body},
                   status : {status}, reviewer : {reviewer}]
          /\ [r EXCEPT !.status = status, !.reviewer = reviewer] \in
                [slot : {s}, base : {b}, proposer : {by}, body : {body},
                 status : {status}, reviewer : {reviewer}]
      <4>1. r \in [slot : {s}, base : {b}, proposer : {by}, body : {body},
                   status : {old}, reviewer : {nobody}]
        BY <3>1
      <4> QED BY <3>1, <4>1
    <3> QED BY <3>2
  <2> QED BY <2>3, <2>4
<1>6. PublicRequest(p).status = "pending" /\ PublicRequest(p).proposer # reviewer
  BY <1>1 DEF PublicRequest, Reviewable
<1>7. PublicRequests' = [PublicRequests EXCEPT ![p] =
                            [PublicRequest(p) EXCEPT !.status = status, !.reviewer = reviewer]]
  BY <1>1, <1>2, <1>4, <1>5
<1>8. PublicRequests' = [PublicRequests EXCEPT ![p].status = status, ![p].reviewer = reviewer]
  BY <1>1, <1>2, <1>7
<1> QED BY <1>1, <1>2, <1>6, <1>8 DEF PublicDecide

\* Rejecting a proposal declines the request.
LEMMA RejectRefines ==
    ASSUME TypeOK, HistoryIs, HistoryIs', NEW p \in ProposalIds, NEW reviewer \in Subjects,
           RejectProposal(p, reviewer)
    PROVE  Promise!Next
<1>1. UNCHANGED <<pages, revisions>> /\ Reviewable(p, reviewer) /\ Decide(p, reviewer, "rejected")
  BY DEF RejectProposal
<1>2. PublicHistory' = PublicHistory /\ PublicOwner' = PublicOwner
  BY <1>1, PublicHistoryRests, OwnersRest DEF RevisionsRest
<1>3. PublicDecide(p, reviewer, "rejected")
  BY <1>1, VersionsStay, DecisionRefines
<1>4. Promise!Decline(p, reviewer)
  BY <1>2, <1>3, DeclineIs
<1> QED BY <1>4 DEF Promise!Next

\* Accepting a proposal approves the request: the base that the code compares
\* with the latest revision is the version that the contract calls current.
LEMMA AcceptRefines ==
    ASSUME TypeOK, HistoryOK, KindSeparation, HistoryIs, HistoryIs',
           NEW p \in ProposalIds, NEW reviewer \in Subjects, NEW id \in RevisionIds,
           AcceptProposal(p, reviewer, id)
    PROVE  Promise!Next
<1>1. PICK draft, latest, row, slot :
         /\ draft = proposals[p].draft
         /\ latest = Latest(draft.key, draft.language)
         /\ row = ReviewedRevision(draft, latest)
         /\ slot = <<draft.key, draft.language>>
  OBVIOUS
<1>2. /\ p \in DOMAIN proposals /\ Reviewable(p, reviewer) /\ Decide(p, reviewer, "accepted")
      /\ draft.base = latest
  BY <1>1 DEF AcceptProposal, Reviewable, PublishProposal, Publishable, BaseIsCurrent
<1>3. draft.key \in Keys /\ draft.language \in Languages
  BY <1>1, <1>2 DEF TypeOK, ProposalRows, Drafts
<1>4. /\ Publishes(id, row)
      /\ row.key = draft.key /\ row.language = draft.language /\ row.body = draft.body
  <2>1. Publishes(id, row)
    BY <1>1, AcceptPublishes DEF HistoryOK, Publishes
  <2> QED BY <1>1, <2>1 DEF ReviewedRevision
<1>5. PublicDecide(p, reviewer, "accepted")
  BY <1>2, <1>4, VersionsStay, DecisionRefines DEF Publishes
<1>6. /\ PublicRequests[p].slot = slot /\ PublicRequests[p].body = draft.body
      /\ PublicRequests[p].base = VersionOf(latest)
  BY <1>1, <1>2 DEF PublicRequests, PublicRequest, SlotOf
<1>7. slot[1] = draft.key
  BY <1>1
<1>8. /\ PublicOwner[draft.key] # "source"
      /\ PublicOwner' = [PublicOwner EXCEPT ![draft.key] = "reviewed"]
  <2>1. PagesStep(draft.key, "reviewed")
    BY <1>1, AcceptPage DEF PagesStep
  <2> QED BY <1>3, <2>1, OwnerMoves
<1>9. PublicHistory' = [PublicHistory EXCEPT ![slot] = Append(@, draft.body)]
  BY <1>1, <1>4, PublicHistoryGrows
<1>10. VersionOf(latest) = IF PublicHistory[slot] = <<>> THEN None
                           ELSE [slot |-> slot, number |-> Len(PublicHistory[slot])]
  BY <1>1, <1>3, CurrentIs
<1>11. Promise!Approve(p, reviewer)
  BY <1>5, <1>6, <1>7, <1>8, <1>9, <1>10, ApproveIs
<1> QED BY <1>11 DEF Promise!Next

\* Importing a content that is not current is the contract's Import.
LEMMA ImportRefines ==
    ASSUME TypeOK, HistoryOK, HistoryIs, HistoryIs',
           NEW draft \in SourceDrafts, NEW id \in RevisionIds, UpsertChangedSource(draft, id)
    PROVE  Promise!Next
<1>1. PICK latest, row, slot, h :
         /\ latest = Latest(draft.key, draft.language)
         /\ row = SourceRevision(draft, latest)
         /\ slot = <<draft.key, draft.language>>
         /\ h = PublicHistory[slot]
  OBVIOUS
<1>2. /\ draft.key \in Keys /\ draft.language \in Languages /\ draft.body \in Bodies
      /\ slot \in Slots /\ slot[1] = draft.key
  BY <1>1 DEF SourceDrafts, Slots
<1>3. /\ Publishes(id, row)
      /\ row.key = draft.key /\ row.language = draft.language /\ row.body = draft.body
  <2>1. Publishes(id, row)
    BY <1>1, ImportPublishes DEF HistoryOK, Publishes
  <2> QED BY <1>1, <2>1 DEF SourceRevision
<1>4. h = <<>> \/ h[Len(h)] # draft.body
  <2>1. latest = None \/ revisions[latest].body # draft.body
    BY <1>1 DEF UpsertChangedSource, Unchanged
  <2> QED BY <1>1, <1>2, <2>1, CurrentIs
<1>5. /\ PublicOwner[draft.key] # "reviewed"
      /\ PublicOwner' = [PublicOwner EXCEPT ![draft.key] = "source"]
  <2>1. PagesStep(draft.key, "source")
    BY ImportPage DEF UpsertChangedSource
  <2> QED BY <1>2, <2>1, OwnerMoves
<1>6. PublicHistory' = [PublicHistory EXCEPT ![slot] = Append(@, draft.body)]
  BY <1>1, <1>3, PublicHistoryGrows
<1>7. PublicRequests' = PublicRequests
  BY <1>3, VersionsStay, RequestsRest DEF Publishes, UpsertChangedSource
<1>8. Promise!Import(slot, draft.body)
  BY <1>1, <1>2, <1>4, <1>5, <1>6, <1>7, ImportIs
<1> QED BY <1>2, <1>8 DEF Promise!Next, Promise!Slots, Slots

\* Importing a content that is current changes nothing the contract sees: its
\* page is there, and only visibility, source and provenance may move.
LEMMA UnchangedImportRefines ==
    ASSUME TypeOK, HistoryOK, HistoryIs, HistoryIs',
           NEW draft \in SourceDrafts, UpsertUnchangedSource(draft)
    PROVE  UNCHANGED Promise!vars
<1>1. RevisionsRest
  BY UnchangedImportEffect DEF RevisionsRest, HistoryOK
<1>2. PublicHistory' = PublicHistory
  BY <1>1, PublicHistoryRests
<1>3. PublicRequests' = PublicRequests
  BY <1>1, VersionsStay, RequestsRest DEF RevisionsRest, UpsertUnchangedSource
<1>4. draft.key \in DOMAIN pages
  <2>1. PICK latest : latest = Latest(draft.key, draft.language)
    OBVIOUS
  <2>2. latest # None
    BY <2>1 DEF UpsertUnchangedSource, Unchanged
  <2>3. latest \in DOMAIN revisions /\ revisions[latest].key = draft.key
    BY <2>1, <2>2, LatestIsPublished DEF HistoryOK, Published
  <2> QED BY <2>3 DEF TypeOK
<1>5. PublicOwner' = PublicOwner
  <2>1. PagesStep(draft.key, "source")
    BY ImportPage DEF UpsertUnchangedSource
  <2> QED BY <1>4, <2>1 DEF PagesStep, PublicOwner
<1> QED BY <1>2, <1>3, <1>5, StutterIs

\* Nothing is published, owned or requested at the start.
LEMMA InitRefines == Init => Promise!Init
<1> SUFFICES ASSUME Init PROVE Promise!Init
  OBVIOUS
<1>1. DOMAIN revisions = {} /\ DOMAIN pages = {} /\ DOMAIN proposals = {}
  BY DEF Init
<1>2. \A k, l : Latest(k, l) = None
  BY <1>1 DEF Latest, Published
<1>3. \A slot : HistoryOf(slot) = <<>>
  <2> SUFFICES ASSUME NEW slot PROVE HistoryOf(slot) = <<>>
    OBVIOUS
  <2>1. NextNumber(Latest(slot[1], slot[2])) - 1 = 0
    BY <1>2 DEF NextNumber
  <2> QED BY <2>1 DEF HistoryOf
<1>4. PublicHistory = [slot \in Slots |-> <<>>]
  BY <1>3 DEF PublicHistory
<1>5. PublicOwner = [k \in Keys |-> "none"]
  BY <1>1 DEF PublicOwner
<1>6. PublicRequests = [p \in {} |-> None]
  BY <1>1 DEF PublicRequests
<1> QED
  BY <1>4, <1>5, <1>6
  DEF Promise!Init, Promise!Slots, PublicHistory, PublicOwner, PublicRequests, PublicRequest, Slots

\* The invariant gives the histories, in one state and the next.
LEMMA HistoryKnown == HistoryInv => HistoryIs
  BY HistoryFacts DEF HistoryInv, IInv

\* Every step is one step of the contract, or invisible.
LEMMA NextRefines == HistoryInv /\ HistoryInv' /\ [Next]_vars => [Promise!Next]_(Promise!vars)
<1> SUFFICES ASSUME HistoryInv, HistoryInv', [Next]_vars
             PROVE  Promise!Next \/ UNCHANGED Promise!vars
  OBVIOUS
<1>1. TypeOK /\ HistoryOK /\ KindSeparation
  BY DEF HistoryInv, IInv
<1>2. HistoryIs /\ HistoryIs'
  BY HistoryKnown, PTL
<1>3. ASSUME NEW p \in ProposalIds, NEW draft \in Drafts, CreateProposal(p, draft)
      PROVE  Promise!Next
  BY <1>1, <1>2, <1>3, CreateRefines
<1>4. ASSUME NEW p \in ProposalIds, NEW reviewer \in Subjects, RejectProposal(p, reviewer)
      PROVE  Promise!Next
  BY <1>1, <1>2, <1>4, RejectRefines
<1>5. ASSUME NEW p \in ProposalIds, NEW reviewer \in Subjects, NEW id \in RevisionIds,
             AcceptProposal(p, reviewer, id)
      PROVE  Promise!Next
  BY <1>1, <1>2, <1>5, AcceptRefines
<1>6. ASSUME NEW draft \in SourceDrafts, UpsertUnchangedSource(draft)
      PROVE  UNCHANGED Promise!vars
  BY <1>1, <1>2, <1>6, UnchangedImportRefines
<1>7. ASSUME NEW draft \in SourceDrafts, NEW id \in RevisionIds, UpsertChangedSource(draft, id)
      PROVE  Promise!Next
  BY <1>1, <1>2, <1>7, ImportRefines
<1>8. CASE UNCHANGED vars
  <2>1. UNCHANGED <<pages, revisions, proposals>>
    BY <1>8 DEF vars
  <2>2. PublicHistory' = PublicHistory /\ PublicOwner' = PublicOwner
    BY <1>1, <1>2, <2>1, PublicHistoryRests, OwnersRest DEF RevisionsRest
  <2>3. PublicRequests' = PublicRequests
    BY <1>1, <1>2, <2>1, VersionsStay, RequestsRest
  <2> QED BY <2>2, <2>3, StutterIs
<1> QED BY <1>3, <1>4, <1>5, <1>6, <1>7, <1>8 DEF Next

\* Whatever the mix of reviews and imports, the store is, document by document
\* and language by language, what the contract promises.
THEOREM ImplementsContract == Spec => RefinesCommons
  BY HistoryInvariant, InitRefines, NextRefines, PTL DEF Spec, RefinesCommons, Promise!Spec

=============================================================================
