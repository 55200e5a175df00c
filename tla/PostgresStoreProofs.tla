------------------------- MODULE PostgresStoreProofs -------------------------
(***************************************************************************)
(* Theorems about PostgresStore, for any number of workers, connections,   *)
(* documents and identifiers: the row locks cover the checks, and the      *)
(* committed tables implement the contract of module Commons.              *)
(*                                                                         *)
(* The invariant has three parts: what the tables look like, what a        *)
(* request may rely on (Sound), and what two requests never have in common *)
(* (Compatible), which is what the locks are for.                          *)
(***************************************************************************)
EXTENDS PostgresStore, SequenceTheorems, FiniteSetTheorems, TLAPS

\* The request has its proposal locked, and has checked it.
Deciding == {"reject", "insert page", "lock page", "read latest", "write", "commit"}

\* It knows whether the page exists, and, further on, has it locked.
Publishing(r) ==
    /\ r.step \in {"lock page", "read latest", "write", "commit"}
    /\ r.decision = "accepted"

PageLocked(r) ==
    /\ r.step \in {"read latest", "write", "commit"}
    /\ r.decision = "accepted"

\* It has read the revision that its own replaces.
Based(r) ==
    /\ r.step \in {"write", "commit"}
    /\ r.decision = "accepted"

\* The draft that a request is about.
DraftIn(r) == proposals[r.proposal].draft

\* What a request in progress relies on, and the tables grant it.
Sound(r) ==
    /\ r \in Requests
    /\ r.step # "idle" => r.proposal \in DOMAIN proposals /\ r.reviewer \in Subjects
    /\ r.step \in Deciding => Reviewable(r.proposal, r.reviewer)
    /\ r.step = "reject" => r.decision = "rejected"
    /\ r.step \in {"insert page", "lock page", "read latest", "write"} => r.decision = "accepted"
    /\ r.insertsPage => Publishing(r)
    /\ Publishing(r) => r.insertsPage = (DraftIn(r).key \notin DOMAIN pages)
    /\ Based(r) => /\ r.latest = Latest(DraftIn(r).key, DraftIn(r).language)
                   /\ DraftIn(r).base = r.latest
    /\ (r.revision # None) = (r.step = "commit" /\ r.decision = "accepted")
    /\ r.revision \notin DOMAIN revisions

\* What the locks keep two requests from having in common.
Compatible(a, b) ==
    /\ a.step \in Deciding /\ b.step \in Deciding => a.proposal # b.proposal
    /\ PageLocked(a) /\ PageLocked(b) => DraftIn(a).key # DraftIn(b).key
    /\ a.insertsPage /\ b.insertsPage => DraftIn(a).key # DraftIn(b).key
    /\ a.revision # None => a.revision # b.revision

\* Every request is sound, and every two are compatible.
RequestsOK ==
    /\ \A w \in Workers : Sound(request[w])
    /\ \A v, w \in Workers : v # w => Compatible(request[v], request[w])

\* Two revisions of one document in one language.
SameSlot(i, j) ==
    revisions[i].key = revisions[j].key /\ revisions[i].language = revisions[j].language

\* A document has one published revision per language.
OnePublished ==
    \A i, j \in DOMAIN revisions :
        (/\ SameSlot(i, j)
         /\ revisions[i].status = "published"
         /\ revisions[j].status = "published") => i = j

\* The published revision of a document is the last, and there is one.
PublishedIsLast ==
    \A i \in DOMAIN revisions :
        \E j \in DOMAIN revisions : /\ SameSlot(i, j)
                                    /\ revisions[j].status = "published"
                                    /\ revisions[i].number <= revisions[j].number

\* The numbers of a document's revisions are 1 .. n, each of them once.
NumbersUnique ==
    \A i, j \in DOMAIN revisions : SameNumber(revisions[i], revisions[j]) => i = j

NumbersDense ==
    \A i \in DOMAIN revisions : \A n \in 1 .. revisions[i].number :
        \E j \in DOMAIN revisions : SameSlot(i, j) /\ revisions[j].number = n

\* Every document has one line of revisions, whose last is published.
HistoryOK == OnePublished /\ PublishedIsLast /\ NumbersUnique /\ NumbersDense

\* The inductive invariant: the tables, the requests, and each pair of requests.
IInv == TypeOK /\ RequestsOK /\ HistoryOK /\ CommittedLineage

-----------------------------------------------------------------------------
(* Requests.                                                               *)

\* A worker without a request relies on nothing and is in nobody's way.
LEMMA NoRequestSound ==
    ASSUME TypeOK
    PROVE  /\ Sound(NoRequest)
           /\ \A a : Compatible(a, NoRequest) /\ Compatible(NoRequest, a)
<1>1. NoRequest \in Requests
  BY DEF NoRequest, Requests, Steps
<1>2. None \notin DOMAIN revisions
  BY NoneAssumption DEF TypeOK
<1>3. Sound(NoRequest)
  BY <1>1, <1>2 DEF NoRequest, Sound, Deciding, Publishing, Based
<1>4. \A a : Compatible(a, NoRequest) /\ Compatible(NoRequest, a)
  BY DEF NoRequest, Compatible, Deciding, PageLocked
<1> QED BY <1>3, <1>4

\* While the tables rest, what a request relies on depends on the request only.
LEMMA TablesRest ==
    ASSUME UNCHANGED tables
    PROVE  /\ TypeOK /\ request' \in [Workers -> Requests] => TypeOK'
           /\ HistoryOK => HistoryOK'
           /\ CommittedLineage => CommittedLineage'
<1>1. TypeOK /\ request' \in [Workers -> Requests] => TypeOK'
  BY DEF TypeOK, tables
<1>2. HistoryOK => HistoryOK'
  BY DEF HistoryOK, OnePublished, PublishedIsLast, NumbersUnique, NumbersDense, SameSlot, tables
<1>3. CommittedLineage => CommittedLineage'
  BY DEF CommittedLineage, WrittenBy, NextNumber, tables
<1> QED BY <1>1, <1>2, <1>3

\* While the tables rest, a sound request remains sound.
LEMMA SoundRests ==
    ASSUME UNCHANGED tables, NEW v \in Workers, NEW r, request'[v] = r, Sound(r)
    PROVE  Sound(request[v])'
<1>1. Latest(DraftIn(request[v]).key, DraftIn(request[v]).language)'
         = Latest(DraftIn(r).key, DraftIn(r).language)
  BY SMT DEF Latest, Published, DraftIn, tables
<1>2. (Based(request[v]) =>
          request[v].latest = Latest(DraftIn(request[v]).key, DraftIn(request[v]).language))'
  BY <1>1 DEF Sound, Based
<1> QED BY <1>2 DEF Sound, Publishing, Based, DraftIn, Reviewable, tables

\* A step of worker w that changes its request and nothing else.
LEMMA RequestStep ==
    ASSUME IInv, NEW w \in Workers, NEW r, UNCHANGED tables,
           request' = [request EXCEPT ![w] = r], Sound(r),
           \A v \in Workers \ {w} : Compatible(request[v], r) /\ Compatible(r, request[v])
    PROVE  IInv'
<1> USE DEF IInv
<1>1. r \in Requests
  BY DEF Sound
<1>2. request' \in [Workers -> Requests]
  BY <1>1 DEF TypeOK
<1>3. \A v \in Workers : request'[v] = IF v = w THEN r ELSE request[v]
  BY DEF TypeOK
<1>4. ASSUME NEW v \in Workers PROVE Sound(request[v])'
  BY <1>3, SoundRests DEF RequestsOK
<1>5. ASSUME NEW u \in Workers, NEW v \in Workers, u # v
      PROVE  Compatible(request[u], request[v])'
  <2>1. Compatible(request'[u], request'[v])
    BY <1>3, <1>5 DEF RequestsOK
  <2> QED BY <2>1 DEF Compatible, PageLocked, DraftIn, tables
<1> QED BY <1>2, <1>4, <1>5, TablesRest DEF RequestsOK

\* The step of a request, and nothing else of it, changes.
LEMMA MovedRow ==
    ASSUME NEW r \in Requests, NEW step \in Steps
    PROVE  LET moved == [r EXCEPT !.step = step]
           IN  /\ moved \in Requests
               /\ moved.step = step
               /\ moved.proposal = r.proposal /\ moved.reviewer = r.reviewer
               /\ moved.decision = r.decision /\ moved.latest = r.latest
               /\ moved.revision = r.revision /\ moved.insertsPage = r.insertsPage
  BY DEF Requests

\* What the invariant says of the request of one worker, and of two.
LEMMA InvOfRequests ==
    ASSUME IInv, NEW w \in Workers
    PROVE  /\ TypeOK /\ request[w] \in Requests /\ Sound(request[w])
           /\ \A v \in Workers \ {w} : /\ request[v] \in Requests /\ Sound(request[v])
                                       /\ Compatible(request[v], request[w])
                                       /\ Compatible(request[w], request[v])
  BY DEF IInv, RequestsOK, TypeOK

\* A transaction that ends, in whatever way, has nothing left to rely on.
LEMMA AnswerIInv ==
    ASSUME IInv, NEW w \in Workers, Answer(w), UNCHANGED tables
    PROVE  IInv'
<1>1. TypeOK
  BY DEF IInv
<1>2. request' = [request EXCEPT ![w] = NoRequest]
  BY DEF Answer
<1> QED BY <1>1, <1>2, NoRequestSound, RequestStep

\* A step that only moves the request along, to where it is sound.
LEMMA GotoIInv ==
    ASSUME IInv, NEW w \in Workers, NEW step \in Steps, Goto(w, step), UNCHANGED tables,
           Sound([request[w] EXCEPT !.step = step]),
           \A v \in Workers \ {w} :
               /\ Compatible(request[v], [request[w] EXCEPT !.step = step])
               /\ Compatible([request[w] EXCEPT !.step = step], request[v])
    PROVE  IInv'
<1> DEFINE r == [request[w] EXCEPT !.step = step]
<1>1. request' = [request EXCEPT ![w] = r]
  BY DEF Goto
<1> HIDE DEF r
<1>2. Sound(r) /\ \A v \in Workers \ {w} : Compatible(request[v], r) /\ Compatible(r, request[v])
  BY DEF r
<1> QED BY <1>1, <1>2, RequestStep

\* A review that arrives relies on its proposal's existence and nothing else.
LEMMA ReceiveIInv ==
    ASSUME IInv, NEW w \in Workers, NEW p \in ProposalIds, NEW reviewer \in Subjects,
           NEW decision \in {"accepted", "rejected"}, ReceiveReview(w, p, reviewer, decision)
    PROVE  IInv'
<1> DEFINE r == [NoRequest EXCEPT !.step = "connect", !.proposal = p,
                                  !.reviewer = reviewer, !.decision = decision]
<1>1. request' = [request EXCEPT ![w] = r] /\ UNCHANGED tables /\ p \in DOMAIN proposals
  BY DEF ReceiveReview
<1>2. NoRequest \in Requests /\ ~NoRequest.insertsPage /\ NoRequest.revision = None
  BY DEF NoRequest, Requests, Steps
<1>3. /\ r \in Requests /\ r.step = "connect" /\ r.proposal = p /\ r.reviewer = reviewer
      /\ r.revision = None /\ ~r.insertsPage
  BY <1>2 DEF Requests, Steps
<1>4. None \notin DOMAIN revisions
  BY NoneAssumption DEF IInv, TypeOK
<1> HIDE DEF r
<1>5. Sound(r)
  BY <1>1, <1>3, <1>4 DEF Sound, Deciding, Publishing, Based
<1>6. \A v \in Workers \ {w} : Compatible(request[v], r) /\ Compatible(r, request[v])
  BY <1>3 DEF Compatible, Deciding, PageLocked
<1> QED BY <1>1, <1>5, <1>6, RequestStep

\* A transaction that begins has neither locks nor rows.
LEMMA ConnectIInv == ASSUME IInv, NEW w \in Workers, Connect(w) PROVE IInv'
<1> DEFINE r == [request[w] EXCEPT !.step = "lock proposal"]
<1>1. request[w].step = "connect" /\ "lock proposal" \in Steps
  BY DEF Connect, Steps
<1>2. /\ r \in Requests /\ r.step = "lock proposal"
      /\ r.proposal = request[w].proposal /\ r.reviewer = request[w].reviewer
      /\ r.revision = request[w].revision /\ r.insertsPage = request[w].insertsPage
  BY <1>1, InvOfRequests, MovedRow
<1> HIDE DEF r
<1>3. Sound(request[w])
  BY InvOfRequests
<1>4. Sound(r)
  BY <1>1, <1>2, <1>3 DEF Sound, Deciding, Publishing, Based
<1>5. \A v \in Workers \ {w} : Compatible(request[v], r) /\ Compatible(r, request[v])
  BY <1>1, <1>2, <1>3 DEF Sound, Compatible, Deciding, PageLocked, Publishing
<1> QED BY <1>1, <1>4, <1>5, GotoIInv DEF Connect, r

\* FOR UPDATE: nobody else is deciding the proposal that w has just checked.
LEMMA LockProposalIInv == ASSUME IInv, NEW w \in Workers, LockProposal(w) PROVE IInv'
<1>1. CASE Answer(w)
  BY <1>1, AnswerIInv DEF LockProposal
<1>2. CASE ~Answer(w)
  <2> DEFINE step == IF request[w].decision = "rejected" THEN "reject" ELSE "insert page"
             r    == [request[w] EXCEPT !.step = step]
  <2>1. /\ request[w].step = "lock proposal" /\ step \in Steps /\ Goto(w, step)
        /\ ProposalFree(w, request[w].proposal)
        /\ Reviewable(request[w].proposal, request[w].reviewer)
    BY <1>2 DEF LockProposal, Steps
  <2>2. /\ r \in Requests /\ r.step = step /\ r.decision = request[w].decision
        /\ r.proposal = request[w].proposal /\ r.reviewer = request[w].reviewer
        /\ r.revision = request[w].revision /\ r.insertsPage = request[w].insertsPage
    BY <2>1, InvOfRequests, MovedRow
  <2>3. Sound(request[w]) /\ request[w].decision \in {"accepted", "rejected"}
    BY InvOfRequests DEF Requests
  <2>4. step \in {"reject", "insert page"}
        /\ (step = "reject") = (request[w].decision = "rejected")
    OBVIOUS
  <2> HIDE DEF r, step
  <2>5. Sound(r)
    BY <2>1, <2>2, <2>3, <2>4 DEF Sound, Deciding, Publishing, Based
  <2>6. ASSUME NEW v \in Workers \ {w}, request[v].step \in Deciding
        PROVE  request[v].proposal # request[w].proposal
    BY <2>1, <2>6 DEF ProposalFree, HoldsProposal, Deciding, Steps
  <2>7. \A v \in Workers \ {w} : Compatible(request[v], r) /\ Compatible(r, request[v])
    BY <2>1, <2>2, <2>3, <2>4, <2>6 DEF Sound, Compatible, PageLocked, Publishing
  <2> QED BY <2>1, <2>5, <2>7, GotoIInv DEF LockProposal, r
<1> QED BY <1>1, <1>2

\* A rejection is written under the lock of its proposal.
LEMMA RejectIInv == ASSUME IInv, NEW w \in Workers, Reject(w) PROVE IInv'
<1> DEFINE r == [request[w] EXCEPT !.step = "commit"]
<1>1. request[w].step = "reject" /\ "commit" \in Steps
  BY DEF Reject, Steps
<1>2. /\ r \in Requests /\ r.step = "commit" /\ r.decision = request[w].decision
      /\ r.proposal = request[w].proposal /\ r.reviewer = request[w].reviewer
      /\ r.revision = request[w].revision /\ r.insertsPage = request[w].insertsPage
  BY <1>1, InvOfRequests, MovedRow
<1> HIDE DEF r
<1>3. Sound(request[w]) /\ request[w].decision = "rejected"
  BY <1>1, InvOfRequests DEF Sound
<1>4. Sound(r)
  BY <1>1, <1>2, <1>3 DEF Sound, Deciding, Publishing, Based
<1>5. \A v \in Workers \ {w} :
         Compatible(request[v], request[w]) /\ Compatible(request[w], request[v])
  BY InvOfRequests
<1>6. \A v \in Workers \ {w} : Compatible(request[v], r) /\ Compatible(r, request[v])
  BY <1>1, <1>2, <1>3, <1>5 DEF Sound, Compatible, Deciding, PageLocked, Publishing
<1> QED BY <1>1, <1>4, <1>6, GotoIInv DEF Reject, r

\* ON CONFLICT DO NOTHING: if w inserts the page, nobody else does.
LEMMA InsertPageIInv == ASSUME IInv, NEW w \in Workers, InsertPage(w) PROVE IInv'
<1> DEFINE inserts == DraftOf(w).key \notin DOMAIN pages
           r == [request[w] EXCEPT !.step = "lock page", !.insertsPage = inserts]
<1>1. /\ request[w].step = "insert page" /\ "lock page" \in Steps /\ UNCHANGED tables
      /\ ~PageBeingInserted(w, DraftOf(w).key)
  BY DEF InsertPage, Steps
<1>2. request[w] \in Requests /\ Sound(request[w]) /\ inserts \in BOOLEAN
      /\ request \in [Workers -> Requests]
  BY InvOfRequests DEF TypeOK
<1>3. request' = [request EXCEPT ![w] = r]
  BY <1>2 DEF InsertPage
<1>4. /\ r \in Requests /\ r.step = "lock page" /\ r.decision = request[w].decision
      /\ r.proposal = request[w].proposal /\ r.reviewer = request[w].reviewer
      /\ r.latest = request[w].latest
      /\ r.revision = request[w].revision /\ r.insertsPage = inserts
  BY <1>1, <1>2 DEF Requests
<1>5. DraftIn(r) = DraftOf(w) /\ DraftIn(request[w]) = DraftOf(w)
  BY <1>4 DEF DraftIn, DraftOf
<1>6. request[w].decision = "accepted" /\ request[w].revision = None
  BY <1>1, <1>2 DEF Sound
<1>7. inserts = (DraftIn(r).key \notin DOMAIN pages)
  BY <1>5
<1> HIDE DEF r, inserts
<1>8. Sound(r)
  BY <1>1, <1>2, <1>4, <1>6, <1>7 DEF Sound, Deciding, Publishing, Based
<1>9. ASSUME NEW v \in Workers \ {w}, request[v].insertsPage
      PROVE  DraftIn(request[v]).key # DraftIn(r).key
  <2>1. Sound(request[v])
    BY InvOfRequests
  <2>2. InTransaction(v)
    BY <1>9, <2>1 DEF Sound, Publishing, InTransaction
  <2> QED BY <1>1, <1>5, <1>9, <2>2 DEF PageBeingInserted, InsertsPage, DraftIn, DraftOf
<1>10. \A v \in Workers \ {w} :
          Compatible(request[v], request[w]) /\ Compatible(request[w], request[v])
  BY InvOfRequests
<1>11. \A v \in Workers \ {w} : Compatible(request[v], r) /\ Compatible(r, request[v])
  BY <1>1, <1>4, <1>6, <1>9, <1>10 DEF Compatible, Deciding, PageLocked
<1> QED BY <1>1, <1>3, <1>8, <1>11, RequestStep

\* FOR UPDATE: nobody else has the page of w locked.
LEMMA LockPageIInv == ASSUME IInv, NEW w \in Workers, LockPage(w) PROVE IInv'
<1>1. CASE Answer(w)
  BY <1>1, AnswerIInv DEF LockPage
<1>2. CASE ~Answer(w)
  <2> DEFINE r == [request[w] EXCEPT !.step = "read latest"]
  <2>1. /\ request[w].step = "lock page" /\ "read latest" \in Steps /\ Goto(w, "read latest")
        /\ UNCHANGED tables /\ PageFree(w, DraftOf(w).key)
    BY <1>2 DEF LockPage, Steps
  <2>2. /\ r \in Requests /\ r.step = "read latest" /\ r.decision = request[w].decision
        /\ r.proposal = request[w].proposal /\ r.reviewer = request[w].reviewer
        /\ r.revision = request[w].revision /\ r.insertsPage = request[w].insertsPage
    BY <2>1, InvOfRequests, MovedRow
  <2> HIDE DEF r
  <2>3. Sound(request[w]) /\ request[w].decision = "accepted"
    BY <2>1, InvOfRequests DEF Sound
  <2>4. DraftIn(r) = DraftIn(request[w])
    BY <2>2 DEF DraftIn
  <2>5. Sound(r)
    BY <2>1, <2>2, <2>3, <2>4 DEF Sound, Deciding, Publishing, Based
  <2>6. ASSUME NEW v \in Workers \ {w}, PageLocked(request[v])
        PROVE  DraftIn(request[v]).key # DraftIn(request[w]).key
    BY <2>1, <2>6 DEF PageFree, HoldsPage, PageLocked, DraftIn, DraftOf
  <2>7. \A v \in Workers \ {w} :
           Compatible(request[v], request[w]) /\ Compatible(request[w], request[v])
    BY InvOfRequests
  <2>8. \A v \in Workers \ {w} : Compatible(request[v], r) /\ Compatible(r, request[v])
    BY <2>1, <2>2, <2>3, <2>4, <2>6, <2>7 DEF Compatible, Deciding
  <2> QED BY <2>1, <2>5, <2>8, GotoIInv DEF r
<1> QED BY <1>1, <1>2

\* What w reads, it reads while it has the page locked.
LEMMA ReadLatestIInv == ASSUME IInv, NEW w \in Workers, ReadLatest(w) PROVE IInv'
<1>1. CASE Answer(w)
  BY <1>1, AnswerIInv DEF ReadLatest
<1>2. CASE ~Answer(w)
  <2> DEFINE latest == Latest(DraftOf(w).key, DraftOf(w).language)
             r      == [request[w] EXCEPT !.step = "write", !.latest = latest]
  <2>1. request[w] \in Requests /\ Sound(request[w]) /\ request \in [Workers -> Requests]
    BY InvOfRequests DEF TypeOK
  <2>2. /\ request[w].step = "read latest" /\ "write" \in Steps /\ UNCHANGED tables
        /\ DraftOf(w).base = latest
    BY <1>2 DEF ReadLatest, Steps, BaseIsCurrent
  <2>3. request' = [request EXCEPT ![w] = r]
    BY <1>2, <2>1 DEF ReadLatest, BaseIsCurrent
  <2>4. DraftOf(w).base \in RevisionIds \cup {None}
    BY <2>1, <2>2 DEF IInv, TypeOK, Sound, DraftOf, ProposalRows, Drafts
  <2>5. /\ r \in Requests /\ r.step = "write" /\ r.decision = request[w].decision
        /\ r.proposal = request[w].proposal /\ r.reviewer = request[w].reviewer
        /\ r.latest = latest
        /\ r.revision = request[w].revision /\ r.insertsPage = request[w].insertsPage
    <3> HIDE DEF latest
    <3> QED BY <2>1, <2>2, <2>4 DEF Requests
  <2>6. DraftIn(r) = DraftIn(request[w]) /\ DraftIn(r) = DraftOf(w)
    BY <2>5 DEF DraftIn, DraftOf
  <2>7. latest = Latest(DraftIn(r).key, DraftIn(r).language)
    BY <2>6
  <2>8. request[w].decision = "accepted"
    BY <2>1, <2>2 DEF Sound
  <2> HIDE DEF r, latest
  <2>9. Sound(r)
    BY <2>1, <2>2, <2>5, <2>6, <2>7, <2>8 DEF Sound, Deciding, Publishing, Based
  <2>10. \A v \in Workers \ {w} :
            Compatible(request[v], request[w]) /\ Compatible(request[w], request[v])
    BY InvOfRequests
  <2>11. \A v \in Workers \ {w} : Compatible(request[v], r) /\ Compatible(r, request[v])
    BY <2>2, <2>5, <2>6, <2>8, <2>10 DEF Compatible, Deciding, PageLocked
  <2> QED BY <2>2, <2>3, <2>9, <2>11, RequestStep
<1> QED BY <1>1, <1>2

\* The row a worker inserts has an identifier and a page that nobody else inserts.
LEMMA WriteIInv ==
    ASSUME IInv, NEW w \in Workers, NEW id \in RevisionIds, Write(w, id)
    PROVE  IInv'
<1>1. CASE Answer(w)
  BY <1>1, AnswerIInv DEF Write
<1>2. CASE ~Answer(w)
  <2> DEFINE r == [request[w] EXCEPT !.step = "commit", !.revision = id]
  <2>1. request[w] \in Requests /\ Sound(request[w]) /\ request \in [Workers -> Requests]
    BY InvOfRequests DEF TypeOK
  <2>2. /\ request[w].step = "write" /\ "commit" \in Steps /\ UNCHANGED tables
        /\ id \notin DOMAIN revisions /\ \A v \in Workers : request[v].revision # id
    BY <1>2 DEF Write, Steps
  <2>3. request' = [request EXCEPT ![w] = r]
    BY <1>2, <2>1 DEF Write
  <2>4. /\ r \in Requests /\ r.step = "commit" /\ r.decision = request[w].decision
        /\ r.proposal = request[w].proposal /\ r.reviewer = request[w].reviewer
        /\ r.latest = request[w].latest
        /\ r.revision = id /\ r.insertsPage = request[w].insertsPage
    BY <2>1, <2>2 DEF Requests
  <2>5. DraftIn(r) = DraftIn(request[w])
    BY <2>4 DEF DraftIn
  <2>6. request[w].decision = "accepted" /\ id # None
    BY <2>1, <2>2, NoneAssumption DEF Sound
  <2> HIDE DEF r
  <2>7. Sound(r)
    BY <2>1, <2>2, <2>4, <2>5, <2>6 DEF Sound, Deciding, Publishing, Based
  <2>8. \A v \in Workers \ {w} :
           Compatible(request[v], request[w]) /\ Compatible(request[w], request[v])
    BY InvOfRequests
  <2>9. \A v \in Workers \ {w} : Compatible(request[v], r) /\ Compatible(r, request[v])
    BY <2>2, <2>4, <2>5, <2>6, <2>8 DEF Compatible, Deciding, PageLocked
  <2> QED BY <2>2, <2>3, <2>7, <2>9, RequestStep
<1> QED BY <1>1, <1>2

-----------------------------------------------------------------------------
(* What is published.                                                      *)

\* The latest revision is the published one, if there is any.
LatestIsPublished ==
    \A k, l : /\ Latest(k, l) = None <=> Published(k, l) = {}
              /\ Latest(k, l) # None => Published(k, l) = {Latest(k, l)}

\* The current revision of a document is its only published one, or there is none.
LEMMA LatestFacts == TypeOK /\ OnePublished => LatestIsPublished
<1> SUFFICES ASSUME TypeOK, OnePublished, NEW k, NEW l
             PROVE  /\ Latest(k, l) = None <=> Published(k, l) = {}
                    /\ Latest(k, l) # None => Published(k, l) = {Latest(k, l)}
  BY DEF LatestIsPublished
<1>1. Published(k, l) \subseteq RevisionIds
  BY DEF TypeOK, Published
<1>2. CASE Published(k, l) = {}
  BY <1>2 DEF Latest
<1>3. CASE Published(k, l) # {}
  <2>1. PICK i \in Published(k, l) : TRUE
    BY <1>3
  <2>2. \A j \in Published(k, l) : j = i
    BY <2>1 DEF OnePublished, Published, SameSlot
  <2>3. revisions[i].number <= revisions[i].number
    <3>1. revisions[i] \in RevisionRows
      BY <2>1 DEF Published, TypeOK
    <3> QED BY <3>1 DEF RevisionRows
  <2>4. Latest(k, l) \in Published(k, l)
    BY <1>3, <2>1, <2>2, <2>3 DEF Latest
  <2> QED BY <1>1, <1>3, <2>2, <2>4, NoneAssumption
<1> QED BY <1>2, <1>3

\* The next number of a document is the first that no revision of it has.
LEMMA NextNumberIsNew ==
    ASSUME TypeOK, HistoryOK, NEW k, NEW l
    PROVE  /\ NextNumber(Latest(k, l)) \in Nat \ {0}
           /\ \A i \in DOMAIN revisions :
                 revisions[i].key = k /\ revisions[i].language = l =>
                    revisions[i].number \in 1 .. NextNumber(Latest(k, l)) - 1
           /\ \A n \in 1 .. NextNumber(Latest(k, l)) - 1 :
                 \E i \in DOMAIN revisions : /\ revisions[i].key = k
                                             /\ revisions[i].language = l
                                             /\ revisions[i].number = n
<1> DEFINE latest == Latest(k, l)
<1>1. /\ latest = None <=> Published(k, l) = {}
      /\ latest # None => Published(k, l) = {latest}
  BY LatestFacts DEF HistoryOK, LatestIsPublished
<1>2. \A i \in DOMAIN revisions : revisions[i].number \in Nat \ {0}
  BY DEF TypeOK, RevisionRows
<1>3. \A i \in DOMAIN revisions :
         revisions[i].key = k /\ revisions[i].language = l =>
            \E j \in Published(k, l) : revisions[i].number <= revisions[j].number
  BY DEF HistoryOK, PublishedIsLast, SameSlot, Published
<1> HIDE DEF latest
<1>4. CASE latest = None
  BY <1>1, <1>3, <1>4 DEF NextNumber, latest
<1>5. CASE latest # None
  <2>1. /\ latest \in DOMAIN revisions /\ revisions[latest].key = k
        /\ revisions[latest].language = l
    BY <1>1, <1>5 DEF Published
  <2>2. NextNumber(latest) = revisions[latest].number + 1
    BY <1>5 DEF NextNumber
  <2>3. NextNumber(latest) - 1 = revisions[latest].number
    BY <1>2, <2>1, <2>2
  <2>4. \A i \in DOMAIN revisions :
           revisions[i].key = k /\ revisions[i].language = l =>
              revisions[i].number \in 1 .. revisions[latest].number
    BY <1>1, <1>2, <1>3, <1>5, <2>1
  <2>5. \A n \in 1 .. revisions[latest].number :
           \E i \in DOMAIN revisions : /\ revisions[i].key = k
                                       /\ revisions[i].language = l
                                       /\ revisions[i].number = n
    BY <2>1 DEF HistoryOK, NumbersDense, SameSlot
  <2> QED BY <1>2, <2>1, <2>2, <2>3, <2>4, <2>5 DEF latest
<1> QED BY <1>4, <1>5

-----------------------------------------------------------------------------
(* Commits.                                                                *)

\* A request that keeps still stays sound when what it relies on does.
LEMMA SoundSurvives ==
    ASSUME TypeOK, NEW v \in Workers, Sound(request[v]), request'[v] = request[v],
           request[v].step # "idle" =>
               /\ request[v].proposal \in DOMAIN proposals'
               /\ DraftIn(request[v])' = DraftIn(request[v]),
           request[v].step \in Deciding =>
               proposals'[request[v].proposal] = proposals[request[v].proposal],
           Publishing(request[v]) =>
               (DraftIn(request[v]).key \in DOMAIN pages')
                  = (DraftIn(request[v]).key \in DOMAIN pages),
           Based(request[v]) =>
               Latest(DraftIn(request[v]).key, DraftIn(request[v]).language)'
                  = Latest(DraftIn(request[v]).key, DraftIn(request[v]).language),
           request[v].revision \notin DOMAIN revisions'
    PROVE  Sound(request[v])'
<1>1. (request[v].step # "idle" =>
          request[v].proposal \in DOMAIN proposals /\ request[v].reviewer \in Subjects)'
  BY DEF Sound
<1>2. (request[v].step \in Deciding => Reviewable(request[v].proposal, request[v].reviewer))'
  BY DEF Sound, Reviewable
<1>3. (Publishing(request[v]) =>
          request[v].insertsPage = (DraftIn(request[v]).key \notin DOMAIN pages))'
  BY DEF Sound, Publishing
<1>4. (Based(request[v]) =>
          /\ request[v].latest = Latest(DraftIn(request[v]).key, DraftIn(request[v]).language)
          /\ DraftIn(request[v]).base = request[v].latest)'
  BY DEF Sound, Based
<1> QED BY <1>1, <1>2, <1>3, <1>4 DEF Sound, Publishing

\* Requests that keep still stay compatible when their drafts do.
LEMMA CompatibleSurvives ==
    ASSUME NEW u \in Workers, NEW v \in Workers, Sound(request[u]), Sound(request[v]),
           Compatible(request[u], request[v]),
           request'[u] = request[u], request'[v] = request[v],
           request[u].step # "idle" => DraftIn(request[u])' = DraftIn(request[u]),
           request[v].step # "idle" => DraftIn(request[v])' = DraftIn(request[v])
    PROVE  Compatible(request[u], request[v])'
  BY DEF Compatible, Sound, Publishing, PageLocked

\* A new proposal disturbs nobody.
LEMMA CreateIInv ==
    ASSUME IInv, NEW p \in ProposalIds, NEW draft \in Drafts, CreateProposal(p, draft)
    PROVE  IInv'
<1> DEFINE row == [draft |-> draft, status |-> "pending", reviewer |-> None]
<1>1. /\ TypeOK /\ RequestsOK /\ HistoryOK /\ CommittedLineage
      /\ UNCHANGED <<pages, revisions, request>>
      /\ p \notin DOMAIN proposals /\ draft.base \in DOMAIN revisions \cup {None}
  BY DEF IInv, CreateProposal
<1>2. /\ DOMAIN proposals' = DOMAIN proposals \cup {p}
      /\ proposals'[p] = row
      /\ \A q \in DOMAIN proposals : proposals'[q] = proposals[q]
  BY DEF CreateProposal
<1>3. row \in ProposalRows
  BY DEF ProposalRows
<1>4. TypeOK'
  <2>1. proposals' \in [DOMAIN proposals' -> ProposalRows]
    BY <1>1, <1>3 DEF TypeOK, CreateProposal
  <2>2. Event("proposal.created", draft.proposer, p) \in EventRows
    BY DEF Event, EventRows, Drafts
  <2>3. \A q \in DOMAIN proposals' : proposals'[q].draft.base \in DOMAIN revisions \cup {None}
    BY <1>1, <1>2 DEF TypeOK
  <2> QED BY <1>1, <1>2, <2>1, <2>2, <2>3 DEF TypeOK, CreateProposal
<1> HIDE DEF row
<1>5. \A v \in Workers : request[v].step # "idle" =>
         /\ request[v].proposal \in DOMAIN proposals'
         /\ DraftIn(request[v])' = DraftIn(request[v])
         /\ proposals'[request[v].proposal] = proposals[request[v].proposal]
  BY <1>1, <1>2 DEF RequestsOK, Sound, DraftIn
<1>6. \A k, l : Latest(k, l)' = Latest(k, l)
  BY <1>1, SMT DEF Latest, Published
<1>7. ASSUME NEW v \in Workers PROVE Sound(request[v])'
  <2>1. Sound(request[v]) /\ request'[v] = request[v]
    BY <1>1 DEF RequestsOK
  <2>2. request[v].step \in Deciding \/ Publishing(request[v]) \/ Based(request[v])
        => request[v].step # "idle"
    BY DEF Deciding, Publishing, Based
  <2>3. request[v].step # "idle" =>
           Latest(DraftIn(request[v]).key, DraftIn(request[v]).language)'
              = Latest(DraftIn(request[v]).key, DraftIn(request[v]).language)
    BY <1>5, <1>6
  <2>4. request[v].revision \notin DOMAIN revisions'
    BY <1>1, <2>1 DEF Sound
  <2> QED BY <1>1, <1>5, <2>1, <2>2, <2>3, <2>4, SoundSurvives
<1>8. ASSUME NEW u \in Workers, NEW v \in Workers, u # v
      PROVE  Compatible(request[u], request[v])'
  BY <1>1, <1>5, <1>8, CompatibleSurvives DEF RequestsOK
<1>9. HistoryOK'
  BY <1>1
  DEF HistoryOK, OnePublished, PublishedIsLast, NumbersUnique, NumbersDense, SameSlot, SameNumber
<1>10. CommittedLineage'
  <2>1. \A i : ~WrittenBy(i, p)'
    BY <1>2 DEF WrittenBy, row
  <2>2. \A i \in DOMAIN revisions : \A q \in DOMAIN proposals : WrittenBy(i, q)' = WrittenBy(i, q)
    BY <1>1, <1>2 DEF WrittenBy, NextNumber
  <2> QED BY <1>1, <1>2, <2>1, <2>2 DEF CommittedLineage, row
<1> QED BY <1>4, <1>7, <1>8, <1>9, <1>10 DEF IInv, RequestsOK

\* A commit decides a pending proposal, and no other.
LEMMA CommitDecides ==
    ASSUME IInv, NEW w \in Workers, Commit(w)
    PROVE  LET p == request[w].proposal
           IN  /\ p \in DOMAIN proposals /\ p \in ProposalIds /\ request[w].reviewer \in Subjects
               /\ Reviewable(p, request[w].reviewer)
               /\ proposals[p] \in ProposalRows /\ DraftOf(w) \in Drafts
               /\ DOMAIN proposals' = DOMAIN proposals
               /\ proposals' \in [DOMAIN proposals' -> ProposalRows]
               /\ \A q \in DOMAIN proposals :
                     /\ proposals'[q].draft = proposals[q].draft
                     /\ q # p => proposals'[q] = proposals[q]
               /\ proposals'[p].status = request[w].decision
               /\ proposals'[p].reviewer = request[w].reviewer
<1> DEFINE p == request[w].proposal
<1>1. /\ request[w].step = "commit" /\ Sound(request[w])
      /\ request[w].decision \in {"accepted", "rejected"}
  BY InvOfRequests DEF Commit, Requests
<1>2. /\ p \in DOMAIN proposals /\ request[w].reviewer \in Subjects
      /\ Reviewable(p, request[w].reviewer)
  BY <1>1 DEF Sound, Deciding
<1>3. proposals[p] \in ProposalRows /\ p \in ProposalIds /\ DraftOf(w) \in Drafts
  BY <1>2 DEF IInv, TypeOK, DraftOf, ProposalRows
<1>4. /\ DecidedProposal(w) \in ProposalRows
      /\ DecidedProposal(w).draft = proposals[p].draft
      /\ DecidedProposal(w).status = request[w].decision
      /\ DecidedProposal(w).reviewer = request[w].reviewer
  BY <1>1, <1>2, <1>3 DEF DecidedProposal, ProposalRows
<1>5. proposals' = [proposals EXCEPT ![p] = DecidedProposal(w)]
  BY DEF Commit
<1>6. proposals \in [DOMAIN proposals -> ProposalRows]
  BY DEF IInv, TypeOK
<1> HIDE DEF p
<1>7. /\ DOMAIN proposals' = DOMAIN proposals
      /\ \A q \in DOMAIN proposals :
            proposals'[q] = IF q = p THEN DecidedProposal(w) ELSE proposals[q]
      /\ proposals' \in [DOMAIN proposals' -> ProposalRows]
  BY <1>2, <1>4, <1>5, <1>6
<1>8. \A q \in DOMAIN proposals : proposals'[q].draft = proposals[q].draft
  BY <1>4, <1>7
<1> QED BY <1>2, <1>3, <1>4, <1>7, <1>8 DEF p

\* What an acceptance does to pages and revisions: its revision is the only
\* published one of its document and language, and no other document notices.
LEMMA AcceptanceEffect ==
    ASSUME IInv, NEW w \in Workers, Commit(w), request[w].decision = "accepted"
    PROVE  LET draft == DraftOf(w)
               new   == NewRevision(w)
               id    == request[w].revision
           IN  /\ draft.base = Latest(draft.key, draft.language)
               /\ request[w].latest = draft.base
               /\ id \in RevisionIds \ DOMAIN revisions
               /\ new \in RevisionRows /\ new.status = "published"
               /\ new.key = draft.key /\ new.language = draft.language
               /\ new.number = NextNumber(Latest(draft.key, draft.language))
               /\ new.body = draft.body /\ new.author = draft.proposer
               /\ DOMAIN pages' = DOMAIN pages \cup {draft.key}
               /\ pages' \in [DOMAIN pages' -> Languages]
               /\ DOMAIN revisions' = DOMAIN revisions \cup {id}
               /\ revisions' \in [DOMAIN revisions' -> RevisionRows]
               /\ revisions'[id] = new
               /\ \A i \in DOMAIN revisions :
                     /\ revisions'[i].key = revisions[i].key
                     /\ revisions'[i].language = revisions[i].language
                     /\ revisions'[i].number = revisions[i].number
                     /\ revisions'[i].body = revisions[i].body
                     /\ revisions'[i].author = revisions[i].author
                     /\ revisions'[i].status =
                           IF revisions[i].key = draft.key /\ revisions[i].language = draft.language
                           THEN "superseded" ELSE revisions[i].status
<1> DEFINE draft  == DraftOf(w)
           new    == NewRevision(w)
           id     == request[w].revision
           latest == Latest(draft.key, draft.language)
<1>1. /\ TypeOK /\ HistoryOK /\ Sound(request[w]) /\ request[w] \in Requests
      /\ request[w].step = "commit" /\ draft = DraftIn(request[w]) /\ draft \in Drafts
  BY InvOfRequests, CommitDecides DEF IInv, Commit, DraftIn, DraftOf
<1>2. request[w].latest = latest /\ draft.base = latest
  BY <1>1 DEF Sound, Based
<1>3. id \in RevisionIds \ DOMAIN revisions
  BY <1>1, NoneAssumption DEF Sound, Requests
<1>4. NextNumber(latest) \in Nat \ {0}
  BY <1>1, NextNumberIsNew
<1>5. /\ new \in RevisionRows /\ new.status = "published"
      /\ new.key = draft.key /\ new.language = draft.language
      /\ new.number = NextNumber(latest)
      /\ new.body = draft.body /\ new.author = draft.proposer
  <2>1. new = [key |-> draft.key, language |-> draft.language,
               number |-> NextNumber(latest), body |-> draft.body,
               status |-> "published", author |-> draft.proposer]
    BY <1>2 DEF NewRevision
  <2> HIDE DEF new, latest
  <2> QED BY <1>1, <1>4, <2>1 DEF RevisionRows, Drafts
<1>6. /\ DOMAIN pages' = DOMAIN pages \cup {draft.key}
      /\ pages' \in [DOMAIN pages' -> Languages]
  <2>1. pages' = [k \in DOMAIN pages \cup {draft.key} |->
                     IF request[w].insertsPage /\ k = draft.key
                     THEN draft.canonical ELSE pages[k]]
    BY DEF Commit, CommitAcceptance
  <2>2. ~request[w].insertsPage => draft.key \in DOMAIN pages
    BY <1>1 DEF Sound, Publishing, Requests
  <2>3. pages \in [DOMAIN pages -> Languages] /\ draft.canonical \in Languages
    BY <1>1 DEF TypeOK, Drafts
  <2> QED BY <2>1, <2>2, <2>3
<1>7. revisions' = [i \in DOMAIN revisions \cup {id} |->
                       IF i = id THEN new
                       ELSE IF i = latest THEN Superseded(revisions[i])
                       ELSE revisions[i]]
  BY <1>2 DEF Commit, CommitAcceptance
<1>8. /\ latest = None <=> Published(draft.key, draft.language) = {}
      /\ latest # None => Published(draft.key, draft.language) = {latest}
  BY <1>1, LatestFacts DEF HistoryOK, LatestIsPublished
<1> HIDE DEF draft, new, latest, id
<1>9. DOMAIN revisions' = DOMAIN revisions \cup {id} /\ revisions'[id] = new
  BY <1>7
<1>10. ASSUME NEW i \in DOMAIN revisions
       PROVE  /\ revisions'[i] \in RevisionRows
              /\ revisions'[i].key = revisions[i].key
              /\ revisions'[i].language = revisions[i].language
              /\ revisions'[i].number = revisions[i].number
              /\ revisions'[i].body = revisions[i].body
              /\ revisions'[i].author = revisions[i].author
              /\ revisions'[i].status =
                    IF revisions[i].key = draft.key /\ revisions[i].language = draft.language
                    THEN "superseded" ELSE revisions[i].status
  <2>1. revisions[i] \in RevisionRows /\ i # id /\ i # None
    BY <1>1, <1>3, NoneAssumption DEF TypeOK
  <2>2. revisions'[i] = IF i = latest THEN Superseded(revisions[i]) ELSE revisions[i]
    BY <1>7, <2>1
  <2>3. i = latest <=> /\ revisions[i].key = draft.key
                       /\ revisions[i].language = draft.language
                       /\ revisions[i].status = "published"
    BY <1>8, <2>1 DEF Published
  <2>4. revisions[i].status \in {"published", "superseded"}
    BY <2>1 DEF RevisionRows
  <2>5. /\ Superseded(revisions[i]) \in RevisionRows
        /\ Superseded(revisions[i]).key = revisions[i].key
        /\ Superseded(revisions[i]).language = revisions[i].language
        /\ Superseded(revisions[i]).number = revisions[i].number
        /\ Superseded(revisions[i]).body = revisions[i].body
        /\ Superseded(revisions[i]).author = revisions[i].author
        /\ Superseded(revisions[i]).status = "superseded"
    BY <2>1 DEF Superseded, RevisionRows
  <2> QED BY <2>1, <2>2, <2>3, <2>4, <2>5
<1>11. revisions' \in [DOMAIN revisions' -> RevisionRows]
  BY <1>5, <1>7, <1>9, <1>10
<1> QED BY <1>2, <1>3, <1>5, <1>6, <1>9, <1>10, <1>11 DEF draft, new, latest, id

\* An acceptance extends the history of its document by one.
LEMMA AcceptanceHistory ==
    ASSUME IInv, NEW w \in Workers, Commit(w), request[w].decision = "accepted"
    PROVE  HistoryOK'
<1> DEFINE draft == DraftOf(w)
           new   == NewRevision(w)
           id    == request[w].revision
           next  == NextNumber(Latest(draft.key, draft.language))
           InSlot(i) == revisions[i].key = draft.key /\ revisions[i].language = draft.language
<1>1. TypeOK /\ HistoryOK
  BY DEF IInv
<1>2. /\ id \notin DOMAIN revisions
      /\ new.status = "published" /\ new.number = next
      /\ new.key = draft.key /\ new.language = draft.language
      /\ DOMAIN revisions' = DOMAIN revisions \cup {id}
      /\ revisions'[id] = new
      /\ \A i \in DOMAIN revisions :
            /\ revisions'[i].key = revisions[i].key
            /\ revisions'[i].language = revisions[i].language
            /\ revisions'[i].number = revisions[i].number
            /\ revisions'[i].status = IF InSlot(i) THEN "superseded" ELSE revisions[i].status
  BY AcceptanceEffect
<1>3. next \in Nat \ {0}
  BY <1>1, NextNumberIsNew
<1>4. \A i \in DOMAIN revisions : InSlot(i) => revisions[i].number \in 1 .. next - 1
  BY <1>1, NextNumberIsNew
<1>5. \A n \in 1 .. next - 1 : \E i \in DOMAIN revisions : InSlot(i) /\ revisions[i].number = n
  BY <1>1, NextNumberIsNew
<1>6. \A i \in DOMAIN revisions : revisions[i].number \in Nat \ {0}
  BY <1>1 DEF TypeOK, RevisionRows
<1> HIDE DEF next, draft, new, id
<1>7. OnePublished'
  BY <1>1, <1>2 DEF HistoryOK, OnePublished, SameSlot
<1>8. PublishedIsLast'
  <2> SUFFICES ASSUME NEW i \in DOMAIN revisions'
               PROVE  \E j \in DOMAIN revisions' : /\ SameSlot(i, j)'
                                                   /\ revisions'[j].status = "published"
                                                   /\ revisions'[i].number <= revisions'[j].number
    BY DEF PublishedIsLast
  <2>1. CASE i = id
    BY <1>2, <1>3, <2>1 DEF SameSlot
  <2>2. CASE i \in DOMAIN revisions /\ InSlot(i)
    <3>1. revisions[i].number <= next
      BY <1>3, <1>4, <1>6, <2>2
    <3> QED BY <1>2, <2>2, <3>1 DEF SameSlot
  <2>3. CASE i \in DOMAIN revisions /\ ~InSlot(i)
    <3>1. PICK j \in DOMAIN revisions : /\ SameSlot(i, j)
                                        /\ revisions[j].status = "published"
                                        /\ revisions[i].number <= revisions[j].number
      BY <1>1, <2>3 DEF HistoryOK, PublishedIsLast
    <3> QED BY <1>2, <2>3, <3>1 DEF SameSlot
  <2> QED BY <1>2, <2>1, <2>2, <2>3
<1>9. NumbersUnique'
  <2>1. \A i \in DOMAIN revisions : InSlot(i) => revisions[i].number # next
    BY <1>3, <1>4
  <2> QED BY <1>1, <1>2, <2>1 DEF HistoryOK, NumbersUnique, SameNumber
<1>10. NumbersDense'
  <2> SUFFICES ASSUME NEW i \in DOMAIN revisions', NEW n \in 1 .. revisions'[i].number
               PROVE  \E j \in DOMAIN revisions' : SameSlot(i, j)' /\ revisions'[j].number = n
    BY DEF NumbersDense
  <2>1. CASE i \in DOMAIN revisions
    <3>1. PICK j \in DOMAIN revisions : SameSlot(i, j) /\ revisions[j].number = n
      BY <1>1, <1>2, <2>1 DEF HistoryOK, NumbersDense
    <3> QED BY <1>2, <2>1, <3>1 DEF SameSlot
  <2>2. CASE i = id /\ n = next
    BY <1>2, <2>2 DEF SameSlot
  <2>3. CASE i = id /\ n # next
    <3>1. n \in 1 .. next - 1
      BY <1>2, <1>3, <2>3
    <3>2. PICK j \in DOMAIN revisions : InSlot(j) /\ revisions[j].number = n
      BY <1>5, <3>1
    <3> QED BY <1>2, <2>3, <3>2 DEF SameSlot
  <2> QED BY <1>2, <2>1, <2>2, <2>3
<1> QED BY <1>7, <1>8, <1>9, <1>10 DEF HistoryOK

\* The pair of an accepted proposal and its revision joins the others.
LEMMA AcceptanceLineage ==
    ASSUME IInv, NEW w \in Workers, Commit(w), request[w].decision = "accepted"
    PROVE  CommittedLineage'
<1>a. PICK draft, new, id, p, next :
          /\ draft = DraftOf(w) /\ new = NewRevision(w)
          /\ id = request[w].revision /\ p = request[w].proposal
          /\ next = NextNumber(Latest(draft.key, draft.language))
  OBVIOUS
<1>1. TypeOK /\ HistoryOK /\ CommittedLineage
  BY DEF IInv
<1>2. /\ draft.base = Latest(draft.key, draft.language)
      /\ id \in RevisionIds \ DOMAIN revisions
      /\ new.number = next /\ new.body = draft.body /\ new.author = draft.proposer
      /\ new.key = draft.key /\ new.language = draft.language
      /\ DOMAIN revisions' = DOMAIN revisions \cup {id}
      /\ revisions'[id] = new
      /\ \A i \in DOMAIN revisions :
            /\ revisions'[i].key = revisions[i].key
            /\ revisions'[i].language = revisions[i].language
            /\ revisions'[i].number = revisions[i].number
            /\ revisions'[i].body = revisions[i].body
            /\ revisions'[i].author = revisions[i].author
  BY <1>a, AcceptanceEffect
<1>3. /\ p \in DOMAIN proposals /\ proposals[p].status = "pending"
      /\ proposals[p].draft = draft
      /\ DOMAIN proposals' = DOMAIN proposals
      /\ \A q \in DOMAIN proposals : /\ proposals'[q].draft = proposals[q].draft
                                     /\ q # p => proposals'[q] = proposals[q]
      /\ proposals'[p].status = "accepted"
      /\ proposals'[p].reviewer \notin {None, draft.proposer}
  BY <1>a, CommitDecides, NoneAssumption DEF Reviewable, DraftOf
<1>4. \A q \in DOMAIN proposals : proposals[q].draft.base \in DOMAIN revisions \cup {None}
  BY <1>1 DEF TypeOK
<1>5. \A i \in DOMAIN revisions :
         revisions[i].key = draft.key /\ revisions[i].language = draft.language =>
            revisions[i].number # next
  <2>1. next \in Nat \ {0}
    BY <1>1, <1>a, NextNumberIsNew
  <2>2. \A i \in DOMAIN revisions :
           revisions[i].key = draft.key /\ revisions[i].language = draft.language =>
              revisions[i].number \in 1 .. next - 1
    BY <1>1, <1>a, NextNumberIsNew
  <2> QED BY <2>1, <2>2
<1>6. draft.base # None => /\ revisions[draft.base].key = draft.key
                           /\ revisions[draft.base].language = draft.language
  BY <1>1, <1>2, LatestFacts DEF HistoryOK, LatestIsPublished, Published
<1>7. next = NextNumber(draft.base)
  BY <1>2, <1>a
<1>8. \A q \in DOMAIN proposals :
         NextNumber(proposals[q].draft.base)' = NextNumber(proposals[q].draft.base)
  BY <1>2, <1>3, <1>4 DEF NextNumber
<1>9. \A i \in DOMAIN revisions, q \in DOMAIN proposals :
         q # p => WrittenBy(i, q)' = WrittenBy(i, q)
  <2> SUFFICES ASSUME NEW i \in DOMAIN revisions, NEW q \in DOMAIN proposals, q # p
               PROVE  WrittenBy(i, q)' = WrittenBy(i, q)
    OBVIOUS
  <2>1. /\ NextNumber(proposals[q].draft.base)' = NextNumber(proposals[q].draft.base)
        /\ proposals'[q] = proposals[q]
        /\ proposals[q].draft.base \in DOMAIN revisions \cup {None}
    BY <1>3, <1>4, <1>8
  <2> QED BY <1>2, <2>1 DEF WrittenBy
<1>10. \A i \in DOMAIN revisions : ~WrittenBy(i, p) /\ ~WrittenBy(i, p)'
  BY <1>2, <1>3, <1>5, <1>7, <1>8 DEF WrittenBy
<1>11. WrittenBy(id, p)'
  <2>1. draft.base # None => /\ revisions'[draft.base].key = draft.key
                             /\ revisions'[draft.base].language = draft.language
    BY <1>2, <1>3, <1>4, <1>6
  <2> QED BY <1>2, <1>3, <1>7, <1>8, <2>1 DEF WrittenBy
<1>12. \A q \in DOMAIN proposals : WrittenBy(id, q)' => q = p
  <2> SUFFICES ASSUME NEW q \in DOMAIN proposals, q # p, WrittenBy(id, q)'
               PROVE  FALSE
    OBVIOUS
  <2>1. /\ proposals[q].status = "accepted"
        /\ proposals[q].draft.key = draft.key /\ proposals[q].draft.language = draft.language
        /\ NextNumber(proposals[q].draft.base) = next
    BY <1>2, <1>3, <1>8 DEF WrittenBy
  <2>2. PICK i \in DOMAIN revisions : WrittenBy(i, q)
    BY <1>1, <2>1 DEF CommittedLineage
  <2>3. /\ revisions[i].key = draft.key /\ revisions[i].language = draft.language
        /\ revisions[i].number = next
    BY <2>1, <2>2 DEF WrittenBy
  <2> QED BY <1>5, <2>3
<1>13. \A i \in DOMAIN revisions' :
          \E q \in DOMAIN proposals' :
             WrittenBy(i, q)' /\ \A s \in DOMAIN proposals' : WrittenBy(i, s)' => s = q
  <2> SUFFICES ASSUME NEW i \in DOMAIN revisions'
               PROVE  \E q \in DOMAIN proposals :
                         WrittenBy(i, q)' /\ \A s \in DOMAIN proposals : WrittenBy(i, s)' => s = q
    BY <1>3
  <2>1. CASE i = id
    BY <1>3, <1>11, <1>12, <2>1
  <2>2. CASE i \in DOMAIN revisions
    <3>1. PICK q \in DOMAIN proposals :
             WrittenBy(i, q) /\ \A s \in DOMAIN proposals : WrittenBy(i, s) => s = q
      BY <1>1, <2>2 DEF CommittedLineage
    <3> QED BY <1>9, <1>10, <2>2, <3>1
  <2> QED BY <1>2, <2>1, <2>2
<1>14. \A q \in DOMAIN proposals' :
          proposals'[q].status = "accepted" => \E i \in DOMAIN revisions' : WrittenBy(i, q)'
  <2> SUFFICES ASSUME NEW q \in DOMAIN proposals, proposals'[q].status = "accepted"
               PROVE  \E i \in DOMAIN revisions' : WrittenBy(i, q)'
    BY <1>3
  <2>1. CASE q = p
    BY <1>2, <1>11, <2>1
  <2>2. CASE q # p
    <3>1. PICK i \in DOMAIN revisions : WrittenBy(i, q)
      BY <1>1, <1>3, <2>2 DEF CommittedLineage
    <3> QED BY <1>2, <1>9, <2>2, <3>1
  <2> QED BY <2>1, <2>2
<1> QED BY <1>13, <1>14 DEF CommittedLineage

\* Rows, foreign keys and events are in shape after a commit.
LEMMA CommitTyped == ASSUME IInv, NEW w \in Workers, Commit(w) PROVE TypeOK'
<1>1. /\ TypeOK /\ request[w] \in Requests /\ request[w].decision \in {"accepted", "rejected"}
      /\ request' \in [Workers -> Requests]
  <2>1. NoRequest \in Requests
    BY DEF NoRequest, Requests, Steps
  <2> QED BY <2>1, InvOfRequests DEF TypeOK, Commit, Answer, Requests
<1>2. /\ request[w].proposal \in ProposalIds /\ request[w].reviewer \in Subjects
      /\ DraftOf(w) \in Drafts
      /\ DOMAIN proposals' = DOMAIN proposals
      /\ proposals' \in [DOMAIN proposals' -> ProposalRows]
      /\ \A q \in DOMAIN proposals : proposals'[q].draft = proposals[q].draft
  BY CommitDecides
<1>3. CASE request[w].decision = "rejected"
  <2>1. Event("proposal.rejected", request[w].reviewer, request[w].proposal) \in EventRows
    BY <1>2 DEF Event, EventRows
  <2>2. events' \subseteq EventRows /\ UNCHANGED <<pages, revisions>>
    BY <1>1, <1>3, <2>1 DEF TypeOK, Commit, CommitRejection
  <2> QED BY <1>1, <1>2, <2>2 DEF TypeOK
<1>4. CASE request[w].decision = "accepted"
  <2>1. /\ request[w].revision \in RevisionIds
        /\ NewRevision(w).key = DraftOf(w).key
        /\ DOMAIN pages' = DOMAIN pages \cup {DraftOf(w).key}
        /\ pages' \in [DOMAIN pages' -> Languages]
        /\ DOMAIN revisions' = DOMAIN revisions \cup {request[w].revision}
        /\ revisions' \in [DOMAIN revisions' -> RevisionRows]
        /\ revisions'[request[w].revision] = NewRevision(w)
        /\ \A i \in DOMAIN revisions : revisions'[i].key = revisions[i].key
    BY <1>4, AcceptanceEffect
  <2>2. /\ Event("proposal.accepted", request[w].reviewer, request[w].proposal) \in EventRows
        /\ Event("revision.published", request[w].reviewer, request[w].revision) \in EventRows
    BY <1>2, <2>1 DEF Event, EventRows
  <2>3. events' \subseteq EventRows
    BY <1>1, <1>4, <2>2 DEF TypeOK, Commit, CommitAcceptance
  <2>4. DOMAIN pages' \subseteq Keys /\ DOMAIN revisions' \subseteq RevisionIds
    BY <1>1, <1>2, <2>1 DEF TypeOK, Drafts
  <2>5. /\ \A i \in DOMAIN revisions' : revisions'[i].key \in DOMAIN pages'
        /\ \A q \in DOMAIN proposals' : proposals'[q].draft.base \in DOMAIN revisions' \cup {None}
    BY <1>1, <1>2, <2>1 DEF TypeOK
  <2> QED BY <1>1, <1>2, <2>1, <2>3, <2>4, <2>5 DEF TypeOK
<1> QED BY <1>1, <1>3, <1>4

\* The locks of w kept everybody else from relying on what it changes.
LEMMA CommitRequests ==
    ASSUME IInv, NEW w \in Workers, Commit(w), HistoryOK'
    PROVE  RequestsOK'
<1> DEFINE p     == request[w].proposal
           draft == DraftOf(w)
           id    == request[w].revision
<1>1. /\ TypeOK /\ RequestsOK /\ HistoryOK
      /\ request[w].step = "commit" /\ Sound(request[w]) /\ request[w] \in Requests
      /\ draft = DraftIn(request[w])
      /\ request' = [request EXCEPT ![w] = NoRequest]
  BY InvOfRequests DEF IInv, Commit, Answer, DraftOf, DraftIn
<1>2. request'[w] = NoRequest /\ \A v \in Workers \ {w} : request'[v] = request[v]
  BY <1>1 DEF TypeOK
<1>3. /\ DOMAIN proposals' = DOMAIN proposals
      /\ \A q \in DOMAIN proposals : /\ proposals'[q].draft = proposals[q].draft
                                     /\ q # p => proposals'[q] = proposals[q]
  BY CommitDecides
<1>4. /\ request[w].decision = "accepted" =>
            /\ DOMAIN pages' = DOMAIN pages \cup {draft.key}
            /\ DOMAIN revisions' = DOMAIN revisions \cup {id}
      /\ request[w].decision # "accepted" => UNCHANGED <<pages, revisions>>
  <2>1. CASE request[w].decision = "accepted"
    BY <2>1, AcceptanceEffect
  <2>2. CASE request[w].decision # "accepted"
    BY <1>1, <2>2 DEF Commit, CommitRejection, Requests
  <2> QED BY <2>1, <2>2
<1>5. \A v \in Workers : request[v].step # "idle" =>
         /\ request[v].proposal \in DOMAIN proposals'
         /\ DraftIn(request[v]).key = DraftIn(request[v]).key
         /\ proposals'[request[v].proposal].draft = proposals[request[v].proposal].draft
  BY <1>1, <1>3 DEF RequestsOK, Sound
<1>6. \A v \in Workers \ {w} : request[v].step # "idle" => DraftIn(request[v])'
         = DraftIn(request[v])
  BY <1>2, <1>5 DEF DraftIn
<1>7. \A k, l : /\ request[w].decision = "accepted" => k # draft.key
                => Latest(k, l)' = Latest(k, l)
  <2> SUFFICES ASSUME NEW k, NEW l, request[w].decision = "accepted" => k # draft.key
               PROVE  Latest(k, l)' = Latest(k, l)
    OBVIOUS
  <2>1. CASE request[w].decision # "accepted"
    <3>1. revisions' = revisions
      BY <1>4, <2>1
    <3> QED BY <3>1, SMT DEF Latest, Published
  <2>2. CASE request[w].decision = "accepted"
    <3>1. /\ NewRevision(w).key = draft.key /\ revisions'[id] = NewRevision(w)
          /\ id \notin DOMAIN revisions /\ DOMAIN revisions' = DOMAIN revisions \cup {id}
          /\ \A i \in DOMAIN revisions :
                /\ revisions'[i].key = revisions[i].key
                /\ revisions'[i].language = revisions[i].language
                /\ revisions[i].key # draft.key => revisions'[i].status = revisions[i].status
      BY <2>2, AcceptanceEffect
    <3>2. Published(k, l)' = Published(k, l)
      BY <2>2, <3>1 DEF Published
    <3>3. TypeOK' /\ OnePublished' => LatestIsPublished'
      BY LatestFacts, PTL
    <3>4. LatestIsPublished /\ LatestIsPublished'
      BY <1>1, <3>3, LatestFacts, CommitTyped DEF HistoryOK
    <3> QED BY <3>2, <3>4 DEF LatestIsPublished
  <2> QED BY <2>1, <2>2
<1>8. ASSUME NEW v \in Workers PROVE Sound(request[v])'
  <2>1. CASE v = w
    <3>1. TypeOK' => Sound(NoRequest)'
      BY NoRequestSound, PTL
    <3>2. Sound(NoRequest)'
      BY <3>1, CommitTyped
    <3> QED BY <1>2, <2>1, <3>2
        DEF Sound, Publishing, Based, DraftIn, Reviewable, NoRequest
  <2>2. CASE v # w
    <3>1. /\ Sound(request[v]) /\ request[v] \in Requests /\ request'[v] = request[v]
          /\ Compatible(request[v], request[w]) /\ Compatible(request[w], request[v])
      BY <1>2, <2>2, InvOfRequests
    <3>2. request[v].step # "idle" =>
             request[v].proposal \in DOMAIN proposals' /\ DraftIn(request[v])' = DraftIn(request[v])
      BY <1>5, <1>6, <2>2
    <3>3. request[v].step \in Deciding =>
             proposals'[request[v].proposal] = proposals[request[v].proposal]
      BY <1>1, <1>3, <3>1 DEF Compatible, Deciding, Sound
    <3>4. Publishing(request[v]) =>
             (DraftIn(request[v]).key \in DOMAIN pages')
                = (DraftIn(request[v]).key \in DOMAIN pages)
      <4> SUFFICES ASSUME Publishing(request[v]), DraftIn(request[v]).key = draft.key,
                          draft.key \notin DOMAIN pages, request[w].decision = "accepted"
                   PROVE  FALSE
        BY <1>4
      <4>1. request[v].insertsPage /\ request[w].insertsPage
        BY <1>1, <3>1 DEF Sound, Publishing
      <4> QED BY <1>1, <3>1, <4>1 DEF Compatible
    <3>5. Based(request[v]) =>
             Latest(DraftIn(request[v]).key, DraftIn(request[v]).language)'
                = Latest(DraftIn(request[v]).key, DraftIn(request[v]).language)
      <4> SUFFICES ASSUME Based(request[v])
                   PROVE  Latest(DraftIn(request[v]).key, DraftIn(request[v]).language)'
                             = Latest(DraftIn(request[v]).key, DraftIn(request[v]).language)
        OBVIOUS
      <4>1. request[w].decision = "accepted" => DraftIn(request[v]).key # draft.key
        BY <1>1, <3>1 DEF Compatible, Based, PageLocked
      <4>2. DraftIn(request[v])' = DraftIn(request[v])
        BY <3>2 DEF Based
      <4> QED BY <1>7, <4>1, <4>2
    <3>6. request[v].revision \notin DOMAIN revisions'
      BY <1>1, <1>4, <3>1 DEF Compatible, Sound
    <3> QED BY <1>1, <3>1, <3>2, <3>3, <3>4, <3>5, <3>6, SoundSurvives
  <2> QED BY <2>1, <2>2
<1>9. ASSUME NEW u \in Workers, NEW v \in Workers, u # v
      PROVE  Compatible(request[u], request[v])'
  <2>1. CASE u = w \/ v = w
    <3>1. NoRequest.step = "idle" /\ ~NoRequest.insertsPage /\ NoRequest.revision = None
      BY DEF NoRequest
    <3>2. CASE u = w
      BY <1>2, <3>1, <3>2 DEF Compatible, Deciding, PageLocked
    <3>3. CASE v = w
      BY <1>2, <3>1, <3>3 DEF Compatible, Deciding, PageLocked
    <3> QED BY <2>1, <3>2, <3>3
  <2>2. CASE u # w /\ v # w
    <3>1. /\ Sound(request[u]) /\ Sound(request[v]) /\ Compatible(request[u], request[v])
          /\ request'[u] = request[u] /\ request'[v] = request[v]
      BY <1>1, <1>2, <1>9, <2>2 DEF RequestsOK
    <3> QED BY <1>6, <2>2, <3>1, CompatibleSurvives
  <2> QED BY <2>1, <2>2
<1> QED BY <1>8, <1>9 DEF RequestsOK

\* A commit, of whichever decision, keeps the invariant.
LEMMA CommitIInv == ASSUME IInv, NEW w \in Workers, Commit(w) PROVE IInv'
<1>1. request[w].decision \in {"accepted", "rejected"}
  BY InvOfRequests DEF Requests
<1>2. CASE request[w].decision = "accepted"
  BY <1>2, AcceptanceHistory, AcceptanceLineage, CommitRequests, CommitTyped DEF IInv
<1>3. CASE request[w].decision = "rejected"
  <2>1. UNCHANGED <<pages, revisions>>
    BY <1>3 DEF Commit, CommitRejection
  <2>2. HistoryOK'
    BY <2>1 DEF IInv, HistoryOK, OnePublished, PublishedIsLast, NumbersUnique, NumbersDense,
                SameSlot, SameNumber
  <2>3. PICK p : p = request[w].proposal
    OBVIOUS
  <2>4. /\ p \in DOMAIN proposals /\ proposals[p].status = "pending"
        /\ DOMAIN proposals' = DOMAIN proposals
        /\ \A q \in DOMAIN proposals : q # p => proposals'[q] = proposals[q]
        /\ proposals'[p].status = "rejected"
    BY <1>3, <2>3, CommitDecides DEF Reviewable
  <2>5. \A i : ~WrittenBy(i, p) /\ ~WrittenBy(i, p)'
    BY <2>4 DEF WrittenBy
  <2>6. \A i \in DOMAIN revisions, q \in DOMAIN proposals :
           q # p => WrittenBy(i, q)' = WrittenBy(i, q)
    BY <2>1, <2>4 DEF WrittenBy, NextNumber
  <2>7. CommittedLineage'
    BY <2>1, <2>4, <2>5, <2>6 DEF IInv, CommittedLineage
  <2> QED BY <2>2, <2>7, CommitRequests, CommitTyped DEF IInv
<1> QED BY <1>1, <1>2, <1>3

-----------------------------------------------------------------------------
(* The invariant.                                                          *)

\* The invariant holds of empty tables and idle workers.
LEMMA InitIInv == Init => IInv
<1> SUFFICES ASSUME Init PROVE IInv
  OBVIOUS
<1>1. DOMAIN pages = {} /\ DOMAIN revisions = {} /\ DOMAIN proposals = {}
  BY DEF Init
<1>2. TypeOK
  <2>1. NoRequest \in Requests
    BY DEF NoRequest, Requests, Steps
  <2>2. /\ pages \in [DOMAIN pages -> Languages]
        /\ revisions \in [DOMAIN revisions -> RevisionRows]
        /\ proposals \in [DOMAIN proposals -> ProposalRows]
    BY <1>1 DEF Init
  <2> QED BY <1>1, <2>1, <2>2 DEF Init, TypeOK
<1>3. RequestsOK
  BY <1>2, NoRequestSound DEF Init, RequestsOK
<1>4. HistoryOK /\ CommittedLineage
  BY <1>1
  DEF HistoryOK, OnePublished, PublishedIsLast, NumbersUnique, NumbersDense, CommittedLineage
<1> QED BY <1>2, <1>3, <1>4 DEF IInv

\* Every step keeps the invariant.
LEMMA NextIInv == IInv /\ [Next]_vars => IInv'
<1> SUFFICES ASSUME IInv, [Next]_vars PROVE IInv'
  OBVIOUS
<1>1. ASSUME NEW p \in ProposalIds, NEW draft \in Drafts, CreateProposal(p, draft)
      PROVE  IInv'
  BY <1>1, CreateIInv
<1>2. ASSUME NEW w \in Workers, NEW p \in ProposalIds, NEW reviewer \in Subjects,
             NEW decision \in {"accepted", "rejected"}, ReceiveReview(w, p, reviewer, decision)
      PROVE  IInv'
  BY <1>2, ReceiveIInv
<1>3. ASSUME NEW w \in Workers, Statement(w) PROVE IInv'
  BY <1>3, ConnectIInv, LockProposalIInv, RejectIInv, InsertPageIInv, LockPageIInv,
     ReadLatestIInv, WriteIInv, CommitIInv
  DEF Statement
<1>4. ASSUME NEW w \in Workers, Abort(w) PROVE IInv'
  BY <1>4, AnswerIInv DEF Abort
<1>5. CASE UNCHANGED vars
  <2>1. UNCHANGED tables /\ request' = request
    BY <1>5 DEF vars, tables
  <2>2. \A v \in Workers : Sound(request[v])'
    BY <2>1, SoundRests DEF IInv, RequestsOK
  <2>3. \A u, v \in Workers : u # v => Compatible(request[u], request[v])'
    BY <2>1 DEF IInv, RequestsOK, Compatible, PageLocked, DraftIn, tables
  <2>4. request' \in [Workers -> Requests]
    BY <2>1 DEF IInv, TypeOK
  <2> QED BY <2>1, <2>2, <2>3, <2>4, TablesRest DEF IInv, RequestsOK
<1> QED BY <1>1, <1>2, <1>3, <1>4, <1>5 DEF Next

\* The invariant of tables, requests and pairs of requests holds throughout.
THEOREM InductiveInvariant == Spec => []IInv
  BY InitIInv, NextIInv, PTL DEF Spec

-----------------------------------------------------------------------------
(* What follows from it.                                                   *)

\* Tables and requests are in shape, and foreign keys resolve.
THEOREM TypeCorrect == Spec => []TypeOK
<1>1. IInv => TypeOK
  BY DEF IInv
<1> QED BY <1>1, InductiveInvariant, PTL

\* What a transaction checked before it waited for a lock still holds when it
\* writes, for any number of reviewers that contend.
THEOREM LocksCoverChecks == Spec => []ChecksStillHold
<1>1. IInv => ChecksStillHold
  <2> SUFFICES ASSUME IInv, NEW w \in Workers
               PROVE  LET r == request[w]
                      IN  /\ r.step \in Deciding => Reviewable(r.proposal, r.reviewer)
                          /\ r.step \in {"lock page", "read latest", "write"} =>
                                \/ r.insertsPage /\ DraftOf(w).key \notin DOMAIN pages
                                \/ ~r.insertsPage /\ DraftOf(w).key \in DOMAIN pages
                          /\ r.step = "write" \/ (r.step = "commit" /\ r.decision = "accepted") =>
                                r.latest = Latest(DraftOf(w).key, DraftOf(w).language)
    BY DEF ChecksStillHold, Deciding
  <2>1. Sound(request[w]) /\ request[w] \in Requests /\ DraftIn(request[w]) = DraftOf(w)
    BY InvOfRequests DEF DraftIn, DraftOf
  <2> QED BY <2>1 DEF Sound, Publishing, Based, Requests
<1> QED BY <1>1, InductiveInvariant, PTL

\* The page lock keeps a number that is about to be used from everybody else.
LEMMA NumbersAreFree == IInv => NoInternalError
<1> SUFFICES ASSUME IInv, NEW w \in Workers, request[w].step = "write"
             PROVE  ~Duplicate(w) /\ ~DuplicatePending(w)
  BY DEF NoInternalError
<1> DEFINE draft == DraftOf(w)
           next  == NextNumber(Latest(draft.key, draft.language))
<1>1. Sound(request[w]) /\ DraftIn(request[w]) = draft /\ request[w].decision = "accepted"
  BY InvOfRequests DEF DraftIn, DraftOf, Sound
<1>2. request[w].latest = Latest(draft.key, draft.language)
  BY <1>1 DEF Sound, Based
<1>3. NewRevision(w).key = draft.key /\ NewRevision(w).language = draft.language
      /\ NewRevision(w).number = next
  BY <1>2 DEF NewRevision
<1>4. next \in Nat \ {0}
      /\ \A i \in DOMAIN revisions :
            revisions[i].key = draft.key /\ revisions[i].language = draft.language =>
               revisions[i].number \in 1 .. next - 1
  BY NextNumberIsNew DEF IInv
<1>5. ~Duplicate(w)
  <2> HIDE DEF next, draft
  <2> QED BY <1>3, <1>4 DEF Duplicate, SameNumber
<1>6. ASSUME NEW v \in Workers \ {w}, request[v].revision # None,
             SameNumber(NewRevision(v), NewRevision(w))
      PROVE  FALSE
  <2>1. PageLocked(request[v]) /\ PageLocked(request[w])
    BY <1>1, <1>6, InvOfRequests DEF Sound, PageLocked
  <2>2. DraftIn(request[v]).key = draft.key
    BY <1>3, <1>6 DEF SameNumber, NewRevision, DraftIn, DraftOf
  <2> QED BY <1>1, <2>1, <2>2, InvOfRequests DEF Compatible
<1> QED BY <1>5, <1>6 DEF DuplicatePending, Duplicates

\* The unique constraint on revision numbers, whose violation would be answered
\* as an internal error, has nothing to refuse and nothing to wait for.
THEOREM ConflictsAreTranslated == Spec => []NoInternalError
  BY NumbersAreFree, InductiveInvariant, PTL

\* Who waits for somebody waits for one who is further on than itself: behind a
\* statement are only locks and rows that later statements hold.
LEMMA WaitersAreBehind ==
    ASSUME IInv, NEW w \in Workers, NEW v \in Workers, WaitsFor(w, v)
    PROVE  /\ request[w].step = "connect" => request[v].step \notin {"idle", "connect"}
           /\ request[w].step = "lock proposal" => request[v].step \in Deciding
           /\ request[w].step = "insert page" =>
                 request[v].step \in {"lock page", "read latest", "write", "commit"}
           /\ request[w].step = "lock page" =>
                 request[v].step \in {"read latest", "write", "commit"}
           /\ request[w].step \in {"connect", "lock proposal", "insert page", "lock page"}
<1>1. request[v] \in Requests /\ Sound(request[v])
  BY InvOfRequests
<1>2. request[w].step = "write" => ~Duplicates(v, w)
  BY NumbersAreFree DEF NoInternalError, DuplicatePending, WaitsFor
<1> QED
  BY <1>1, <1>2
  DEF WaitsFor, InTransaction, HoldsProposal, InsertsPage, HoldsPage, Deciding, Publishing,
      Sound, Requests, Steps

\* Reviewers never wait for each other in a circle: of any of them, one who is
\* furthest on waits for none of the others.
THEOREM ReviewersDoNotDeadlock == Spec => []SomebodyProceeds
<1>1. IInv => SomebodyProceeds
  <2> SUFFICES ASSUME IInv, NEW reviewers \in (SUBSET Workers) \ {{}},
                      \A w \in reviewers : \E v \in reviewers : WaitsFor(w, v)
               PROVE  FALSE
    BY DEF SomebodyProceeds
  <2> DEFINE In(steps) == \E w \in reviewers : request[w].step \in steps
  <2>1. In({"connect", "lock proposal", "insert page", "lock page"})
    BY WaitersAreBehind
  <2>2. ~In({"reject", "read latest", "write", "commit"})
    BY WaitersAreBehind
  <2>3. ~In({"lock page"})
    BY <2>2, WaitersAreBehind
  <2>4. ~In({"insert page"})
    BY <2>2, <2>3, WaitersAreBehind
  <2>5. ~In({"lock proposal"})
    BY <2>2, <2>3, <2>4, WaitersAreBehind DEF Deciding
  <2>6. ~In({"connect"})
    <3>1. ASSUME NEW v \in reviewers, request[v].step \notin {"idle", "connect"}
          PROVE  FALSE
      BY <2>2, <2>3, <2>4, <2>5, <3>1, InvOfRequests DEF Requests, Steps
    <3> QED BY <3>1, WaitersAreBehind
  <2> QED BY <2>1, <2>3, <2>4, <2>5, <2>6
<1> QED BY <1>1, InductiveInvariant, PTL

\* What the guard of the next statement of w asks of the others.
Granted(w) ==
    LET r == request[w]
    IN  /\ r.step = "connect" => ConnectionFree
        /\ r.step = "lock proposal" => ProposalFree(w, r.proposal)
        /\ r.step = "insert page" => ~PageBeingInserted(w, DraftOf(w).key)
        /\ r.step = "lock page" => PageFree(w, DraftOf(w).key)
        /\ r.step = "write" => ~DuplicatePending(w)

\* WaitsFor leaves no wait out: who waits for nobody is granted what it asks for.
LEMMA WaitsForIsComplete ==
    ASSUME NEW w \in Workers, \A v \in Workers : ~WaitsFor(w, v)
    PROVE  Granted(w)
<1>1. ASSUME request[w].step = "connect", ~ConnectionFree PROVE FALSE
  <2>1. \A v \in Workers : ~InTransaction(v)
    BY <1>1 DEF WaitsFor, InTransaction
  <2>2. Cardinality({v \in Workers : InTransaction(v)}) = 0
    BY <2>1, FS_EmptySet
  <2> QED BY <1>1, <2>2, ConnectionsAssumption DEF ConnectionFree
<1> QED
  BY <1>1 DEF WaitsFor, Granted, ProposalFree, PageBeingInserted, PageFree, DuplicatePending

\* While there are reviews, the guard of one of them holds: no wait of the code is
\* missing from SomebodyProceeds.
THEOREM SomebodyIsGranted ==
    Spec => []((\E w \in Workers : request[w].step # "idle")
               => \E w \in Workers : request[w].step # "idle" /\ Granted(w))
<1> DEFINE Busy == {w \in Workers : request[w].step # "idle"}
<1>1. IInv /\ SomebodyProceeds /\ Busy # {} => \E w \in Busy : Granted(w)
  <2> SUFFICES ASSUME IInv, SomebodyProceeds, Busy # {} PROVE \E w \in Busy : Granted(w)
    OBVIOUS
  <2>1. PICK w \in Busy : \A v \in Busy : ~WaitsFor(w, v)
    BY DEF SomebodyProceeds
  <2>2. \A v \in Workers : WaitsFor(w, v) => v \in Busy
    BY WaitersAreBehind DEF Deciding
  <2> QED BY <2>1, <2>2, WaitsForIsComplete
<1>2. IInv /\ SomebodyProceeds
      => ((\E w \in Workers : request[w].step # "idle")
          => \E w \in Workers : request[w].step # "idle" /\ Granted(w))
  BY <1>1
<1> QED BY <1>2, InductiveInvariant, ReviewersDoNotDeadlock, PTL

\* Search and lookup agree at every moment, between any two statements.
THEOREM ReadersAgree == Spec => []AcceptancesLookAtomic
<1>1. IInv => AcceptancesLookAtomic
  <2> SUFFICES ASSUME IInv, NEW k \in Keys, NEW l \in Languages
               PROVE  LET fetched == {GetPublished(k, l)} \ {None}
                          hits(found) == {i \in found : /\ revisions[i].key = k
                                                        /\ revisions[i].language = l}
                      IN  hits(Search(l)) = fetched /\ hits(Search(None)) = fetched
    BY DEF AcceptancesLookAtomic
  <2>1. l # None
    BY NoneAssumption
  <2>2. /\ Latest(k, l) = None <=> Published(k, l) = {}
        /\ Latest(k, l) # None => Published(k, l) = {Latest(k, l)}
    BY LatestFacts DEF IInv, HistoryOK, LatestIsPublished
  <2>3. {GetPublished(k, l)} \ {None} = Published(k, l)
    <3>1. Published(k, l) # {} => k \in DOMAIN pages
      BY DEF Published, IInv, TypeOK
    <3> QED BY <2>2, <3>1 DEF GetPublished
  <2>4. {i \in Search(l) : revisions[i].key = k /\ revisions[i].language = l} = Published(k, l)
    BY DEF Search, Published
  <2>5. {i \in Search(None) : revisions[i].key = k /\ revisions[i].language = l} = Published(k, l)
    BY DEF Search, Published
  <2> QED BY <2>3, <2>4, <2>5
<1> QED BY <1>1, InductiveInvariant, PTL

\* Revisions and accepted proposals stand in one-to-one correspondence.
THEOREM LineageReviewed == Spec => []CommittedLineage
<1>1. IInv => CommittedLineage
  BY DEF IInv
<1> QED BY <1>1, InductiveInvariant, PTL

-----------------------------------------------------------------------------
(* History is append-only.                                                 *)

\* A step takes back no decision, no revision and no event.
LEMMA NextAppends == IInv /\ [Next]_vars => [AppendOnlyStep]_vars
<1> SUFFICES ASSUME IInv, Next
             PROVE  AppendOnlyStep
  OBVIOUS
<1>1. \A i \in DOMAIN revisions : revisions[i] \in RevisionRows
  BY DEF IInv, TypeOK
<1>2. UNCHANGED revisions => \A i \in DOMAIN revisions :
         /\ i \in DOMAIN revisions'
         /\ [revisions'[i] EXCEPT !.status = revisions[i].status] = revisions[i]
         /\ revisions[i].status = "superseded" => revisions'[i].status = "superseded"
  BY <1>1 DEF RevisionRows
<1>3. ASSUME UNCHANGED tables PROVE AppendOnlyStep
  BY <1>2, <1>3 DEF AppendOnlyStep, tables
<1>4. ASSUME NEW p \in ProposalIds, NEW draft \in Drafts, CreateProposal(p, draft)
      PROVE  AppendOnlyStep
  BY <1>2, <1>4 DEF AppendOnlyStep, CreateProposal
<1>5. ASSUME NEW w \in Workers, Commit(w) PROVE AppendOnlyStep
  <2>1. \A p \in DOMAIN proposals :
           /\ p \in DOMAIN proposals'
           /\ proposals'[p].draft = proposals[p].draft
           /\ proposals[p].status # "pending" => proposals'[p] = proposals[p]
    BY <1>5, CommitDecides DEF Reviewable
  <2>2. events \subseteq events'
    BY <1>5 DEF Commit, CommitRejection, CommitAcceptance
  <2>3. CASE request[w].decision = "rejected"
    BY <1>2, <1>5, <2>1, <2>2, <2>3 DEF AppendOnlyStep, Commit, CommitRejection
  <2>4. CASE request[w].decision = "accepted"
    <3>1. ASSUME NEW i \in DOMAIN revisions
          PROVE  /\ i \in DOMAIN revisions'
                 /\ [revisions'[i] EXCEPT !.status = revisions[i].status] = revisions[i]
                 /\ revisions[i].status = "superseded" => revisions'[i].status = "superseded"
      <4>1. /\ i \in DOMAIN revisions' /\ revisions'[i] \in RevisionRows
            /\ revisions'[i].key = revisions[i].key
            /\ revisions'[i].language = revisions[i].language
            /\ revisions'[i].number = revisions[i].number
            /\ revisions'[i].body = revisions[i].body
            /\ revisions'[i].author = revisions[i].author
            /\ revisions'[i].status \in {"superseded", revisions[i].status}
        BY <1>5, <2>4, AcceptanceEffect
      <4> QED BY <1>1, <4>1 DEF RevisionRows
    <3> QED BY <2>1, <2>2, <3>1 DEF AppendOnlyStep
  <2>5. request[w].decision \in {"accepted", "rejected"}
    BY InvOfRequests DEF Requests
  <2> QED BY <2>3, <2>4, <2>5
<1> QED
  BY <1>3, <1>4, <1>5
  DEF Next, Statement, Connect, LockProposal, Reject, InsertPage, LockPage, ReadLatest, Write,
      Abort, ReceiveReview

\* No interleaving of reviewers takes back what one of them has committed.
THEOREM AppendOnlyForever == Spec => DecisionsStand
  BY InductiveInvariant, NextAppends, PTL DEF Spec, DecisionsStand

-----------------------------------------------------------------------------
(* The contract.                                                           *)

\* The history of a document holds, at each number, the content of the revision
\* of that number.
HistoryIs ==
    \A k, l :
        /\ HistoryOf(<<k, l>>) \in Seq(Bodies)
        /\ Len(HistoryOf(<<k, l>>)) = NextNumber(Latest(k, l)) - 1
        /\ \A i \in DOMAIN revisions :
              revisions[i].key = k /\ revisions[i].language = l =>
                 /\ revisions[i].number \in 1 .. Len(HistoryOf(<<k, l>>))
                 /\ HistoryOf(<<k, l>>)[revisions[i].number] = revisions[i].body
        /\ \A n \in 1 .. Len(HistoryOf(<<k, l>>)) :
              \E i \in DOMAIN revisions : /\ revisions[i].key = k
                                          /\ revisions[i].language = l
                                          /\ revisions[i].number = n

\* The invariant makes the histories of the contract what HistoryIs says.
LEMMA HistoryFacts == TypeOK /\ HistoryOK => HistoryIs
<1> SUFFICES ASSUME TypeOK, HistoryOK, NEW k, NEW l
             PROVE  /\ HistoryOf(<<k, l>>) \in Seq(Bodies)
                    /\ Len(HistoryOf(<<k, l>>)) = NextNumber(Latest(k, l)) - 1
                    /\ \A i \in DOMAIN revisions :
                          revisions[i].key = k /\ revisions[i].language = l =>
                             /\ revisions[i].number \in 1 .. Len(HistoryOf(<<k, l>>))
                             /\ HistoryOf(<<k, l>>)[revisions[i].number] = revisions[i].body
                    /\ \A n \in 1 .. Len(HistoryOf(<<k, l>>)) :
                          \E i \in DOMAIN revisions : /\ revisions[i].key = k
                                                      /\ revisions[i].language = l
                                                      /\ revisions[i].number = n
  BY DEF HistoryIs
<1> DEFINE len == NextNumber(Latest(k, l)) - 1
           Of(i) == revisions[i].key = k /\ revisions[i].language = l
<1>1. /\ len \in Nat
      /\ \A i \in DOMAIN revisions : Of(i) => revisions[i].number \in 1 .. len
      /\ \A n \in 1 .. len : \E i \in DOMAIN revisions : Of(i) /\ revisions[i].number = n
  <2>1. NextNumber(Latest(k, l)) \in Nat \ {0}
    BY NextNumberIsNew
  <2> QED BY <2>1, NextNumberIsNew
<1>2. \A i, j \in DOMAIN revisions :
         Of(i) /\ Of(j) /\ revisions[i].number = revisions[j].number => i = j
  BY DEF HistoryOK, NumbersUnique, SameNumber
<1>3. ASSUME NEW i \in DOMAIN revisions, Of(i)
      PROVE  BodyOf(<<k, l>>, revisions[i].number) = revisions[i].body
  <2> DEFINE Sought(j) == /\ SlotOf(revisions[j].key, revisions[j].language) = <<k, l>>
                          /\ revisions[j].number = revisions[i].number
  <2>1. \A j : Sought(j) <=> Of(j) /\ revisions[j].number = revisions[i].number
    BY DEF SlotOf
  <2>2. (CHOOSE j \in DOMAIN revisions : Sought(j)) = i
    <3>1. Sought(i) /\ \A j \in DOMAIN revisions : Sought(j) => j = i
      BY <1>2, <1>3, <2>1
    <3> HIDE DEF Sought
    <3> QED BY <3>1
  <2> QED BY <2>2 DEF BodyOf
<1>4. HistoryOf(<<k, l>>) = [n \in 1 .. len |-> BodyOf(<<k, l>>, n)]
  BY DEF HistoryOf
<1> HIDE DEF len
<1>5. \A i \in DOMAIN revisions :
         Of(i) => HistoryOf(<<k, l>>)[revisions[i].number] = revisions[i].body
  BY <1>1, <1>3, <1>4
<1>6. \A n \in 1 .. len : BodyOf(<<k, l>>, n) \in Bodies
  <2> SUFFICES ASSUME NEW n \in 1 .. len PROVE BodyOf(<<k, l>>, n) \in Bodies
    OBVIOUS
  <2>1. PICK i \in DOMAIN revisions : Of(i) /\ revisions[i].number = n
    BY <1>1
  <2>2. revisions[i].body \in Bodies
    BY DEF TypeOK, RevisionRows
  <2> QED BY <1>3, <2>1, <2>2
<1>7. HistoryOf(<<k, l>>) \in Seq(Bodies) /\ Len(HistoryOf(<<k, l>>)) = len
  BY <1>1, <1>4, <1>6
<1> QED BY <1>1, <1>5, <1>7 DEF len

\* The variables of the contract, as the tables show them.
Slots == Keys \X Languages

PublicHistory == [slot \in Slots |-> HistoryOf(slot)]

PublicOwner == [k \in Keys |-> IF k \in DOMAIN pages THEN "reviewed" ELSE "none"]

PublicRequest(p) ==
    [slot     |-> SlotOf(proposals[p].draft.key, proposals[p].draft.language),
     base     |-> VersionOf(proposals[p].draft.base),
     proposer |-> proposals[p].draft.proposer,
     body     |-> proposals[p].draft.body,
     status   |-> proposals[p].status,
     reviewer |-> proposals[p].reviewer]

PublicRequests == [p \in DOMAIN proposals |-> PublicRequest(p)]

\* What the steps of the contract say of them.
PublicDecide(p, reviewer, status) ==
    /\ p \in DOMAIN PublicRequests
    /\ PublicRequests[p].status = "pending"
    /\ PublicRequests[p].proposer # reviewer
    /\ PublicRequests' = [PublicRequests EXCEPT ![p].status = status, ![p].reviewer = reviewer]

\* A rejected request and nothing else: the contract's Decline.
LEMMA DeclineIs ==
    ASSUME NEW p, NEW reviewer, PublicDecide(p, reviewer, "rejected"),
           UNCHANGED <<PublicHistory, PublicOwner>>
    PROVE  Promise!Decline(p, reviewer)
  BY DEF Promise!Decline, Promise!Decide, PublicDecide, PublicHistory, PublicOwner,
         PublicRequests, PublicRequest, Slots

\* An accepted request whose content extends the history: the contract's Approve.
LEMMA ApproveIs ==
    ASSUME NEW p, NEW reviewer, PublicDecide(p, reviewer, "accepted"),
           PublicOwner[PublicRequests[p].slot[1]] # "source",
           PublicRequests[p].base =
              (IF PublicHistory[PublicRequests[p].slot] = <<>>
               THEN None
               ELSE [slot   |-> PublicRequests[p].slot,
                     number |-> Len(PublicHistory[PublicRequests[p].slot])]),
           PublicHistory' = [PublicHistory EXCEPT ![PublicRequests[p].slot] =
                                Append(@, PublicRequests[p].body)],
           PublicOwner' = [PublicOwner EXCEPT ![PublicRequests[p].slot[1]] = "reviewed"]
    PROVE  Promise!Approve(p, reviewer)
  BY DEF Promise!Approve, Promise!Decide, Promise!Extend, Promise!Current, PublicDecide,
         PublicHistory, PublicOwner, PublicRequests, PublicRequest, Slots

\* What changes no public value is invisible.
LEMMA StutterIs ==
    ASSUME UNCHANGED <<PublicHistory, PublicOwner, PublicRequests>>
    PROVE  UNCHANGED Promise!vars
  BY DEF Promise!vars, PublicHistory, PublicOwner, PublicRequests, PublicRequest, Slots

\* While revisions and pages rest, so do the public histories and owners.
LEMMA PublicRests ==
    ASSUME UNCHANGED <<pages, revisions>>
    PROVE  /\ UNCHANGED <<PublicHistory, PublicOwner>>
           /\ \A base : VersionOf(base)' = VersionOf(base)
<1>1. \A base : VersionOf(base)' = VersionOf(base)
  BY DEF VersionOf
<1>2. PublicOwner' = PublicOwner
  BY DEF PublicOwner
<1>3. \A k, l : Latest(k, l)' = Latest(k, l)
  BY SMT DEF Latest, Published
<1>4. \A k, l : NextNumber(Latest(k, l))' = NextNumber(Latest(k, l))
  BY <1>3 DEF NextNumber
<1>5. \A slot, n : BodyOf(slot, n)' = BodyOf(slot, n)
  BY SMT DEF BodyOf
<1>6. \A slot : HistoryOf(slot)' = HistoryOf(slot)
  BY <1>4, <1>5, SMT DEF HistoryOf
<1>7. PublicHistory' = PublicHistory
  BY <1>6 DEF PublicHistory
<1> QED BY <1>1, <1>2, <1>7

\* A revision that exists is a version of the public history of its document.
LEMMA BaseExists ==
    ASSUME TypeOK, HistoryIs, NEW base \in DOMAIN revisions
    PROVE  /\ <<revisions[base].key, revisions[base].language>> \in Slots
           /\ VersionOf(base) =
                 [slot   |-> <<revisions[base].key, revisions[base].language>>,
                  number |-> revisions[base].number]
           /\ revisions[base].number \in
                 1 .. Len(PublicHistory[<<revisions[base].key, revisions[base].language>>])
<1>1. base # None
  BY NoneAssumption DEF TypeOK
<1>2. revisions[base].key \in Keys /\ revisions[base].language \in Languages
  BY DEF TypeOK, RevisionRows
<1>3. VersionOf(base) = [slot   |-> <<revisions[base].key, revisions[base].language>>,
                         number |-> revisions[base].number]
  BY <1>1 DEF VersionOf, SlotOf
<1>4. PublicHistory[<<revisions[base].key, revisions[base].language>>]
         = HistoryOf(<<revisions[base].key, revisions[base].language>>)
  BY <1>2 DEF PublicHistory, Slots
<1>5. revisions[base].number \in
         1 .. Len(HistoryOf(<<revisions[base].key, revisions[base].language>>))
  BY DEF HistoryIs
<1> QED BY <1>2, <1>3, <1>4, <1>5 DEF Slots

\* Creating a proposal submits a request.
LEMMA CreateRefines ==
    ASSUME IInv, NEW p \in ProposalIds, NEW draft \in Drafts, CreateProposal(p, draft)
    PROVE  Promise!Next
<1> DEFINE slot == SlotOf(draft.key, draft.language)
           base == VersionOf(draft.base)
           versions == UNION {{[slot |-> s, number |-> n]
                               : n \in 1 .. Len(PublicHistory[s])} : s \in Slots}
<1>1. /\ p \notin DOMAIN proposals /\ draft.base \in DOMAIN revisions \cup {None}
      /\ proposals' = [q \in DOMAIN proposals \cup {p} |->
                          IF q = p
                          THEN [draft |-> draft, status |-> "pending", reviewer |-> None]
                          ELSE proposals[q]]
      /\ UNCHANGED <<pages, revisions>>
  BY DEF CreateProposal
<1>2. slot \in Slots /\ draft.proposer \in Subjects /\ draft.body \in Bodies
  BY DEF Drafts, SlotOf, Slots
<1>3. base \in versions \cup {None}
  <2>1. CASE draft.base = None
    BY <2>1 DEF VersionOf
  <2>2. CASE draft.base \in DOMAIN revisions
    <3>1. TypeOK /\ HistoryIs
      BY HistoryFacts DEF IInv
    <3> HIDE DEF base
    <3>2. PICK s, n : /\ s = <<revisions[draft.base].key, revisions[draft.base].language>>
                      /\ n = revisions[draft.base].number
      OBVIOUS
    <3>3. s \in Slots /\ n \in 1 .. Len(PublicHistory[s]) /\ base = [slot |-> s, number |-> n]
      BY <2>2, <3>1, <3>2, BaseExists DEF base
    <3> QED BY <3>3
  <2> QED BY <1>1, <2>1, <2>2
<1>4. UNCHANGED <<PublicHistory, PublicOwner>> /\ \A b : VersionOf(b)' = VersionOf(b)
  BY <1>1, PublicRests
<1>5. PublicRequests' = [q \in DOMAIN PublicRequests \cup {p} |->
         IF q = p
         THEN [slot |-> slot, base |-> base, proposer |-> draft.proposer,
               body |-> draft.body, status |-> "pending", reviewer |-> None]
         ELSE PublicRequests[q]]
  <2>1. DOMAIN proposals' = DOMAIN proposals \cup {p} /\ DOMAIN PublicRequests = DOMAIN proposals
    BY <1>1 DEF PublicRequests
  <2>2. PublicRequest(p)' = [slot |-> slot, base |-> base, proposer |-> draft.proposer,
                             body |-> draft.body, status |-> "pending", reviewer |-> None]
    <3>1. /\ proposals'[p].draft = draft /\ proposals'[p].status = "pending"
          /\ proposals'[p].reviewer = None
      BY <1>1
    <3>2. VersionOf(proposals[p].draft.base)' = VersionOf(draft.base)
      BY <1>4, <3>1
    <3> QED BY <3>1, <3>2 DEF PublicRequest, SlotOf
  <2>3. ASSUME NEW q \in DOMAIN proposals
        PROVE  PublicRequest(q)' = PublicRequests[q]
    <3>1. proposals'[q] = proposals[q]
      BY <1>1
    <3>2. VersionOf(proposals[q].draft.base)' = VersionOf(proposals[q].draft.base)
      BY <1>4, <3>1
    <3> QED BY <3>1, <3>2 DEF PublicRequest, PublicRequests, SlotOf
  <2>4. PublicRequests' = [q \in DOMAIN proposals' |-> PublicRequest(q)']
    BY DEF PublicRequests
  <2> HIDE DEF slot, base
  <2> QED BY <1>1, <2>1, <2>2, <2>3, <2>4
<1>6. p \notin DOMAIN PublicRequests
  BY <1>1 DEF PublicRequests
<1> HIDE DEF slot, base
<1>7. \E s \in Slots, proposer \in Subjects, body \in Bodies : \E b \in versions \cup {None} :
         /\ p \notin DOMAIN PublicRequests
         /\ b = None \/ b \in versions
         /\ PublicRequests' = [q \in DOMAIN PublicRequests \cup {p} |->
               IF q = p
               THEN [slot |-> s, base |-> b, proposer |-> proposer,
                     body |-> body, status |-> "pending", reviewer |-> None]
               ELSE PublicRequests[q]]
         /\ UNCHANGED <<PublicHistory, PublicOwner>>
  BY <1>2, <1>3, <1>4, <1>5, <1>6
<1> QED
  BY <1>7
  DEF Promise!Next, Promise!Submit, Promise!Existing, Promise!Slots, PublicHistory, PublicOwner,
      PublicRequests, PublicRequest, Slots

\* A commit decides the request of the contract as it decides the proposal.
LEMMA CommitDecidesRequest ==
    ASSUME IInv, NEW w \in Workers, Commit(w),
           \A base \in DOMAIN revisions \cup {None} : VersionOf(base)' = VersionOf(base)
    PROVE  PublicDecide(request[w].proposal, request[w].reviewer, request[w].decision)
<1>1. PICK p, reviewer, status :
         p = request[w].proposal /\ reviewer = request[w].reviewer /\ status = request[w].decision
  OBVIOUS
<1>2. /\ p \in DOMAIN proposals /\ Reviewable(p, reviewer)
      /\ DOMAIN proposals' = DOMAIN proposals
      /\ \A q \in DOMAIN proposals : /\ proposals'[q].draft = proposals[q].draft
                                     /\ q # p => proposals'[q] = proposals[q]
      /\ proposals'[p].status = status /\ proposals'[p].reviewer = reviewer
  BY <1>1, CommitDecides
<1>3. /\ PublicRequests = [q \in DOMAIN proposals |-> PublicRequest(q)]
      /\ PublicRequests' = [q \in DOMAIN proposals |-> PublicRequest(q)']
  BY <1>2 DEF PublicRequests
<1>4. \A q \in DOMAIN proposals :
         VersionOf(proposals[q].draft.base)' = VersionOf(proposals[q].draft.base)
  BY <1>2 DEF IInv, TypeOK
<1>5. \A q \in DOMAIN proposals : q # p => PublicRequest(q)' = PublicRequest(q)
  BY <1>2, <1>4 DEF PublicRequest
<1>6. PublicRequest(p)' = [PublicRequest(p) EXCEPT !.status = status, !.reviewer = reviewer]
  <2>1. PublicRequest(p)' =
           [slot     |-> SlotOf(proposals[p].draft.key, proposals[p].draft.language),
            base     |-> VersionOf(proposals[p].draft.base),
            proposer |-> proposals[p].draft.proposer,
            body     |-> proposals[p].draft.body,
            status   |-> status,
            reviewer |-> reviewer]
    BY <1>2, <1>4 DEF PublicRequest, SlotOf
  <2>2. PublicRequest(p) =
           [slot     |-> SlotOf(proposals[p].draft.key, proposals[p].draft.language),
            base     |-> VersionOf(proposals[p].draft.base),
            proposer |-> proposals[p].draft.proposer,
            body     |-> proposals[p].draft.body,
            status   |-> proposals[p].status,
            reviewer |-> proposals[p].reviewer]
    BY DEF PublicRequest
  <2>3. PICK r, d : r = PublicRequest(p) /\ d = PublicRequest(p)'
    OBVIOUS
  <2>4. d = [r EXCEPT !.status = status, !.reviewer = reviewer]
    <3>1. PICK s, b, by, body, old, nobody :
             /\ r = [slot |-> s, base |-> b, proposer |-> by, body |-> body,
                     status |-> old, reviewer |-> nobody]
             /\ d = [slot |-> s, base |-> b, proposer |-> by, body |-> body,
                     status |-> status, reviewer |-> reviewer]
      BY <2>1, <2>2, <2>3
    <3>2. /\ d \in [slot : {s}, base : {b}, proposer : {by}, body : {body},
                   status : {status}, reviewer : {reviewer}]
          /\ [r EXCEPT !.status = status, !.reviewer = reviewer] \in
                [slot : {s}, base : {b}, proposer : {by}, body : {body},
                 status : {status}, reviewer : {reviewer}]
      <4>1. r \in [slot : {s}, base : {b}, proposer : {by}, body : {body},
                   status : {old}, reviewer : {nobody}]
        BY <3>1
      <4> QED BY <3>1, <4>1
    <3> QED BY <3>2
  <2> QED BY <2>3, <2>4
<1>7. PublicRequest(p).status = "pending" /\ PublicRequest(p).proposer # reviewer
  BY <1>2 DEF PublicRequest, Reviewable
<1>8. PublicRequests' = [PublicRequests EXCEPT ![p] =
                            [PublicRequest(p) EXCEPT !.status = status, !.reviewer = reviewer]]
  BY <1>2, <1>3, <1>5, <1>6
<1>9. PublicRequests' = [PublicRequests EXCEPT ![p].status = status, ![p].reviewer = reviewer]
  BY <1>2, <1>3, <1>8
<1> QED BY <1>1, <1>2, <1>3, <1>7, <1>9 DEF PublicDecide

\* Committing a rejection declines the request.
LEMMA RejectionRefines ==
    ASSUME IInv, NEW w \in Workers, Commit(w), request[w].decision = "rejected"
    PROVE  Promise!Next
<1>1. UNCHANGED <<pages, revisions>>
  BY DEF Commit, CommitRejection
<1>2. /\ UNCHANGED <<PublicHistory, PublicOwner>>
      /\ \A base : VersionOf(base)' = VersionOf(base)
  BY <1>1, PublicRests
<1>3. PICK p, reviewer : p = request[w].proposal /\ reviewer = request[w].reviewer
  OBVIOUS
<1>4. PublicDecide(p, reviewer, "rejected") /\ p \in ProposalIds /\ reviewer \in Subjects
  <2>1. PublicDecide(request[w].proposal, request[w].reviewer, request[w].decision)
    BY <1>2, CommitDecidesRequest
  <2>2. PublicDecide(p, reviewer, "rejected")
    BY <1>3, <2>1 DEF PublicDecide
  <2> QED BY <1>3, <2>2, CommitDecides
<1>5. Promise!Decline(p, reviewer)
  BY <1>2, <1>4, DeclineIs
<1> QED BY <1>4, <1>5 DEF Promise!Next

\* Committing an acceptance adds its content to the history of its document,
\* and to no other.
LEMMA AcceptanceExtends ==
    ASSUME IInv, NEW w \in Workers, Commit(w), request[w].decision = "accepted"
    PROVE  LET slot == <<DraftOf(w).key, DraftOf(w).language>>
           IN  PublicHistory' = [PublicHistory EXCEPT ![slot] = Append(@, DraftOf(w).body)]
<1>1. PICK draft, new, id : draft = DraftOf(w) /\ new = NewRevision(w) /\ id = request[w].revision
  OBVIOUS
<1>2. HistoryIs
  BY HistoryFacts DEF IInv
<1>3. HistoryIs'
  <2>1. TypeOK' /\ HistoryOK'
    BY AcceptanceHistory, CommitTyped
  <2>2. (TypeOK' /\ HistoryOK') => HistoryIs'
    BY HistoryFacts, PTL
  <2> QED BY <2>1, <2>2
<1>4. /\ draft \in Drafts
      /\ id \notin DOMAIN revisions
      /\ new.key = draft.key /\ new.language = draft.language /\ new.body = draft.body
      /\ new.number = NextNumber(Latest(draft.key, draft.language))
      /\ DOMAIN revisions' = DOMAIN revisions \cup {id}
      /\ revisions'[id] = new
      /\ \A i \in DOMAIN revisions : /\ revisions'[i].key = revisions[i].key
                                     /\ revisions'[i].language = revisions[i].language
                                     /\ revisions'[i].number = revisions[i].number
                                     /\ revisions'[i].body = revisions[i].body
  BY <1>1, AcceptanceEffect, CommitDecides
<1>5. ASSUME NEW k, NEW l, NEW h, NEW g, h = HistoryOf(<<k, l>>), g = HistoryOf(<<k, l>>)'
      PROVE  g = IF k = draft.key /\ l = draft.language THEN Append(h, draft.body) ELSE h
  <2>1. h \in Seq(Bodies) /\ g \in Seq(Bodies) /\ Len(h) \in Nat /\ Len(g) \in Nat
    BY <1>2, <1>3, <1>5 DEF HistoryIs
  <2>2. \A i \in DOMAIN revisions :
           revisions[i].key = k /\ revisions[i].language = l =>
              /\ revisions[i].number \in 1 .. Len(h) /\ h[revisions[i].number] = revisions[i].body
              /\ revisions[i].number \in 1 .. Len(g) /\ g[revisions[i].number] = revisions[i].body
    BY <1>2, <1>3, <1>4, <1>5 DEF HistoryIs
  <2>3. \A n \in 1 .. Len(h) :
           \E i \in DOMAIN revisions :
              revisions[i].key = k /\ revisions[i].language = l /\ revisions[i].number = n
    BY <1>2, <1>5 DEF HistoryIs
  <2>4. \A n \in 1 .. Len(g) :
           \E i \in DOMAIN revisions \cup {id} :
              revisions'[i].key = k /\ revisions'[i].language = l /\ revisions'[i].number = n
    BY <1>3, <1>4, <1>5 DEF HistoryIs
  <2>5. CASE k = draft.key /\ l = draft.language
    <3>1. new.number = Len(h) + 1
      BY <1>2, <1>4, <1>5, <2>1, <2>5, NextNumberIsNew DEF HistoryIs, IInv
    <3>2. new.number \in 1 .. Len(g) /\ g[new.number] = draft.body
      BY <1>3, <1>4, <1>5, <2>5 DEF HistoryIs
    <3>3. Len(g) = Len(h) + 1
      <4>1. \A n \in 1 .. Len(g) : n \in 1 .. Len(h) + 1
        BY <1>4, <2>1, <2>2, <2>4, <3>1
      <4> QED BY <2>1, <3>1, <3>2, <4>1
    <3>4. draft.body \in Bodies
      BY <1>4 DEF Drafts
    <3>5. /\ Append(h, draft.body) \in Seq(Bodies)
          /\ Len(Append(h, draft.body)) = Len(h) + 1
          /\ \A n \in 1 .. Len(h) : Append(h, draft.body)[n] = h[n]
          /\ Append(h, draft.body)[Len(h) + 1] = draft.body
      BY <2>1, <3>4
    <3>6. \A n \in 1 .. Len(g) : g[n] = Append(h, draft.body)[n]
      BY <2>1, <2>2, <2>3, <3>1, <3>2, <3>3, <3>5
    <3> QED BY <2>1, <2>5, <3>3, <3>5, <3>6, SeqEqual
  <2>6. CASE ~(k = draft.key /\ l = draft.language)
    <3>1. \A n \in 1 .. Len(g) :
             \E i \in DOMAIN revisions :
                revisions[i].key = k /\ revisions[i].language = l /\ revisions[i].number = n
      BY <1>4, <2>4, <2>6
    <3>2. Len(g) = Len(h)
      <4>1. /\ \A n \in 1 .. Len(g) : n \in 1 .. Len(h)
            /\ \A n \in 1 .. Len(h) : n \in 1 .. Len(g)
        BY <2>2, <2>3, <3>1
      <4> QED BY <2>1, <4>1
    <3>3. \A n \in 1 .. Len(h) : h[n] = g[n]
      BY <2>2, <2>3
    <3> QED BY <2>1, <2>6, <3>2, <3>3, SeqEqual
  <2> QED BY <2>5, <2>6
<1>6. \A k, l : HistoryOf(<<k, l>>)' =
         IF k = draft.key /\ l = draft.language
         THEN Append(HistoryOf(<<k, l>>), draft.body) ELSE HistoryOf(<<k, l>>)
  BY <1>5
<1>7. /\ PublicHistory = [slot \in Slots |-> HistoryOf(slot)]
      /\ PublicHistory' = [slot \in Slots |-> HistoryOf(slot)']
  BY DEF PublicHistory, Slots
<1>8. PICK slot : slot = <<draft.key, draft.language>>
  OBVIOUS
<1>9. \A s \in Slots : HistoryOf(s)' = IF s = slot THEN Append(HistoryOf(s), draft.body)
                                      ELSE HistoryOf(s)
  <2> SUFFICES ASSUME NEW k \in Keys, NEW l \in Languages
               PROVE  HistoryOf(<<k, l>>)' = IF <<k, l>> = slot
                                             THEN Append(HistoryOf(<<k, l>>), draft.body)
                                             ELSE HistoryOf(<<k, l>>)
    BY DEF Slots
  <2>1. <<k, l>> = slot <=> k = draft.key /\ l = draft.language
    BY <1>8
  <2> QED BY <1>6, <2>1
<1>10. PublicHistory' = [PublicHistory EXCEPT ![slot] = Append(@, draft.body)]
  BY <1>7, <1>9
<1> QED BY <1>1, <1>8, <1>10

\* Committing an acceptance approves the request.
LEMMA AcceptanceRefines ==
    ASSUME IInv, NEW w \in Workers, Commit(w), request[w].decision = "accepted"
    PROVE  Promise!Next
<1>1. PICK p, reviewer, draft, slot :
         /\ p = request[w].proposal /\ reviewer = request[w].reviewer
         /\ draft = DraftOf(w) /\ slot = <<draft.key, draft.language>>
  OBVIOUS
<1>2. /\ p \in ProposalIds /\ reviewer \in Subjects /\ p \in DOMAIN proposals
      /\ draft \in Drafts /\ slot \in Slots /\ proposals[p].draft = draft
  BY <1>1, CommitDecides DEF Slots, Drafts, DraftOf
<1>3. /\ draft.base = Latest(draft.key, draft.language)
      /\ DOMAIN pages' = DOMAIN pages \cup {draft.key}
      /\ request[w].revision \notin DOMAIN revisions
      /\ \A i \in DOMAIN revisions : /\ revisions'[i].key = revisions[i].key
                                     /\ revisions'[i].language = revisions[i].language
                                     /\ revisions'[i].number = revisions[i].number
  BY <1>1, AcceptanceEffect
<1>4. PublicDecide(p, reviewer, "accepted")
  <2>1. \A base \in DOMAIN revisions \cup {None} : VersionOf(base)' = VersionOf(base)
    BY <1>3 DEF VersionOf, SlotOf
  <2>2. PublicDecide(request[w].proposal, request[w].reviewer, request[w].decision)
    BY <2>1, CommitDecidesRequest
  <2> QED BY <1>1, <2>2 DEF PublicDecide
<1>5. /\ PublicRequests[p].slot = slot /\ PublicRequests[p].body = draft.body
      /\ PublicRequests[p].base = VersionOf(draft.base)
  BY <1>1, <1>2 DEF PublicRequests, PublicRequest, SlotOf
<1>6. slot[1] = draft.key /\ draft.key \in Keys
  BY <1>1, <1>2 DEF Drafts
<1>7. PublicOwner[slot[1]] # "source"
  BY <1>6 DEF PublicOwner
<1>8. PublicOwner' = [PublicOwner EXCEPT ![slot[1]] = "reviewed"]
  BY <1>3, <1>6 DEF PublicOwner
<1>9. PublicHistory' = [PublicHistory EXCEPT ![slot] = Append(@, draft.body)]
  BY <1>1, AcceptanceExtends
<1>10. VersionOf(draft.base) = IF PublicHistory[slot] = <<>>
                               THEN None
                               ELSE [slot |-> slot, number |-> Len(PublicHistory[slot])]
  <2>1. PICK latest, h : latest = draft.base /\ h = PublicHistory[slot]
    OBVIOUS
  <2>2. TypeOK /\ OnePublished /\ HistoryIs
    BY HistoryFacts DEF IInv, HistoryOK
  <2>3. h = HistoryOf(<<draft.key, draft.language>>)
    BY <1>1, <1>2, <2>1 DEF PublicHistory
  <2>4. h \in Seq(Bodies) /\ Len(h) = NextNumber(latest) - 1
    BY <1>3, <2>1, <2>2, <2>3 DEF HistoryIs
  <2>5. CASE latest = None
    <3>1. Len(h) = 0
      BY <2>4, <2>5 DEF NextNumber
    <3>2. h = <<>>
      BY <2>4, <3>1
    <3> QED BY <2>1, <2>5, <3>2 DEF VersionOf
  <2>6. CASE latest # None
    <3>1. /\ latest \in DOMAIN revisions
          /\ revisions[latest].key = draft.key /\ revisions[latest].language = draft.language
      BY <1>3, <2>1, <2>2, <2>6, LatestFacts DEF LatestIsPublished, Published
    <3>2. revisions[latest].number \in Nat \ {0}
      BY <2>2, <3>1 DEF TypeOK, RevisionRows
    <3>3. Len(h) = revisions[latest].number
      BY <2>4, <2>6, <3>2 DEF NextNumber
    <3>4. h # <<>>
      BY <3>2, <3>3
    <3> QED BY <1>1, <2>1, <2>6, <3>1, <3>3, <3>4 DEF VersionOf, SlotOf
  <2> QED BY <2>5, <2>6
<1>11. Promise!Approve(p, reviewer)
  BY <1>4, <1>5, <1>7, <1>8, <1>9, <1>10, ApproveIs
<1> QED BY <1>2, <1>11 DEF Promise!Next

\* Nothing is published, owned or requested at the start.
LEMMA InitRefines == Init => Promise!Init
<1> SUFFICES ASSUME Init PROVE Promise!Init
  OBVIOUS
<1>1. DOMAIN revisions = {} /\ DOMAIN pages = {} /\ DOMAIN proposals = {}
  BY DEF Init
<1>2. \A k, l : Latest(k, l) = None
  BY <1>1 DEF Latest, Published
<1>3. \A slot : HistoryOf(slot) = <<>>
  <2> SUFFICES ASSUME NEW slot PROVE HistoryOf(slot) = <<>>
    OBVIOUS
  <2>1. NextNumber(Latest(slot[1], slot[2])) - 1 = 0
    BY <1>2 DEF NextNumber
  <2> QED BY <2>1 DEF HistoryOf
<1>4. PublicHistory = [slot \in Slots |-> <<>>]
  BY <1>3 DEF PublicHistory
<1>5. PublicOwner = [k \in Keys |-> "none"]
  BY <1>1 DEF PublicOwner
<1>6. PublicRequests = [p \in {} |-> None]
  BY <1>1 DEF PublicRequests
<1> QED
  BY <1>4, <1>5, <1>6
  DEF Promise!Init, Promise!Slots, PublicHistory, PublicOwner, PublicRequests, PublicRequest, Slots

\* Every step is one step of the contract, or invisible.
LEMMA NextRefines == IInv /\ [Next]_vars => [Promise!Next]_(Promise!vars)
<1> SUFFICES ASSUME IInv, [Next]_vars
             PROVE  Promise!Next \/ UNCHANGED Promise!vars
  OBVIOUS
<1>1. ASSUME UNCHANGED <<pages, revisions, proposals>>
      PROVE  UNCHANGED Promise!vars
  <2>1. UNCHANGED <<PublicHistory, PublicOwner>> /\ \A base : VersionOf(base)' = VersionOf(base)
    BY <1>1, PublicRests
  <2>2. PublicRequests' = PublicRequests
    BY <1>1, <2>1 DEF PublicRequests, PublicRequest, SlotOf
  <2> QED BY <2>1, <2>2, StutterIs
<1>2. ASSUME NEW p \in ProposalIds, NEW draft \in Drafts, CreateProposal(p, draft)
      PROVE  Promise!Next
  BY <1>2, CreateRefines
<1>3. ASSUME NEW w \in Workers, Commit(w)
      PROVE  Promise!Next
  BY <1>3, AcceptanceRefines, RejectionRefines, InvOfRequests DEF Requests
<1> QED
  BY <1>1, <1>2, <1>3
  DEF Next, Statement, Connect, LockProposal, Reject, InsertPage, LockPage, ReadLatest, Write,
      Abort, ReceiveReview, tables, vars

\* Concurrent reviewers, whatever the number of them, of connections and of
\* documents, look to everybody else as if they had taken turns.
THEOREM ImplementsContract == Spec => CommitsRefineCommons
  BY InductiveInvariant, InitRefines, NextRefines, PTL DEF Spec, CommitsRefineCommons, Promise!Spec
=============================================================================
