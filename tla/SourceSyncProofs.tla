--------------------------- MODULE SourceSyncProofs ---------------------------
(***************************************************************************)
(* Theorems about SourceSync, for any number of invocations, files,        *)
(* attempts and revisions, in any interleaving and with any loss or delay. *)
(*                                                                         *)
(* Both ways a request takes effect leave its document current (Imports):  *)
(* in place, when the current revision has the content already, or as a    *)
(* new revision, when no published one has.  Everything below follows from *)
(* that and from the counters of the clients.                              *)
(***************************************************************************)
EXTENDS SourceSync, FiniteSetTheorems, TLAPS

\* The theorems about the store that the requests reach.
Proved == INSTANCE SqliteContractProofs WITH
    Keys        <- Documents,
    RevisionIds <- 1 .. MaxRevisions,
    ProposalIds <- {}

\* NULL is none of what the store stores: the assumption of SqliteStore.
LEMMA StoreAssumption == Proved!NoneAssumption
  BY NoneAssumption DEF Proved!NoneAssumption

-----------------------------------------------------------------------------
(* The inductive invariant.                                                *)

\* A request on its way is one of a file of an invocation that has started.
RequestsStarted ==
    \A m \in inflight : /\ m.sync \in Syncs
                        /\ m.file \in DOMAIN Files(m.sync)
                        /\ Started(m.sync)

\* What has not started has done nothing.
IdleIsFresh ==
    \A s \in Syncs : client[s].status = "idle" => client[s].file = 1 /\ client[s].answer = None

\* Revision i is file n of invocation s.
CitesFile(i, s, n) ==
    /\ revisions[i].commit = ProvenanceOf(s, Files(s)[n])
    /\ revisions[i].body = Files(s)[n].body
    /\ revisions[i].language = Files(s)[n].language
    /\ revisions[i].key = DocumentSlug(Files(s)[n].relative)

\* Each revision is a file of an invocation that has started.
CitesStarted ==
    \A i \in DOMAIN revisions :
        \E s \in Syncs : Started(s) /\ \E n \in DOMAIN Files(s) : CitesFile(i, s, n)

\* What has been published in a language stays published there.
StaysPublished ==
    \A i \in DOMAIN revisions :
        \E j \in DOMAIN revisions : /\ revisions[j].key = revisions[i].key
                                    /\ revisions[j].language = revisions[i].language
                                    /\ revisions[j].status = "published"

\* The page of a document is as an invocation wants it that a published
\* revision of the document cites.
PageOfImport ==
    \A k \in DOMAIN pages :
        \E i \in DOMAIN revisions, s \in Syncs :
            /\ revisions[i].key = k
            /\ revisions[i].status = "published"
            /\ \E n \in DOMAIN Files(s) : revisions[i].commit = ProvenanceOf(s, Files(s)[n])
            /\ pages[k].visibility = Invocation[s].visibility
            /\ pages[k].source = Invocation[s].source

\* Of a document that everybody agrees on there is one revision.
AgreedOnce ==
    \A i, j \in DOMAIN revisions :
        /\ revisions[i].key = revisions[j].key
        /\ revisions[i].language = revisions[j].language
        /\ \A a, b \in Offered(revisions[i].key, revisions[i].language) : a = b
        => i = j

AuthoredBy(subject) == {i \in DOMAIN revisions : revisions[i].author = subject}

\* A change that was counted, or is about to be, has its revision.
CountsHonest ==
    \A s \in Syncs :
        client[s].changed + Counted(client[s].answer)
            <= Cardinality(AuthoredBy(Invocation[s].subject))

IInv ==
    /\ TypeOK
    /\ Proved!IInv
    /\ RequestsStarted
    /\ IdleIsFresh
    /\ CitesStarted
    /\ StaysPublished
    /\ PageOfImport
    /\ AgreedOnce
    /\ CountsHonest

-----------------------------------------------------------------------------
(* What a quiet sync keeps.                                                *)

\* Nobody else does anything any more.
Alone(s) ==
    /\ \A t \in Syncs \ {s} : client[t].status \in {"done", "failed"}
    /\ \A m \in inflight : m.sync = s

\* The server has taken file n of s.
Taken(s, n) ==
    \/ client[s].status = "done"
    \/ n < client[s].file
    \/ n = client[s].file /\ client[s].answer \in {"changed", "unchanged"}

\* Readers are served what s has for the document of its file n.
Shows(s, n) ==
    \E i \in DOMAIN revisions, f \in DOMAIN Files(s) :
        /\ revisions[i].key = DocumentSlug(Files(s)[n].relative)
        /\ revisions[i].language = Files(s)[n].language
        /\ revisions[i].status = "published"
        /\ revisions[i].body = Files(s)[f].body
        /\ revisions[i].commit = ProvenanceOf(s, Files(s)[f])
        /\ pages[revisions[i].key].visibility = Invocation[s].visibility

QuietInv(s) == Alone(s) /\ \A n \in DOMAIN Files(s) : Taken(s, n) => Shows(s, n)

-----------------------------------------------------------------------------
(* The store and the instance that is proved about are the same.           *)

\* Queries and rows.
LEMMA SameQueries ==
    /\ \A k, l : Store!Latest(k, l) = Proved!Latest(k, l)
    /\ Store!TypeOK <=> Proved!TypeOK
    /\ Store!Init <=> Proved!Init
  BY DEF Store!Latest, Proved!Latest, Store!Published, Proved!Published,
         Store!TypeOK, Proved!TypeOK, Store!Init, Proved!Init,
         Store!PageRows, Proved!PageRows, Store!RevisionRows, Proved!RevisionRows,
         Store!ProposalRows, Proved!ProposalRows, Store!EventRows, Proved!EventRows,
         Store!Drafts, Proved!Drafts, Store!Visibilities, Proved!Visibilities

\* Imports.
LEMMA SameImporting ==
    ASSUME NEW draft, NEW id
    PROVE  /\ Store!UpsertUnchangedSource(draft) <=> Proved!UpsertUnchangedSource(draft)
           /\ Store!UpsertChangedSource(draft, id) <=> Proved!UpsertChangedSource(draft, id)
  BY DEF Store!UpsertUnchangedSource, Proved!UpsertUnchangedSource,
         Store!UpsertChangedSource, Proved!UpsertChangedSource, Store!OwnsPage, Proved!OwnsPage,
         Store!PageFor, Proved!PageFor, Store!SourcePage, Proved!SourcePage,
         Store!UpsertPage, Proved!UpsertPage, Store!WritePage, Proved!WritePage,
         Store!Unchanged, Proved!Unchanged, Store!Latest, Proved!Latest,
         Store!Published, Proved!Published, Store!WriteRevision, Proved!WriteRevision,
         Store!SourceRevision, Proved!SourceRevision, Store!NextNumber, Proved!NextNumber,
         Store!Superseded, Proved!Superseded, Store!IndexRevision, Proved!IndexRevision,
         Store!Record, Proved!Record, Store!Event, Proved!Event

-----------------------------------------------------------------------------
(* Files.                                                                  *)

\* A file of an invocation makes a draft that the store takes.
LEMMA FileFacts ==
    ASSUME NEW s \in Syncs, NEW n \in DOMAIN Files(s)
    PROVE  /\ <<s, Files(s)[n]>> \in AllFiles
           /\ SourceDraft(s, Files(s)[n]) \in Proved!SourceDrafts
<1> DEFINE file == Files(s)[n]
           f    == <<s, file>>
<1>1. f \in AllFiles
  BY DEF AllFiles
<1>2. f[1] = s /\ f[2] = file
  OBVIOUS
<1>3. /\ DocumentSlug(file.relative) \in Documents
      /\ file.language \in Languages
      /\ ProvenanceOf(s, file) \in Commits
  BY <1>1, <1>2 DEF Documents, Languages, Commits
<1>4. /\ Invocation[s].source \in Sources
      /\ Invocation[s].visibility \in Proved!Visibilities
      /\ Invocation[s].subject \in Subjects
      /\ file.body \in Bodies
      /\ "en" \in Languages
  BY InvocationAssumption DEF Sources, Proved!Visibilities, Files, Languages
<1>5. SourceDraft(s, file) \in Proved!SourceDrafts
  BY <1>3, <1>4 DEF SourceDraft, Proved!SourceDrafts
<1> QED BY <1>1, <1>5

\* And there are no other files.
LEMMA FilesAreOfSyncs ==
    ASSUME NEW f \in AllFiles
    PROVE  \E s \in Syncs : \E n \in DOMAIN Files(s) : f = <<s, Files(s)[n]>>
  BY DEF AllFiles

-----------------------------------------------------------------------------
(* What taking effect does to the store.                                   *)

\* The revision `id` of the document of `draft` is what the draft says, and is
\* published; other documents, and what older revisions say, are as before.
RevisionImported(draft, id) ==
    /\ DOMAIN revisions' = DOMAIN revisions \cup {id}
    /\ revisions'[id].key = draft.key
    /\ revisions'[id].language = draft.language
    /\ revisions'[id].body = draft.body
    /\ revisions'[id].commit = draft.commit
    /\ revisions'[id].status = "published"
    /\ \A i \in DOMAIN revisions :
          /\ revisions'[i].key = revisions[i].key
          /\ revisions'[i].language = revisions[i].language
          /\ revisions'[i].body = revisions[i].body
          /\ revisions'[i].author = revisions[i].author
          /\ i # id => revisions'[i].commit = revisions[i].commit
          /\ i # id /\ revisions[i].status = "published" =>
                \/ revisions'[i].status = "published"
                \/ revisions[i].key = draft.key /\ revisions[i].language = draft.language

\* A new revision is the importer's, and no published one had its content.
OnlyIfChanged(draft, id) ==
    id \notin DOMAIN revisions =>
        /\ revisions'[id].author = draft.importer
        /\ \A j \in DOMAIN revisions :
              (/\ revisions[j].key = draft.key
               /\ revisions[j].language = draft.language
               /\ revisions[j].status = "published") => revisions[j].body # draft.body

\* The page follows the draft, and no other does.
PageImported(draft) ==
    /\ DOMAIN pages' = DOMAIN pages \cup {draft.key}
    /\ pages'[draft.key].visibility = draft.visibility
    /\ pages'[draft.key].source = draft.source
    /\ \A k \in DOMAIN pages : k # draft.key => pages'[k] = pages[k]

Imports(draft, id) ==
    /\ RevisionImported(draft, id)
    /\ OnlyIfChanged(draft, id)
    /\ PageImported(draft)
    /\ Proved!IInv'

\* The page of an import.
LEMMA UpsertPageEffect ==
    ASSUME Proved!IInv, NEW draft \in Proved!SourceDrafts, Proved!UpsertPage(draft)
    PROVE  PageImported(draft)
<1> DEFINE page == Proved!PageFor(draft.key, Proved!SourcePage(draft))
           row  == [page EXCEPT !.visibility = draft.visibility, !.source = draft.source]
<1>1. page \in Proved!PageRows
  <2>1. Proved!SourcePage(draft) \in Proved!PageRows
    BY DEF Proved!SourcePage, Proved!PageRows, Proved!SourceDrafts
  <2>2. draft.key \in DOMAIN pages => pages[draft.key] \in Proved!PageRows
    BY DEF Proved!IInv, Proved!TypeOK
  <2> QED BY <2>1, <2>2 DEF Proved!PageFor
<1>2. row.visibility = draft.visibility /\ row.source = draft.source
  BY <1>1 DEF Proved!PageRows
<1>3. pages' = [k \in DOMAIN pages \cup {draft.key} |->
                   IF k = draft.key THEN row ELSE pages[k]]
  BY DEF Proved!UpsertPage, Proved!WritePage
<1> HIDE DEF row
<1> QED BY <1>2, <1>3 DEF PageImported

\* Importing a changed document.
LEMMA ChangedImports ==
    ASSUME Proved!IInv, NEW draft \in Proved!SourceDrafts, NEW id,
           Proved!UpsertChangedSource(draft, id)
    PROVE  Imports(draft, id) /\ id \notin DOMAIN revisions
<1> DEFINE latest == Proved!Latest(draft.key, draft.language)
           row    == Proved!SourceRevision(draft, latest)
<1>1. id \in (1 .. MaxRevisions) \ DOMAIN revisions
  BY DEF Proved!UpsertChangedSource
<1>2. Proved!TypeOK /\ Proved!OnePublished
  BY DEF Proved!IInv
<1>3. /\ row \in Proved!RevisionRows
      /\ row.status = "published"
      /\ row.key = draft.key
      /\ row.language = draft.language
      /\ Proved!WriteRevision(id, row, Proved!Latest(row.key, row.language))
  BY <1>1, <1>2, StoreAssumption, Proved!ImportEffect
<1>4. row.body = draft.body /\ row.commit = draft.commit /\ row.author = draft.importer
  BY DEF Proved!SourceRevision
<1> HIDE DEF row
<1>5. PICK r \in Proved!RevisionRows : r = row
  BY <1>3
<1>6. /\ DOMAIN revisions' = DOMAIN revisions \cup {id}
      /\ revisions'[id] = r
      /\ \A i \in DOMAIN revisions :
            /\ revisions'[i] = [revisions[i] EXCEPT !.status = revisions'[i].status]
            /\ IF revisions[i].key = r.key /\ revisions[i].language = r.language
               THEN revisions'[i].status = "superseded"
               ELSE revisions'[i] = revisions[i]
  BY <1>1, <1>2, <1>3, <1>5, StoreAssumption, Proved!WriteRevisionEffect
<1>7. \A i \in DOMAIN revisions : revisions[i] \in Proved!RevisionRows
  BY <1>2 DEF Proved!TypeOK
<1>8. RevisionImported(draft, id)
  <2>1. \A i \in DOMAIN revisions :
           /\ revisions'[i].key = revisions[i].key
           /\ revisions'[i].language = revisions[i].language
           /\ revisions'[i].body = revisions[i].body
           /\ revisions'[i].author = revisions[i].author
           /\ revisions'[i].commit = revisions[i].commit
    BY <1>6, <1>7 DEF Proved!RevisionRows
  <2> QED BY <1>3, <1>4, <1>5, <1>6, <2>1 DEF RevisionImported
<1>9. OnlyIfChanged(draft, id)
  <2> SUFFICES ASSUME NEW j \in DOMAIN revisions,
                      revisions[j].key = draft.key, revisions[j].language = draft.language,
                      revisions[j].status = "published"
               PROVE  revisions[j].body # draft.body
    BY <1>4, <1>5, <1>6 DEF OnlyIfChanged
  <2>1. j \in Proved!Published(draft.key, draft.language)
    BY DEF Proved!Published
  <2>2. latest # None /\ j = latest
    BY <1>2, <2>1, StoreAssumption, Proved!LatestIsPublished
  <2> QED BY <2>2 DEF Proved!UpsertChangedSource, Proved!Unchanged
<1>10. PageImported(draft)
  BY UpsertPageEffect DEF Proved!UpsertChangedSource
<1>11. Proved!IInv'
  BY <1>1, StoreAssumption, Proved!ImportKeepsIInv
<1> QED BY <1>1, <1>8, <1>9, <1>10, <1>11 DEF Imports

\* Importing a document that is current already.
LEMMA UnchangedImports ==
    ASSUME Proved!IInv, NEW draft \in Proved!SourceDrafts,
           Proved!UpsertUnchangedSource(draft)
    PROVE  \E id \in DOMAIN revisions : Imports(draft, id)
<1> DEFINE latest == Proved!Latest(draft.key, draft.language)
<1>1. Proved!TypeOK /\ Proved!OnePublished
  BY DEF Proved!IInv
<1>2. latest # None /\ revisions[latest].body = draft.body
  BY DEF Proved!UpsertUnchangedSource, Proved!Unchanged
<1>3. latest \in Proved!Published(draft.key, draft.language)
  BY <1>1, <1>2, StoreAssumption, Proved!LatestIsPublished
<1>4. /\ latest \in DOMAIN revisions
      /\ revisions[latest].key = draft.key
      /\ revisions[latest].language = draft.language
      /\ revisions[latest].status = "published"
  BY <1>3 DEF Proved!Published
<1>5. revisions' = [revisions EXCEPT ![latest].commit = draft.commit]
  BY DEF Proved!UpsertUnchangedSource
<1> HIDE DEF latest
<1>6. PICK id \in DOMAIN revisions : id = latest
  BY <1>4
<1>7. revisions[id] \in Proved!RevisionRows
  BY <1>1 DEF Proved!TypeOK
<1>8. /\ revisions'[id] = [revisions[id] EXCEPT !.commit = draft.commit]
      /\ DOMAIN revisions' = DOMAIN revisions
      /\ \A i \in DOMAIN revisions : i # id => revisions'[i] = revisions[i]
  BY <1>5, <1>6
<1>9. /\ revisions'[id].key = revisions[id].key
      /\ revisions'[id].language = revisions[id].language
      /\ revisions'[id].body = revisions[id].body
      /\ revisions'[id].author = revisions[id].author
      /\ revisions'[id].status = revisions[id].status
      /\ revisions'[id].commit = draft.commit
  BY <1>7, <1>8 DEF Proved!RevisionRows
<1>10. RevisionImported(draft, id)
  BY <1>2, <1>4, <1>6, <1>8, <1>9 DEF RevisionImported
<1>11. OnlyIfChanged(draft, id)
  BY DEF OnlyIfChanged
<1>12. PageImported(draft)
  BY UpsertPageEffect DEF Proved!UpsertUnchangedSource
<1>13. Proved!IInv'
  BY StoreAssumption, Proved!UnchangedImportKeepsIInv
<1> QED BY <1>10, <1>11, <1>12, <1>13 DEF Imports

-----------------------------------------------------------------------------
(* What the steps do to the clients.                                       *)

\* One client that is not at its end goes on, without the store: it claims no
\* more than it was told, and takes no file for done that the server has not.
ClientStep(s) ==
    /\ UNCHANGED store
    /\ client' \in [Syncs -> Clients]
    /\ \A t \in Syncs \ {s} : client'[t] = client[t]
    /\ client[s].status \in {"idle", "sending", "waiting"}
    /\ client'[s].status # "idle"
    /\ client'[s].file \in DOMAIN Files(s)
    /\ client'[s].changed + Counted(client'[s].answer)
          <= client[s].changed + Counted(client[s].answer)
    /\ \A n \in DOMAIN Files(s) : Taken(s, n)' => Taken(s, n)
    /\ \/ inflight' = inflight
       \/ inflight' = inflight \cup
             {[sync |-> s, file |-> client[s].file, attempt |-> client[s].attempt]}

\* Request m is over; its client may hear one of `answers`.
Over(m, answers) ==
    /\ inflight' = inflight \ {m}
    /\ client' \in [Syncs -> Clients]
    /\ \A t \in Syncs :
          /\ client'[t].status = client[t].status
          /\ client'[t].file = client[t].file
          /\ client'[t].changed = client[t].changed
          /\ \/ client'[t].answer = client[t].answer
             \/ /\ t = m.sync
                /\ client[t].status = "waiting"
                /\ client[t].file = m.file
                /\ client'[t].answer \in answers

\* Request m takes effect: the client hears of a change only if there was one.
Takes(m) ==
    \E id : /\ Imports(Draft(m), id)
            /\ Over(m, IF id \in DOMAIN revisions THEN {"unchanged"} ELSE {"changed"})

\* Request m is refused or lost.
Drops(m) == UNCHANGED store /\ Over(m, {"refused"})

\* Replying changes the answer a client has, if anything.
LEMMA ReplyEffect ==
    ASSUME IInv, NEW m \in inflight, NEW answer \in {"changed", "unchanged", "refused"},
           inflight' = inflight \ {m}, Reply(m, answer)
    PROVE  Over(m, {answer})
<1>1. client \in [Syncs -> Clients] /\ m.sync \in Syncs
  BY DEF IInv, TypeOK, RequestsStarted
<1> DEFINE row == [client[m.sync] EXCEPT !.answer = answer]
<1>2. client[m.sync] \in Clients
  BY <1>1
<1>3. /\ row \in Clients
      /\ row.status = client[m.sync].status
      /\ row.file = client[m.sync].file
      /\ row.changed = client[m.sync].changed
      /\ row.answer = answer
  BY <1>2 DEF Clients
<1>4. CASE client' = client
  BY <1>1, <1>4 DEF Over
<1>5. CASE /\ client[m.sync].status = "waiting" /\ client[m.sync].file = m.file
           /\ client' = [client EXCEPT ![m.sync].answer = answer]
  <2>1. /\ client' = [client EXCEPT ![m.sync] = row]
    BY <1>1, <1>5
  <2> HIDE DEF row
  <2>2. client' \in [Syncs -> Clients]
    BY <1>1, <1>3, <2>1
  <2>3. client'[m.sync] = row /\ \A t \in Syncs \ {m.sync} : client'[t] = client[t]
    BY <1>1, <2>1
  <2> QED BY <1>3, <1>5, <2>2, <2>3 DEF Over
<1> QED BY <1>4, <1>5 DEF Reply

\* Requests are applied, refused or lost.
LEMMA RequestSteps ==
    ASSUME IInv, NEW m \in inflight
    PROVE  /\ ApplyChanged(m) \/ ApplyUnchanged(m) => Takes(m)
           /\ Refuse(m) \/ Lose(m) => Drops(m)
<1>1. Draft(m) \in Proved!SourceDrafts
  BY FileFacts DEF IInv, RequestsStarted, Draft
<1>2. Proved!IInv
  BY DEF IInv
<1>3. ASSUME ApplyChanged(m)
      PROVE  Takes(m)
  <2>1. Proved!UpsertChangedSource(Draft(m), FreshRevision)
    BY <1>3, SameImporting DEF ApplyChanged
  <2>2. PICK id : id = FreshRevision
    OBVIOUS
  <2>3. Imports(Draft(m), id) /\ id \notin DOMAIN revisions
    <3>1. PICK draft \in Proved!SourceDrafts : draft = Draft(m)
      BY <1>1
    <3> QED BY <1>2, <2>1, <2>2, <3>1, ChangedImports
  <2>4. Over(m, {"changed"})
    BY <1>3, ReplyEffect DEF ApplyChanged
  <2> QED BY <2>3, <2>4 DEF Takes
<1>4. ASSUME ApplyUnchanged(m)
      PROVE  Takes(m)
  <2>1. Proved!UpsertUnchangedSource(Draft(m))
    BY <1>4, SameImporting DEF ApplyUnchanged
  <2>2. PICK id \in DOMAIN revisions : Imports(Draft(m), id)
    <3>1. PICK draft \in Proved!SourceDrafts : draft = Draft(m)
      BY <1>1
    <3> QED BY <1>2, <2>1, <3>1, UnchangedImports
  <2>3. Over(m, {"unchanged"})
    BY <1>4, ReplyEffect DEF ApplyUnchanged
  <2> QED BY <2>2, <2>3 DEF Takes
<1>5. ASSUME Refuse(m)
      PROVE  Drops(m)
  BY <1>5, ReplyEffect DEF Refuse, Drops
<1>6. ASSUME Lose(m)
      PROVE  Drops(m)
  BY <1>6 DEF Lose, Drops, Over, IInv, TypeOK
<1> QED BY <1>3, <1>4, <1>5, <1>6

\* What a client that goes on, whatever it does, may become.
Onward(s, row) ==
    /\ row \in Clients
    /\ row.status # "idle"
    /\ row.file \in DOMAIN Files(s)
    /\ row.changed + Counted(row.answer) <= client[s].changed + Counted(client[s].answer)
    /\ \A n \in DOMAIN Files(s) :
          (\/ row.status = "done"
           \/ n < row.file
           \/ n = row.file /\ row.answer \in {"changed", "unchanged"}) => Taken(s, n)

\* One client going on is a step of it.
LEMMA OnwardStep ==
    ASSUME IInv, NEW s \in Syncs, NEW row, Onward(s, row),
           client' = [client EXCEPT ![s] = row], UNCHANGED store,
           client[s].status \in {"idle", "sending", "waiting"},
           \/ inflight' = inflight
           \/ inflight' = inflight \cup
                 {[sync |-> s, file |-> client[s].file, attempt |-> client[s].attempt]}
    PROVE  ClientStep(s)
<1>1. client \in [Syncs -> Clients] /\ row \in Clients
  BY DEF IInv, TypeOK, Onward
<1>2. /\ client' \in [Syncs -> Clients]
      /\ client'[s] = row
      /\ \A t \in Syncs \ {s} : client'[t] = client[t]
  BY <1>1
<1>3. \A n \in DOMAIN Files(s) : Taken(s, n)' => Taken(s, n)
  BY <1>2 DEF Taken, Onward, Files
<1> QED BY <1>2, <1>3 DEF ClientStep, Onward

\* The clients' own steps.
LEMMA ClientSteps ==
    ASSUME IInv, NEW s \in Syncs,
           Start(s) \/ Put(s) \/ Receive(s) \/ GiveUp(s) \/ Abandon(s)
    PROVE  ClientStep(s)
<1>1. PICK c \in Clients : c = client[s]
  BY DEF IInv, TypeOK
<1>2. c.file \in DOMAIN Files(s) /\ client \in [Syncs -> Clients]
  BY <1>1 DEF IInv, TypeOK
<1>3. /\ DOMAIN Files(s) = 1 .. Len(Files(s))
      /\ Len(Files(s)) \in Nat
      /\ MaxAttempts \in Nat \ {0}
  BY InvocationAssumption DEF Files
<1>4. \A answer : Counted(answer) \in {0, 1} /\ Counted(None) = 0
  BY <1>1, NoneAssumption DEF Counted
<1>5. ASSUME NEW row \in Clients, row.status \notin {"idle", "done"},
             row.file = c.file, row.changed = c.changed, row.answer \in {None, c.answer}
      PROVE  Onward(s, row)
  <2>1. c.changed \in Nat /\ row.changed \in Nat
    BY DEF Clients
  <2>2. row.changed + Counted(row.answer) <= c.changed + Counted(c.answer)
    BY <1>4, <1>5, <2>1
  <2>3. None \notin {"changed", "unchanged"}
    BY NoneAssumption
  <2> QED BY <1>1, <1>2, <1>5, <2>2, <2>3 DEF Onward, Taken
<1>6. CASE Start(s)
  <2> DEFINE row == [c EXCEPT !.status = "sending"]
  <2>1. /\ row \in Clients /\ row.status = "sending" /\ row.file = c.file
        /\ row.changed = c.changed /\ row.answer = c.answer
    BY DEF Clients
  <2>2. client' = [client EXCEPT ![s] = row]
    BY <1>1, <1>2, <1>6 DEF Start
  <2> HIDE DEF row
  <2>3. Onward(s, row)
    BY <1>5, <2>1
  <2> QED BY <1>6, <2>2, <2>3, OnwardStep DEF Start
<1>7. CASE Put(s)
  <2> DEFINE row == [c EXCEPT !.status = "waiting"]
  <2>1. /\ row \in Clients /\ row.status = "waiting" /\ row.file = c.file
        /\ row.changed = c.changed /\ row.answer = c.answer
    BY DEF Clients
  <2>2. client' = [client EXCEPT ![s] = row]
    BY <1>1, <1>2, <1>7 DEF Put
  <2> HIDE DEF row
  <2>3. Onward(s, row)
    BY <1>5, <2>1
  <2> QED BY <1>7, <2>2, <2>3, OnwardStep DEF Put
<1>8. CASE GiveUp(s)
  <2> DEFINE row == Retry(c)
  <2>1. /\ row \in Clients /\ row.status \in {"sending", "failed"} /\ row.file = c.file
        /\ row.changed = c.changed /\ row.answer = None
    <3>1. CASE c.attempt < MaxAttempts
      <4>1. PICK next \in 1 .. MaxAttempts : next = c.attempt + 1
        BY <1>3, <3>1 DEF Clients
      <4>2. row = [c EXCEPT !.status = "sending", !.answer = None, !.attempt = next]
        BY <3>1, <4>1 DEF Retry
      <4> HIDE DEF row
      <4> QED BY <4>2 DEF Clients
    <3>2. CASE ~(c.attempt < MaxAttempts)
      BY <3>2 DEF Retry, Clients
    <3> QED BY <3>1, <3>2
  <2>2. client' = [client EXCEPT ![s] = row]
    BY <1>1, <1>2, <1>8 DEF GiveUp
  <2> HIDE DEF row
  <2>3. Onward(s, row)
    BY <1>5, <2>1
  <2> QED BY <1>8, <2>2, <2>3, OnwardStep DEF GiveUp
<1>9. CASE Abandon(s)
  <2> DEFINE row == [c EXCEPT !.status = "failed", !.answer = None]
  <2>1. /\ row \in Clients /\ row.status = "failed" /\ row.file = c.file
        /\ row.changed = c.changed /\ row.answer = None
    BY DEF Clients
  <2>2. client' = [client EXCEPT ![s] = row]
    BY <1>1, <1>2, <1>9 DEF Abandon
  <2> HIDE DEF row
  <2>3. Onward(s, row)
    BY <1>5, <2>1
  <2> QED BY <1>9, <2>2, <2>3, OnwardStep DEF Abandon
<1>10. CASE Receive(s)
  <2>1. c.status = "waiting" /\ c.answer # None /\ UNCHANGED <<inflight, store>>
    BY <1>1, <1>10 DEF Receive
  <2>2. CASE ~Accepted(c.answer)
    <3> DEFINE row == [c EXCEPT !.status = "failed", !.answer = None]
    <3>1. /\ row \in Clients /\ row.status = "failed" /\ row.file = c.file
          /\ row.changed = c.changed /\ row.answer = None
      BY DEF Clients
    <3>2. client' = [client EXCEPT ![s] = row]
      BY <1>1, <1>2, <1>10, <2>2 DEF Receive
    <3> HIDE DEF row
    <3>3. Onward(s, row)
      BY <1>5, <3>1
    <3> QED BY <1>1, <2>1, <3>2, <3>3, OnwardStep
  <2>3. CASE Accepted(c.answer)
    <3>1. c.answer \in {"changed", "unchanged"}
      BY <2>1, <2>3 DEF Accepted, Clients
    <3>2. Taken(s, c.file)
      BY <1>1, <3>1 DEF Taken
    <3>3. PICK next \in DOMAIN Files(s), status \in {"done", "sending"},
               changed \in Nat :
            /\ status = IF c.file = Len(Files(s)) THEN "done" ELSE "sending"
            /\ next = IF c.file = Len(Files(s)) THEN c.file ELSE c.file + 1
            /\ changed = c.changed + Counted(c.answer)
      <4>1. c.changed + Counted(c.answer) \in Nat
        BY <1>4 DEF Clients
      <4>2. CASE c.file = Len(Files(s))
        BY <1>2, <4>1, <4>2
      <4>3. CASE c.file # Len(Files(s))
        <5>1. c.file + 1 \in DOMAIN Files(s)
          BY <1>2, <1>3, <4>3
        <5> QED BY <4>1, <4>3, <5>1
      <4> QED BY <4>2, <4>3
    <3> DEFINE row == [c EXCEPT !.status = status, !.file = next, !.attempt = 1,
                                !.changed = changed, !.answer = None]
    <3>4. client' = [client EXCEPT ![s] = row]
      BY <1>1, <1>2, <1>10, <2>3, <3>3 DEF Receive
    <3>5. /\ row \in Clients /\ row.status = status /\ row.file = next
          /\ row.changed = changed /\ row.answer = None
      <4>1. next \in Nat \ {0} /\ 1 \in 1 .. MaxAttempts
        BY <1>3
      <4> QED BY <4>1 DEF Clients
    <3> HIDE DEF row
    <3>6. row.changed + Counted(row.answer) <= c.changed + Counted(c.answer)
      BY <1>4, <3>3, <3>5
    <3>7. \A n \in DOMAIN Files(s) :
             (row.status = "done" \/ n < row.file) => Taken(s, n)
      <4> SUFFICES ASSUME NEW n \in DOMAIN Files(s), row.status = "done" \/ n < row.file
                   PROVE  Taken(s, n)
        OBVIOUS
      <4>1. n <= c.file
        BY <1>2, <1>3, <3>3, <3>5
      <4> QED BY <1>1, <1>2, <1>3, <3>2, <4>1 DEF Taken
    <3>8. None \notin {"changed", "unchanged"}
      BY NoneAssumption
    <3>9. Onward(s, row)
      BY <1>1, <3>3, <3>5, <3>6, <3>7, <3>8 DEF Onward
    <3> QED BY <1>1, <2>1, <3>4, <3>9, OnwardStep
  <2> QED BY <2>2, <2>3
<1> QED BY <1>6, <1>7, <1>8, <1>9, <1>10

\* Every step is one of these.
LEMMA StepEffect ==
    ASSUME IInv, Next
    PROVE  \/ \E s \in Syncs : ClientStep(s)
           \/ \E m \in inflight : Takes(m) \/ Drops(m)
  BY ClientSteps, RequestSteps DEF Next

\* There are finitely many identifiers.
LEMMA IdentifiersFinite == IsFiniteSet(1 .. MaxRevisions)
  BY InvocationAssumption, FS_Interval

\* A store has finitely many revisions, of whomever.
LEMMA AuthoredByFinite ==
    ASSUME IInv, NEW subject
    PROVE  /\ IsFiniteSet(AuthoredBy(subject))
           /\ Cardinality(AuthoredBy(subject)) \in Nat
<1>1. AuthoredBy(subject) \in SUBSET (1 .. MaxRevisions)
  BY DEF AuthoredBy, IInv, Proved!IInv, Proved!TypeOK
<1> QED BY <1>1, IdentifiersFinite, FS_Subset, FS_CardinalityType

\* A file of an invocation that has started is on offer.
LEMMA FileIsOffered ==
    ASSUME NEW s \in Syncs, Started(s), NEW n \in DOMAIN Files(s)
    PROVE  Files(s)[n].body
              \in Offered(DocumentSlug(Files(s)[n].relative), Files(s)[n].language)
<1> DEFINE f == <<s, Files(s)[n]>>
<1>1. f \in AllFiles
  BY FileFacts
<1>2. f[1] = s /\ f[2] = Files(s)[n]
  OBVIOUS
<1> QED BY <1>1, <1>2 DEF Offered

-----------------------------------------------------------------------------
(* The invariant is inductive.                                             *)

\* Who has started stays started, and offers what he has.
LEMMA OfferedGrows ==
    ASSUME \A s \in Syncs : client[s].status # "idle" => client'[s].status # "idle"
    PROVE  /\ \A s \in Syncs : Started(s) => Started(s)'
           /\ \A k, l : Offered(k, l) \subseteq Offered(k, l)'
<1>1. \A s \in Syncs : Started(s) => Started(s)'
  BY DEF Started
<1>2. \A f \in AllFiles : f[1] \in Syncs
  BY FilesAreOfSyncs
<1>3. \A f \in AllFiles : Started(f[1]) => Started(f[1])'
  BY <1>1, <1>2
<1>4. ASSUME NEW k, NEW l
      PROVE  Offered(k, l) \subseteq Offered(k, l)'
  BY <1>3 DEF Offered
<1> QED BY <1>1, <1>4

\* What depends on the store only, or on who has started, survives when the
\* store stays as it is.
LEMMA StoreAsItWas ==
    ASSUME IInv, UNCHANGED store,
           \A s \in Syncs : client[s].status # "idle" => client'[s].status # "idle"
    PROVE  /\ Proved!IInv' /\ Store!TypeOK'
           /\ CitesStarted' /\ StaysPublished' /\ PageOfImport' /\ AgreedOnce'
           /\ \A subject : AuthoredBy(subject)' = AuthoredBy(subject)
<1>1. UNCHANGED Proved!vars
  BY DEF store, Proved!vars
<1>2. Proved!IInv'
  BY <1>1, StoreAssumption, Proved!NextIInv DEF IInv
<1>3. Store!TypeOK'
  BY <1>2, SameQueries, PTL DEF Proved!IInv
<1>4. /\ \A s \in Syncs : Started(s) => Started(s)'
      /\ \A k, l : Offered(k, l) \subseteq Offered(k, l)'
  BY OfferedGrows
<1>5. revisions' = revisions /\ pages' = pages
  BY DEF store
<1>6. CitesStarted'
  BY <1>4, <1>5 DEF IInv, CitesStarted, CitesFile
<1>7. StaysPublished' /\ PageOfImport'
  BY <1>5 DEF IInv, StaysPublished, PageOfImport
<1>8. AgreedOnce'
  <2> SUFFICES ASSUME NEW i \in DOMAIN revisions, NEW j \in DOMAIN revisions,
                      revisions[i].key = revisions[j].key,
                      revisions[i].language = revisions[j].language,
                      \A a, b \in Offered(revisions[i].key, revisions[i].language)' : a = b
               PROVE  i = j
    BY <1>5 DEF AgreedOnce
  <2>1. Offered(revisions[i].key, revisions[i].language)
           \subseteq Offered(revisions[i].key, revisions[i].language)'
    <3>1. PICK k, l : k = revisions[i].key /\ l = revisions[i].language
      OBVIOUS
    <3>2. Offered(k, l) \subseteq Offered(k, l)'
      BY <1>4
    <3> QED BY <1>5, <3>1, <3>2
  <2> QED BY <2>1 DEF IInv, AgreedOnce
<1>9. \A subject : AuthoredBy(subject)' = AuthoredBy(subject)
  BY <1>5 DEF AuthoredBy
<1> QED BY <1>2, <1>3, <1>6, <1>7, <1>8, <1>9

\* A client's step.
LEMMA ClientStepKeepsIInv ==
    ASSUME IInv, NEW s \in Syncs, ClientStep(s)
    PROVE  IInv'
<1>1. /\ UNCHANGED store
      /\ client' \in [Syncs -> Clients]
      /\ \A t \in Syncs \ {s} : client'[t] = client[t]
      /\ client'[s].status # "idle"
      /\ client'[s].file \in DOMAIN Files(s)
  BY DEF ClientStep
<1>2. \A t \in Syncs : client[t].status # "idle" => client'[t].status # "idle"
  BY <1>1
<1>3. /\ Proved!IInv' /\ Store!TypeOK'
      /\ CitesStarted' /\ StaysPublished' /\ PageOfImport' /\ AgreedOnce'
      /\ \A subject : AuthoredBy(subject)' = AuthoredBy(subject)
  BY <1>1, <1>2, StoreAsItWas
<1>4. \A t \in Syncs : client[t] \in Clients /\ client[t].file \in DOMAIN Files(t)
  BY DEF IInv, TypeOK
<1>5. \A m \in inflight' :
         m \in inflight \/ m = [sync |-> s, file |-> client[s].file,
                                attempt |-> client[s].attempt]
  BY DEF ClientStep
<1>6. inflight' \subseteq Requests
  BY <1>4, <1>5 DEF IInv, TypeOK, Requests, Clients
<1>7. TypeOK'
  BY <1>1, <1>3, <1>4, <1>6 DEF TypeOK, Files
<1>8. RequestsStarted'
  BY <1>1, <1>2, <1>4, <1>5 DEF IInv, RequestsStarted, Started, Files
<1>9. IdleIsFresh'
  BY <1>1 DEF IInv, IdleIsFresh
<1>10. CountsHonest'
  <2> SUFFICES ASSUME NEW t \in Syncs
               PROVE  client'[t].changed + Counted(client'[t].answer)
                         <= Cardinality(AuthoredBy(Invocation[t].subject)')
    BY DEF CountsHonest, Counted
  <2>1. client'[t].changed + Counted(client'[t].answer)
           <= client[t].changed + Counted(client[t].answer)
    <3>1. CASE t = s
      BY <3>1 DEF ClientStep
    <3>2. CASE t # s
      <4>1. client'[t] = client[t] /\ client[t].changed + Counted(client[t].answer) \in Nat
        BY <1>1, <1>4, <3>2 DEF Clients, Counted
      <4> QED BY <4>1
    <3> QED BY <3>1, <3>2
  <2>2. /\ client[t].changed + Counted(client[t].answer) \in Nat
        /\ client'[t].changed + Counted(client'[t].answer) \in Nat
    BY <1>1, <1>4 DEF Clients, Counted
  <2>3. client[t].changed + Counted(client[t].answer)
           <= Cardinality(AuthoredBy(Invocation[t].subject))
    BY DEF IInv, CountsHonest
  <2>4. AuthoredBy(Invocation[t].subject)' = AuthoredBy(Invocation[t].subject)
    BY <1>3
  <2>5. Cardinality(AuthoredBy(Invocation[t].subject)) \in Nat
    BY AuthoredByFinite
  <2> QED BY <2>1, <2>2, <2>3, <2>4, <2>5
<1> QED BY <1>3, <1>7, <1>8, <1>9, <1>10 DEF IInv

\* What the end of a request does to the clients.
LEMMA OverKeeps ==
    ASSUME IInv, NEW m \in inflight, NEW answers, Over(m, answers)
    PROVE  /\ \A t \in Syncs : client[t].status # "idle" => client'[t].status # "idle"
           /\ \A t \in Syncs : client'[t].file \in DOMAIN Files(t)
           /\ inflight' \subseteq Requests
           /\ RequestsStarted'
           /\ IdleIsFresh'
  BY DEF Over, IInv, TypeOK, RequestsStarted, Started, IdleIsFresh, Files

\* A request that has no effect.
LEMMA DropKeepsIInv ==
    ASSUME IInv, NEW m \in inflight, Drops(m)
    PROVE  IInv'
<1>1. UNCHANGED store /\ Over(m, {"refused"})
  BY DEF Drops
<1>2. /\ \A t \in Syncs : client[t].status # "idle" => client'[t].status # "idle"
      /\ \A t \in Syncs : client'[t].file \in DOMAIN Files(t)
      /\ inflight' \subseteq Requests
      /\ RequestsStarted'
      /\ IdleIsFresh'
  BY <1>1, OverKeeps
<1>3. /\ Proved!IInv' /\ Store!TypeOK'
      /\ CitesStarted' /\ StaysPublished' /\ PageOfImport' /\ AgreedOnce'
      /\ \A subject : AuthoredBy(subject)' = AuthoredBy(subject)
  BY <1>1, <1>2, StoreAsItWas
<1>4. TypeOK'
  BY <1>1, <1>2, <1>3 DEF TypeOK, Over, Files
<1>5. CountsHonest'
  <2> SUFFICES ASSUME NEW t \in Syncs
               PROVE  client'[t].changed + Counted(client'[t].answer)
                         <= Cardinality(AuthoredBy(Invocation[t].subject)')
    BY DEF CountsHonest, Counted
  <2>1. /\ client[t] \in Clients
        /\ client'[t].changed = client[t].changed
        /\ client'[t].answer \in {client[t].answer, "refused"}
    BY <1>1 DEF Over, IInv, TypeOK
  <2>2. client[t].changed + Counted(client[t].answer)
           <= Cardinality(AuthoredBy(Invocation[t].subject))
    BY DEF IInv, CountsHonest
  <2>3. AuthoredBy(Invocation[t].subject)' = AuthoredBy(Invocation[t].subject)
    BY <1>3
  <2>4. Cardinality(AuthoredBy(Invocation[t].subject)) \in Nat
    BY AuthoredByFinite
  <2>5. client[t].changed \in Nat
    BY <2>1 DEF Clients
  <2>6. /\ Counted(client[t].answer) \in {0, 1}
        /\ Counted(client'[t].answer) \in {0, Counted(client[t].answer)}
    BY <2>1 DEF Counted
  <2> QED BY <2>1, <2>2, <2>3, <2>4, <2>5, <2>6
<1> QED BY <1>2, <1>3, <1>4, <1>5 DEF IInv

\* The counters stay honest: who hears of a change got a revision.
LEMMA TakeKeepsCounts ==
    ASSUME IInv, NEW m \in inflight, NEW id, Imports(Draft(m), id),
           Over(m, IF id \in DOMAIN revisions THEN {"unchanged"} ELSE {"changed"})
    PROVE  CountsHonest'
<1> SUFFICES ASSUME NEW t \in Syncs
             PROVE  client'[t].changed + Counted(client'[t].answer)
                       <= Cardinality(AuthoredBy(Invocation[t].subject)')
  BY DEF CountsHonest, Counted
<1> DEFINE before == AuthoredBy(Invocation[t].subject)
           after  == AuthoredBy(Invocation[t].subject)'
<1>1. /\ client[t] \in Clients
      /\ client'[t].changed = client[t].changed
      /\ client[t].changed \in Nat
  BY DEF Over, IInv, TypeOK, Clients
<1>2. /\ Counted(client[t].answer) \in {0, 1}
      /\ Counted(client'[t].answer) \in {0, 1}
  BY DEF Counted
<1>3. client[t].changed + Counted(client[t].answer) <= Cardinality(before)
  BY DEF IInv, CountsHonest
<1>4. IsFiniteSet(before) /\ Cardinality(before) \in Nat
  BY AuthoredByFinite
<1>5. before \subseteq after /\ after \subseteq before \cup {id}
  BY DEF AuthoredBy, Imports, RevisionImported
<1>6. /\ IsFiniteSet(before \cup {id})
      /\ Cardinality(before \cup {id})
            = IF id \in before THEN Cardinality(before) ELSE Cardinality(before) + 1
  BY <1>4, FS_AddElement
<1>7. IsFiniteSet(after) /\ Cardinality(after) \in Nat /\ Cardinality(before) <= Cardinality(after)
  BY <1>5, <1>6, FS_Subset, FS_CardinalityType
<1>8. CASE Counted(client'[t].answer) <= Counted(client[t].answer)
  BY <1>1, <1>2, <1>3, <1>4, <1>7, <1>8
<1>9. CASE ~(Counted(client'[t].answer) <= Counted(client[t].answer))
  <2>1. client'[t].answer = "changed" /\ client[t].answer # "changed"
    BY <1>9 DEF Counted
  <2>2. t = m.sync /\ id \notin DOMAIN revisions
    BY <2>1 DEF Over
  <2>3. Draft(m).importer = Invocation[t].subject
    BY <2>2 DEF Draft, SourceDraft
  <2>4. id \in after /\ id \notin before
    BY <2>2, <2>3 DEF AuthoredBy, Imports, OnlyIfChanged, RevisionImported
  <2>5. after = before \cup {id}
    BY <1>5, <2>4
  <2>6. Cardinality(after) = Cardinality(before) + 1
    BY <1>6, <2>4, <2>5
  <2> QED BY <1>1, <1>2, <1>3, <1>4, <2>6
<1> QED BY <1>8, <1>9

\* A request that takes effect.
LEMMA TakeKeepsIInv ==
    ASSUME IInv, NEW m \in inflight, Takes(m)
    PROVE  IInv'
<1>1. PICK id : /\ Imports(Draft(m), id)
                /\ Over(m, IF id \in DOMAIN revisions THEN {"unchanged"} ELSE {"changed"})
  BY DEF Takes
<1>2. /\ \A t \in Syncs : client[t].status # "idle" => client'[t].status # "idle"
      /\ \A t \in Syncs : client'[t].file \in DOMAIN Files(t)
      /\ inflight' \subseteq Requests
      /\ RequestsStarted'
      /\ IdleIsFresh'
  BY <1>1, OverKeeps
<1>3. PICK s \in Syncs : s = m.sync /\ m.file \in DOMAIN Files(s)
  BY DEF IInv, RequestsStarted
<1>25. PICK n \in DOMAIN Files(s) : n = m.file
  BY <1>3
<1>4. Started(s)
  BY <1>3 DEF IInv, RequestsStarted
<1>5. /\ Draft(m).key = DocumentSlug(Files(s)[n].relative)
      /\ Draft(m).language = Files(s)[n].language
      /\ Draft(m).body = Files(s)[n].body
      /\ Draft(m).commit = ProvenanceOf(s, Files(s)[n])
      /\ Draft(m).visibility = Invocation[s].visibility
      /\ Draft(m).source = Invocation[s].source
  BY <1>3, <1>25 DEF Draft, SourceDraft
<1>6. PICK d : d = Draft(m)
  OBVIOUS
<1>7. RevisionImported(d, id) /\ OnlyIfChanged(d, id) /\ PageImported(d) /\ Proved!IInv'
  BY <1>1, <1>6 DEF Imports
<1>8. /\ \A t \in Syncs : Started(t) => Started(t)'
      /\ \A k, l : Offered(k, l) \subseteq Offered(k, l)'
  BY <1>2, OfferedGrows
<1>9. TypeOK'
  <2>1. Store!TypeOK'
    BY <1>7, SameQueries, PTL DEF Proved!IInv
  <2> QED BY <1>1, <1>2, <2>1 DEF TypeOK, Over, Files
<1>10. CitesStarted'
  <2> SUFFICES ASSUME NEW i \in DOMAIN revisions'
               PROVE  \E t \in Syncs : /\ Started(t)'
                                       /\ \E f \in DOMAIN Files(t) : CitesFile(i, t, f)'
    BY DEF CitesStarted, Files
  <2>1. CASE i = id
    <3>1. CitesFile(i, s, n)'
      BY <1>5, <1>6, <1>7, <2>1 DEF CitesFile, RevisionImported, Files, ProvenanceOf
    <3> QED BY <1>4, <1>8, <3>1
  <2>2. CASE i # id
    <3>1. /\ i \in DOMAIN revisions
          /\ revisions'[i].key = revisions[i].key
          /\ revisions'[i].language = revisions[i].language
          /\ revisions'[i].body = revisions[i].body
          /\ revisions'[i].commit = revisions[i].commit
      BY <1>7, <2>2 DEF RevisionImported
    <3>2. PICK t \in Syncs :
             Started(t) /\ \E f \in DOMAIN Files(t) : CitesFile(i, t, f)
      BY <3>1 DEF IInv, CitesStarted
    <3>25. PICK f \in DOMAIN Files(t) : CitesFile(i, t, f)
      BY <3>2
    <3>3. CitesFile(i, t, f)'
      BY <3>1, <3>25 DEF CitesFile, Files, ProvenanceOf
    <3> QED BY <1>8, <3>2, <3>3
  <2> QED BY <2>1, <2>2
<1>11. StaysPublished'
  <2> SUFFICES ASSUME NEW i \in DOMAIN revisions'
               PROVE  \E j \in DOMAIN revisions' :
                         /\ revisions'[j].key = revisions'[i].key
                         /\ revisions'[j].language = revisions'[i].language
                         /\ revisions'[j].status = "published"
    BY DEF StaysPublished
  <2>1. CASE revisions'[i].key = d.key /\ revisions'[i].language = d.language
    BY <1>7, <2>1 DEF RevisionImported
  <2>2. CASE ~(revisions'[i].key = d.key /\ revisions'[i].language = d.language)
    <3>1. i \in DOMAIN revisions /\ i # id
      BY <1>7, <2>2 DEF RevisionImported
    <3>2. PICK j \in DOMAIN revisions : /\ revisions[j].key = revisions[i].key
                                        /\ revisions[j].language = revisions[i].language
                                        /\ revisions[j].status = "published"
      BY <3>1 DEF IInv, StaysPublished
    <3>3. j # id
      BY <1>7, <2>2, <3>1, <3>2 DEF RevisionImported
    <3> QED BY <1>7, <2>2, <3>1, <3>2, <3>3 DEF RevisionImported
  <2> QED BY <2>1, <2>2
<1>12. PageOfImport'
  <2> SUFFICES ASSUME NEW k \in DOMAIN pages'
               PROVE  \E i \in DOMAIN revisions', t \in Syncs :
                         /\ revisions'[i].key = k
                         /\ revisions'[i].status = "published"
                         /\ \E f \in DOMAIN Files(t) :
                               revisions'[i].commit = ProvenanceOf(t, Files(t)[f])
                         /\ pages'[k].visibility = Invocation[t].visibility
                         /\ pages'[k].source = Invocation[t].source
    BY DEF PageOfImport, Files, ProvenanceOf
  <2>1. CASE k = d.key
    BY <1>5, <1>6, <1>7, <2>1 DEF RevisionImported, PageImported
  <2>2. CASE k # d.key
    <3>1. k \in DOMAIN pages /\ pages'[k] = pages[k]
      BY <1>7, <2>2 DEF PageImported
    <3>2. PICK i \in DOMAIN revisions, t \in Syncs :
             /\ revisions[i].key = k
             /\ revisions[i].status = "published"
             /\ \E f \in DOMAIN Files(t) : revisions[i].commit = ProvenanceOf(t, Files(t)[f])
             /\ pages[k].visibility = Invocation[t].visibility
             /\ pages[k].source = Invocation[t].source
      BY <3>1 DEF IInv, PageOfImport
    <3>3. i # id
      BY <1>7, <2>2, <3>2 DEF RevisionImported
    <3>4. /\ i \in DOMAIN revisions'
          /\ revisions'[i].key = k
          /\ revisions'[i].status = "published"
          /\ revisions'[i].commit = revisions[i].commit
      BY <1>7, <2>2, <3>2, <3>3 DEF RevisionImported
    <3> QED BY <3>1, <3>2, <3>4
  <2> QED BY <2>1, <2>2
<1>13. AgreedOnce'
  <2> SUFFICES ASSUME NEW i \in DOMAIN revisions', NEW j \in DOMAIN revisions',
                      revisions'[i].key = revisions'[j].key,
                      revisions'[i].language = revisions'[j].language,
                      \A a, b \in Offered(revisions[i].key, revisions[i].language)' : a = b
               PROVE  i = j
    BY DEF AgreedOnce
  <2>1. PICK k, l : k = revisions'[i].key /\ l = revisions'[i].language
    OBVIOUS
  <2>2. \A a, b \in Offered(k, l) : a = b
    BY <1>8, <2>1
  <2>3. CASE i \in DOMAIN revisions /\ j \in DOMAIN revisions
    <3>1. /\ revisions[i].key = k /\ revisions[i].language = l
          /\ revisions[j].key = k /\ revisions[j].language = l
      BY <1>7, <2>1, <2>3 DEF RevisionImported
    <3> QED BY <2>2, <2>3, <3>1 DEF IInv, AgreedOnce
  <2>4. ASSUME NEW o \in DOMAIN revisions, id \notin DOMAIN revisions,
               revisions[o].key = d.key, revisions[o].language = d.language,
               d.key = k, d.language = l
        PROVE  FALSE
    <3>1. PICK p \in DOMAIN revisions : /\ revisions[p].key = d.key
                                        /\ revisions[p].language = d.language
                                        /\ revisions[p].status = "published"
      BY <2>4 DEF IInv, StaysPublished
    <3>2. revisions[p].body # d.body
      BY <1>7, <2>4, <3>1 DEF OnlyIfChanged
    <3>3. PICK t \in Syncs :
             Started(t) /\ \E f \in DOMAIN Files(t) : CitesFile(p, t, f)
      BY DEF IInv, CitesStarted
    <3>25. PICK f \in DOMAIN Files(t) : CitesFile(p, t, f)
      BY <3>3
    <3>4. revisions[p].body \in Offered(k, l)
      BY <2>4, <3>1, <3>3, <3>25, FileIsOffered DEF CitesFile
    <3>5. d.body \in Offered(k, l)
      BY <1>4, <1>5, <1>6, <2>4, FileIsOffered
    <3> QED BY <2>2, <3>2, <3>4, <3>5
  <2>5. CASE i \notin DOMAIN revisions /\ i # j
    <3>1. i = id /\ j \in DOMAIN revisions /\ d.key = k /\ d.language = l
      BY <1>7, <2>1, <2>5 DEF RevisionImported
    <3>2. revisions[j].key = d.key /\ revisions[j].language = d.language
      BY <1>7, <2>1, <3>1 DEF RevisionImported
    <3> QED BY <2>4, <2>5, <3>1, <3>2
  <2>6. CASE j \notin DOMAIN revisions /\ i # j
    <3>1. j = id /\ i \in DOMAIN revisions /\ d.key = k /\ d.language = l
      BY <1>7, <2>1, <2>6 DEF RevisionImported
    <3>2. revisions[i].key = d.key /\ revisions[i].language = d.language
      BY <1>7, <2>1, <3>1 DEF RevisionImported
    <3> QED BY <2>4, <2>6, <3>1, <3>2
  <2> QED BY <2>3, <2>5, <2>6
<1>14. CountsHonest'
  BY <1>1, TakeKeepsCounts
<1> QED BY <1>2, <1>7, <1>9, <1>10, <1>11, <1>12, <1>13, <1>14 DEF IInv

\* Nothing has happened.
LEMMA InitIInv == Init => IInv
<1> SUFFICES ASSUME Init
             PROVE  IInv
  OBVIOUS
<1>1. Proved!IInv
  BY StoreAssumption, SameQueries, Proved!InitIInv DEF Init
<1>2. DOMAIN revisions = {} /\ DOMAIN pages = {} /\ inflight = {}
  BY DEF Init, Store!Init
<1>3. \A s \in Syncs : client[s] = [status |-> "idle", file |-> 1, attempt |-> 1,
                                    changed |-> 0, answer |-> None]
  BY DEF Init
<1>4. \A s \in Syncs : 1 \in DOMAIN Files(s)
  BY InvocationAssumption DEF Files
<1>5. client \in [Syncs -> Clients]
  <2>1. [status |-> "idle", file |-> 1, attempt |-> 1, changed |-> 0, answer |-> None]
           \in Clients
    BY InvocationAssumption DEF Clients
  <2> QED BY <2>1 DEF Init
<1>6. TypeOK
  BY <1>1, <1>2, <1>3, <1>4, <1>5, SameQueries DEF TypeOK, Proved!IInv
<1>7. RequestsStarted /\ IdleIsFresh
  BY <1>2, <1>3 DEF RequestsStarted, IdleIsFresh
<1>8. CitesStarted /\ StaysPublished /\ PageOfImport /\ AgreedOnce
  BY <1>2 DEF CitesStarted, StaysPublished, PageOfImport, AgreedOnce
<1>9. CountsHonest
  <2>1. \A subject : AuthoredBy(subject) = {}
    BY <1>2 DEF AuthoredBy
  <2>2. Cardinality({}) = 0
    BY FS_EmptySet
  <2>3. Counted(None) = 0
    BY NoneAssumption DEF Counted
  <2> QED BY <1>3, <2>1, <2>2, <2>3 DEF CountsHonest
<1> QED BY <1>1, <1>6, <1>7, <1>8, <1>9 DEF IInv

\* No step leaves it.
LEMMA NextIInv == IInv /\ [Next]_vars => IInv'
<1> SUFFICES ASSUME IInv, [Next]_vars
             PROVE  IInv'
  OBVIOUS
<1>1. CASE Next
  BY <1>1, StepEffect, ClientStepKeepsIInv, DropKeepsIInv, TakeKeepsIInv
<1>2. CASE UNCHANGED vars
  <2>1. UNCHANGED store /\ client' = client /\ inflight' = inflight
    BY <1>2 DEF vars, store
  <2>2. /\ Proved!IInv' /\ Store!TypeOK'
        /\ CitesStarted' /\ StaysPublished' /\ PageOfImport' /\ AgreedOnce'
        /\ \A subject : AuthoredBy(subject)' = AuthoredBy(subject)
    BY <2>1, StoreAsItWas
  <2>3. TypeOK'
    BY <2>1, <2>2 DEF IInv, TypeOK, Files
  <2>4. RequestsStarted' /\ IdleIsFresh'
    BY <2>1 DEF IInv, RequestsStarted, IdleIsFresh, Started, Files
  <2>5. CountsHonest'
    BY <2>1, <2>2 DEF IInv, CountsHonest
  <2> QED BY <2>2, <2>3, <2>4, <2>5 DEF IInv
<1> QED BY <1>1, <1>2

-----------------------------------------------------------------------------
(* Theorems.                                                               *)

\* The invariant holds in every reachable state.
LEMMA Invariance == Spec => []IInv
<1> QED BY InitIInv, NextIInv, PTL DEF Spec

\* Clients, requests and the store hold what they may; no client makes an
\* attempt beyond the last (putSource).
THEOREM TypeCorrect == Spec => []TypeOK
<1>1. IInv => TypeOK
  BY DEF IInv
<1> QED BY <1>1, Invariance, PTL

\* Each revision ever published has the content that the file it cites has, in
\* whatever order requests of whatever syncs take effect (UpsertSource moves the
\* provenance of a revision only to a file with the same content).
THEOREM CitationsTruthful == Spec => []CitationIsTruthful
<1>1. IInv => CitationIsTruthful
  <2> SUFFICES ASSUME IInv, NEW i \in DOMAIN revisions
               PROVE  \E f \in AllFiles :
                         /\ revisions[i].commit = ProvenanceOf(f[1], f[2])
                         /\ revisions[i].body = f[2].body
                         /\ revisions[i].language = f[2].language
                         /\ revisions[i].key = DocumentSlug(f[2].relative)
    BY DEF CitationIsTruthful
  <2>1. PICK s \in Syncs : \E n \in DOMAIN Files(s) : CitesFile(i, s, n)
    BY DEF IInv, CitesStarted
  <2>2. PICK n \in DOMAIN Files(s) : CitesFile(i, s, n)
    BY <2>1
  <2> DEFINE f == <<s, Files(s)[n]>>
  <2>3. f \in AllFiles
    BY FileFacts
  <2>4. f[1] = s /\ f[2] = Files(s)[n]
    OBVIOUS
  <2> QED BY <2>2, <2>3, <2>4 DEF CitesFile
<1> QED BY <1>1, Invariance, PTL

\* A page has the visibility and the source of one import, and of one that a
\* published revision of the page still cites (UpsertSource writes the page and
\* the provenance in one transaction, whatever the content).
THEOREM PagesAreOneImport == Spec => []PageIsOneImport
<1>1. IInv => PageIsOneImport
  <2> SUFFICES ASSUME IInv, NEW k \in DOMAIN pages
               PROVE  \E f \in AllFiles, i \in DOMAIN revisions :
                         /\ revisions[i].key = k
                         /\ revisions[i].status = "published"
                         /\ revisions[i].commit = ProvenanceOf(f[1], f[2])
                         /\ pages[k].visibility = Invocation[f[1]].visibility
                         /\ pages[k].source = Invocation[f[1]].source
    BY DEF PageIsOneImport
  <2>1. PICK i \in DOMAIN revisions, s \in Syncs :
           /\ revisions[i].key = k
           /\ revisions[i].status = "published"
           /\ \E n \in DOMAIN Files(s) : revisions[i].commit = ProvenanceOf(s, Files(s)[n])
           /\ pages[k].visibility = Invocation[s].visibility
           /\ pages[k].source = Invocation[s].source
    BY DEF IInv, PageOfImport
  <2>2. PICK n \in DOMAIN Files(s) : revisions[i].commit = ProvenanceOf(s, Files(s)[n])
    BY <2>1
  <2> DEFINE f == <<s, Files(s)[n]>>
  <2>3. f \in AllFiles
    BY FileFacts
  <2>4. f[1] = s /\ f[2] = Files(s)[n]
    OBVIOUS
  <2> QED BY <2>1, <2>2, <2>3, <2>4
<1> QED BY <1>1, Invariance, PTL

\* What a function makes of finitely many is finite.
LEMMA ImageFinite ==
    ASSUME NEW S, IsFiniteSet(S), NEW f, f = [x \in S |-> f[x]]
    PROVE  IsFiniteSet({f[x] : x \in S})
<1> DEFINE T == {f[x] : x \in S}
<1>1. f \in Surjection(S, T)
  <2>1. f \in [S -> T]
    OBVIOUS
  <2> QED BY <2>1 DEF Surjection
<1> QED BY <1>1, FS_Surjection

\* There are finitely many files on offer.
LEMMA OfferedFinite ==
    ASSUME NEW k, NEW l
    PROVE  IsFiniteSet(Offered(k, l))
<1> DEFINE filesOf(s) == {<<s, Files(s)[n]>> : n \in DOMAIN Files(s)}
<1>1. IsFiniteSet(Syncs)
  BY InvocationAssumption
<1>2. ASSUME NEW s \in Syncs
      PROVE  IsFiniteSet(filesOf(s))
  <2>1. /\ DOMAIN Files(s) = 1 .. Len(Files(s))
        /\ Len(Files(s)) \in Int
    BY InvocationAssumption DEF Files
  <2>2. IsFiniteSet(1 .. Len(Files(s)))
    BY <2>1, FS_Interval
  <2>3. PICK S : S = DOMAIN Files(s)
    OBVIOUS
  <2> DEFINE f == [n \in S |-> <<s, Files(s)[n]>>]
  <2>4. filesOf(s) = {f[n] : n \in S}
    BY <2>3
  <2>5. IsFiniteSet({f[n] : n \in S})
    <3>1. IsFiniteSet(S) /\ f = [n \in S |-> f[n]]
      BY <2>1, <2>2, <2>3
    <3> HIDE DEF f
    <3> QED BY <3>1, ImageFinite
  <2> QED BY <2>4, <2>5
<1>3. IsFiniteSet({filesOf(s) : s \in Syncs})
  <2> DEFINE f == [s \in Syncs |-> filesOf(s)]
  <2>1. {filesOf(s) : s \in Syncs} = {f[s] : s \in Syncs}
    OBVIOUS
  <2>2. f = [s \in Syncs |-> f[s]]
    OBVIOUS
  <2> HIDE DEF f
  <2>3. IsFiniteSet({f[s] : s \in Syncs})
    BY <1>1, <2>2, ImageFinite
  <2> QED BY <2>1, <2>3
<1>4. IsFiniteSet(UNION {filesOf(s) : s \in Syncs})
  <2>1. \A T \in {filesOf(s) : s \in Syncs} : IsFiniteSet(T)
    BY <1>2
  <2> HIDE DEF filesOf
  <2> QED BY <1>3, <2>1, FS_UNION
<1>5. IsFiniteSet(AllFiles)
  BY <1>4 DEF AllFiles
<1> DEFINE offering == {g \in AllFiles : /\ Started(g[1])
                                         /\ DocumentSlug(g[2].relative) = k
                                         /\ g[2].language = l}
<1>6. IsFiniteSet(offering)
  BY <1>5, FS_Subset
<1>7. Offered(k, l) = {f[2].body : f \in offering}
  BY DEF Offered
<1>8. PICK S : S = offering
  OBVIOUS
<1> DEFINE bodies == [g \in S |-> g[2].body]
<1>9. Offered(k, l) = {bodies[g] : g \in S} /\ bodies = [g \in S |-> bodies[g]]
  BY <1>7, <1>8
<1> HIDE DEF offering, bodies
<1>10. IsFiniteSet({bodies[g] : g \in S})
  BY <1>6, <1>8, <1>9, ImageFinite
<1> QED BY <1>9, <1>10

\* A set with at most one element has no two.
LEMMA AtMostOne ==
    ASSUME NEW S, IsFiniteSet(S)
    PROVE  Cardinality(S) <= 1 <=> \A a, b \in S : a = b
<1>1. ASSUME NEW a \in S, NEW b \in S, a # b, Cardinality(S) <= 1
      PROVE  FALSE
  <2>1. IsFiniteSet({a}) /\ Cardinality({a}) = 1
    BY FS_Singleton
  <2>2. Cardinality({a} \cup {b}) = 2
    BY <1>1, <2>1, FS_AddElement
  <2>3. Cardinality({a} \cup {b}) <= Cardinality(S)
    BY FS_Subset
  <2>4. Cardinality(S) \in Nat
    BY FS_CardinalityType
  <2> QED BY <1>1, <2>2, <2>3, <2>4
<1>2. ASSUME \A a, b \in S : a = b
      PROVE  Cardinality(S) <= 1
  <2>1. CASE S = {}
    BY <2>1, FS_EmptySet
  <2>2. CASE S # {}
    <3>1. PICK a \in S : TRUE
      BY <2>2
    <3>2. S = {a}
      BY <1>2, <3>1
    <3>3. Cardinality({a}) = 1
      BY FS_Singleton
    <3> QED BY <3>2, <3>3
  <2> QED BY <2>1, <2>2
<1> QED BY <1>1, <1>2

\* A document that all syncs agree on is published once, however often a client,
\* the network or another sync repeats it (UpsertSource compares the content with
\* the published revision, in the transaction that replaces it).
THEOREM RepeatsAreOne == Spec => []RepeatsPublishOnce
<1>1. IInv => RepeatsPublishOnce
  <2> SUFFICES ASSUME IInv, NEW k, NEW l, Cardinality(Offered(k, l)) <= 1
               PROVE  Cardinality(Revisions(k, l)) <= 1
    BY DEF RepeatsPublishOnce
  <2>1. \A a, b \in Offered(k, l) : a = b
    BY OfferedFinite, AtMostOne
  <2>2. \A i, j \in Revisions(k, l) : i = j
    BY <2>1 DEF IInv, AgreedOnce, Revisions
  <2>3. IsFiniteSet(Revisions(k, l))
    <3>1. Revisions(k, l) \in SUBSET (1 .. MaxRevisions)
      BY DEF Revisions, IInv, Proved!IInv, Proved!TypeOK
    <3> QED BY <3>1, IdentifiersFinite, FS_Subset
  <2> QED BY <2>2, <2>3, AtMostOne
<1> QED BY <1>1, Invariance, PTL

\* A report never claims a change that no revision bears out, whatever answers
\* are lost or come too late (syncSource counts what it hears, putSource hears
\* the answer to its last attempt only).
THEOREM ReportsAreHonest == Spec => []ReportIsHonest
<1>1. IInv => ReportIsHonest
  <2> SUFFICES ASSUME IInv, NEW s \in Syncs
               PROVE  client[s].changed <= Cardinality(AuthoredBy(Invocation[s].subject))
    BY DEF ReportIsHonest, AuthoredBy
  <2>1. client[s].changed + Counted(client[s].answer)
           <= Cardinality(AuthoredBy(Invocation[s].subject))
    BY DEF IInv, CountsHonest
  <2>2. client[s].changed \in Nat /\ Counted(client[s].answer) \in {0, 1}
    BY DEF IInv, TypeOK, Clients, Counted
  <2>3. Cardinality(AuthoredBy(Invocation[s].subject)) \in Nat
    BY AuthoredByFinite
  <2> QED BY <2>1, <2>2, <2>3
<1> QED BY <1>1, Invariance, PTL

-----------------------------------------------------------------------------
(* A sync in a quiet world.                                                *)

\* It has done nothing yet.
LEMMA QuietStart ==
    ASSUME IInv, NEW s \in Syncs, Quiet(s)
    PROVE  QuietInv(s)
<1>1. Alone(s)
  BY DEF Quiet, Alone
<1>2. /\ client[s].status = "idle" /\ client[s].file = 1 /\ client[s].answer = None
  BY DEF Quiet, IInv, IdleIsFresh
<1>3. \A n \in DOMAIN Files(s) : n \in Nat \ {0}
  BY InvocationAssumption DEF Files
<1>4. \A n \in DOMAIN Files(s) : ~Taken(s, n)
  BY <1>2, <1>3, NoneAssumption DEF Taken
<1> QED BY <1>1, <1>4 DEF QuietInv

\* What is shown stays so while the store does.
LEMMA ShowsKept ==
    ASSUME NEW s, NEW n, Shows(s, n), UNCHANGED store
    PROVE  Shows(s, n)'
<1>1. revisions' = revisions /\ pages' = pages
  BY DEF store
<1> QED BY <1>1 DEF Shows, Files, ProvenanceOf

\* A request of the sync shows its own file, and hides no other.
LEMMA ImportShows ==
    ASSUME NEW s \in Syncs, NEW f \in DOMAIN Files(s), NEW id, NEW d,
           d.key = DocumentSlug(Files(s)[f].relative),
           d.language = Files(s)[f].language,
           d.body = Files(s)[f].body,
           d.commit = ProvenanceOf(s, Files(s)[f]),
           d.visibility = Invocation[s].visibility,
           RevisionImported(d, id), PageImported(d),
           \A i \in DOMAIN revisions : revisions[i].key \in DOMAIN pages
    PROVE  /\ Shows(s, f)'
           /\ \A n \in DOMAIN Files(s) : Shows(s, n) => Shows(s, n)'
<1>1. ASSUME NEW n \in DOMAIN Files(s),
             d.key = DocumentSlug(Files(s)[n].relative), d.language = Files(s)[n].language
      PROVE  Shows(s, n)'
  BY <1>1 DEF Shows, RevisionImported, PageImported, Files, ProvenanceOf
<1>2. ASSUME NEW n \in DOMAIN Files(s), Shows(s, n),
             ~(/\ d.key = DocumentSlug(Files(s)[n].relative)
               /\ d.language = Files(s)[n].language)
      PROVE  Shows(s, n)'
  <2>1. PICK i \in DOMAIN revisions, g \in DOMAIN Files(s) :
           /\ revisions[i].key = DocumentSlug(Files(s)[n].relative)
           /\ revisions[i].language = Files(s)[n].language
           /\ revisions[i].status = "published"
           /\ revisions[i].body = Files(s)[g].body
           /\ revisions[i].commit = ProvenanceOf(s, Files(s)[g])
           /\ pages[revisions[i].key].visibility = Invocation[s].visibility
    BY <1>2 DEF Shows
  <2>2. i # id
    BY <1>2, <2>1 DEF RevisionImported
  <2>3. /\ i \in DOMAIN revisions'
        /\ revisions'[i].key = revisions[i].key
        /\ revisions'[i].language = revisions[i].language
        /\ revisions'[i].body = revisions[i].body
        /\ revisions'[i].commit = revisions[i].commit
        /\ revisions'[i].status = "published"
    BY <1>2, <2>1, <2>2 DEF RevisionImported
  <2>4. pages'[revisions[i].key].visibility = Invocation[s].visibility
    BY <2>1 DEF PageImported
  <2> QED BY <2>1, <2>3, <2>4 DEF Shows, Files, ProvenanceOf
<1> QED BY <1>1, <1>2

\* What a quiet sync keeps, every step keeps.
LEMMA QuietNext ==
    ASSUME IInv, NEW s \in Syncs, QuietInv(s), [Next]_vars
    PROVE  QuietInv(s)'
<1>1. Alone(s) /\ \A n \in DOMAIN Files(s) : Taken(s, n) => Shows(s, n)
  BY DEF QuietInv
<1>2. SUFFICES /\ Alone(s)'
               /\ \A n \in DOMAIN Files(s) : Taken(s, n)' => Shows(s, n)'
  BY DEF QuietInv, Files
<1>3. CASE UNCHANGED vars
  <2>1. UNCHANGED store /\ client' = client /\ inflight' = inflight
    BY <1>3 DEF vars, store
  <2>2. Alone(s)' /\ \A n \in DOMAIN Files(s) : Taken(s, n)' => Taken(s, n)
    BY <1>1, <2>1 DEF Alone, Taken
  <2> QED BY <1>1, <2>1, <2>2, ShowsKept
<1>4. ASSUME NEW t \in Syncs, ClientStep(t)
      PROVE  /\ Alone(s)'
             /\ \A n \in DOMAIN Files(s) : Taken(s, n)' => Shows(s, n)'
  <2>1. t = s
    BY <1>1, <1>4 DEF Alone, ClientStep
  <2>2. Alone(s)'
    BY <1>1, <1>4, <2>1 DEF Alone, ClientStep
  <2>3. UNCHANGED store /\ \A n \in DOMAIN Files(s) : Taken(s, n)' => Taken(s, n)
    BY <1>4, <2>1 DEF ClientStep
  <2> QED BY <1>1, <2>2, <2>3, ShowsKept
<1>5. ASSUME NEW m \in inflight, NEW answers, Over(m, answers)
      PROVE  /\ m.sync = s /\ Alone(s)'
             /\ \A n \in DOMAIN Files(s) :
                   Taken(s, n)' => \/ Taken(s, n)
                                   \/ /\ n = m.file
                                      /\ {"changed", "unchanged"} \cap answers # {}
  <2>1. m.sync = s /\ Alone(s)'
    BY <1>1, <1>5 DEF Alone, Over
  <2>2. /\ client'[s].status = client[s].status
        /\ client'[s].file = client[s].file
        /\ \/ client'[s].answer = client[s].answer
           \/ client[s].file = m.file /\ client'[s].answer \in answers
    BY <1>5 DEF Over
  <2> QED BY <2>1, <2>2 DEF Taken
<1>6. ASSUME NEW m \in inflight, Drops(m)
      PROVE  /\ Alone(s)'
             /\ \A n \in DOMAIN Files(s) : Taken(s, n)' => Shows(s, n)'
  <2>1. UNCHANGED store /\ Over(m, {"refused"})
    BY <1>6 DEF Drops
  <2>2. Alone(s)' /\ \A n \in DOMAIN Files(s) : Taken(s, n)' => Taken(s, n)
    BY <1>5, <2>1
  <2> QED BY <1>1, <2>1, <2>2, ShowsKept
<1>7. ASSUME NEW m \in inflight, Takes(m)
      PROVE  /\ Alone(s)'
             /\ \A n \in DOMAIN Files(s) : Taken(s, n)' => Shows(s, n)'
  <2>1. PICK id, answers : Imports(Draft(m), id) /\ Over(m, answers)
    BY <1>7 DEF Takes
  <2>2. /\ m.sync = s /\ Alone(s)'
        /\ \A n \in DOMAIN Files(s) : Taken(s, n)' => Taken(s, n) \/ n = m.file
    BY <1>5, <2>1
  <2>3. PICK f \in DOMAIN Files(s) : f = m.file
    BY <2>2 DEF IInv, RequestsStarted
  <2>4. PICK d : d = Draft(m)
    OBVIOUS
  <2>5. /\ d.key = DocumentSlug(Files(s)[f].relative)
        /\ d.language = Files(s)[f].language
        /\ d.body = Files(s)[f].body
        /\ d.commit = ProvenanceOf(s, Files(s)[f])
        /\ d.visibility = Invocation[s].visibility
    BY <2>2, <2>3, <2>4 DEF Draft, SourceDraft
  <2>6. RevisionImported(d, id) /\ PageImported(d)
    BY <2>1, <2>4 DEF Imports
  <2>7. \A i \in DOMAIN revisions : revisions[i].key \in DOMAIN pages
    BY DEF IInv, Proved!IInv, Proved!TypeOK
  <2>8. /\ Shows(s, f)'
        /\ \A n \in DOMAIN Files(s) : Shows(s, n) => Shows(s, n)'
    BY <2>5, <2>6, <2>7, ImportShows
  <2> QED BY <1>1, <2>2, <2>3, <2>8
<1> QED BY <1>3, <1>4, <1>6, <1>7, StepEffect

\* A sync that is done has had all its files taken, and so shows them.
LEMMA QuietDone ==
    ASSUME IInv, NEW s \in Syncs, QuietInv(s), client[s].status = "done"
    PROVE  Publishes(s)
<1> SUFFICES ASSUME NEW n \in DOMAIN Files(s)
             PROVE  LET latest == Store!Latest(DocumentSlug(Files(s)[n].relative),
                                               Files(s)[n].language)
                    IN  /\ latest # None
                        /\ \E m \in DOMAIN Files(s) :
                              /\ revisions[latest].body = Files(s)[m].body
                              /\ revisions[latest].commit = ProvenanceOf(s, Files(s)[m])
                        /\ pages[revisions[latest].key].visibility
                              = Invocation[s].visibility
  BY DEF Publishes
<1> DEFINE k == DocumentSlug(Files(s)[n].relative)
           l == Files(s)[n].language
<1>1. Shows(s, n)
  BY DEF QuietInv, Taken
<1>2. PICK i \in DOMAIN revisions, f \in DOMAIN Files(s) :
         /\ revisions[i].key = k
         /\ revisions[i].language = l
         /\ revisions[i].status = "published"
         /\ revisions[i].body = Files(s)[f].body
         /\ revisions[i].commit = ProvenanceOf(s, Files(s)[f])
         /\ pages[revisions[i].key].visibility = Invocation[s].visibility
  BY <1>1 DEF Shows
<1>3. i \in Proved!Published(k, l)
  BY <1>2 DEF Proved!Published
<1>4. Proved!TypeOK /\ Proved!OnePublished
  BY DEF IInv, Proved!IInv
<1>5. Proved!Latest(k, l) # None /\ Proved!Latest(k, l) = i
  BY <1>3, <1>4, StoreAssumption, Proved!LatestIsPublished
<1>6. Store!Latest(k, l) # None /\ Store!Latest(k, l) = i
  BY <1>5, SameQueries
<1> QED BY <1>2, <1>6

\* A sync that begins when the others have ended and drained, and that reports
\* success, has its tree published and keeps it so, whatever it had to repeat and
\* whichever of its own requests are late (putSource, syncSource, UpsertSource).
THEOREM QuietSyncsPublish == Spec => QuietSyncPublishesTree
<1> SUFFICES ASSUME NEW s \in Syncs
             PROVE  Spec => [](Quiet(s) => [](client[s].status = "done" => Publishes(s)))
  BY DEF QuietSyncPublishesTree
<1>1. IInv /\ Quiet(s) => QuietInv(s)
  BY QuietStart
<1>2. IInv /\ QuietInv(s) /\ [Next]_vars => QuietInv(s)'
  BY QuietNext
<1>3. IInv /\ QuietInv(s) => (client[s].status = "done" => Publishes(s))
  BY QuietDone
<1> QED BY <1>1, <1>2, <1>3, Invariance, PTL DEF Spec

-----------------------------------------------------------------------------
(* Syncs advance.                                                          *)

\* Request m is of an earlier file or attempt than c is at.
Before(m, c) == m.file < c.file \/ (m.file = c.file /\ m.attempt < c.attempt)

\* A request on its way is an earlier one of its client, or the one it waits for
\* and has no answer to.
RequestsBehind ==
    \A m \in inflight :
        LET c == client[m.sync]
        IN  \/ c.status \in {"done", "failed"}
            \/ Before(m, c)
            \/ /\ m.file = c.file /\ m.attempt = c.attempt
               /\ c.status = "waiting" /\ c.answer = None

\* Only who waits has an answer.
AnswersAwaited == \A s \in Syncs : client[s].answer # None => client[s].status = "waiting"

\* What SyncsAdvance says of a step.
AdvancingStep ==
    \A s \in Syncs : \/ client'[s] = client[s]
                     \/ /\ client[s].status \notin {"done", "failed"}
                        /\ Later(client[s], client'[s])

Advanced == RequestsBehind' /\ AnswersAwaited' /\ AdvancingStep

\* Positions are numbers.
LEMMA Positions ==
    ASSUME TypeOK, RequestsStarted
    PROVE  /\ \A s \in Syncs : /\ client[s] \in Clients
                              /\ client[s].file \in Nat /\ client[s].attempt \in Nat
           /\ \A m \in inflight : /\ m \in Requests /\ m.sync \in Syncs
                                /\ m.file \in Nat /\ m.attempt \in Nat
<1>1. MaxAttempts \in Nat
  BY InvocationAssumption
<1> QED BY <1>1 DEF TypeOK, Clients, Requests, RequestsStarted

\* A client that ends, starts, or leaves an attempt leaves its requests behind.
LEMMA LeavingAdvances ==
    ASSUME TypeOK, RequestsStarted, RequestsBehind, AnswersAwaited, NEW s \in Syncs, NEW row,
           client' = [client EXCEPT ![s] = row], inflight' = inflight,
           client[s].status \notin {"done", "failed"},
           row.answer = None,
           \/ row.status \in {"done", "failed"}
           \/ /\ client[s].status = "idle" /\ row.status = "sending"
              /\ row.file = client[s].file /\ row.attempt = client[s].attempt
           \/ /\ row.status = "sending" /\ row.file \in Nat /\ row.attempt \in Nat
              /\ Before(client[s], row)
    PROVE  Advanced
<1>1. client'[s] = row /\ \A t \in Syncs : t # s => client'[t] = client[t]
  BY DEF TypeOK
<1>2. AdvancingStep
  <2>1. Later(client[s], row)
    BY Positions DEF Later, Before
  <2> QED BY <1>1, <2>1 DEF AdvancingStep
<1>3. AnswersAwaited'
  BY <1>1 DEF AnswersAwaited
<1>4. ASSUME NEW m \in inflight, m.sync = s
      PROVE  row.status \in {"done", "failed"} \/ Before(m, row)
  <2>1. client[s].status # "idle"
    BY <1>4 DEF RequestsStarted, Started
  <2> QED BY <1>4, <2>1, Positions DEF RequestsBehind, Before
<1>5. RequestsBehind'
  BY <1>1, <1>4, Positions DEF RequestsBehind, Before
<1> QED BY <1>2, <1>3, <1>5 DEF Advanced

\* What is sent is ahead of all that was sent before, and has no answer.
LEMMA PutAdvances ==
    ASSUME TypeOK, RequestsStarted, RequestsBehind, AnswersAwaited, NEW s \in Syncs, Put(s)
    PROVE  Advanced
<1>1. PICK row : row = [client[s] EXCEPT !.status = "waiting"]
  OBVIOUS
<1>2. /\ row.status = "waiting" /\ row.file = client[s].file
      /\ row.attempt = client[s].attempt /\ row.answer = client[s].answer
  BY <1>1, Positions DEF Clients
<1>3. client' = [client EXCEPT ![s] = row] /\ client[s].status = "sending"
  BY <1>1 DEF Put, TypeOK
<1>4. client'[s] = row /\ \A t \in Syncs : t # s => client'[t] = client[t]
  BY <1>3 DEF TypeOK
<1>5. client[s].answer = None
  BY <1>3 DEF AnswersAwaited
<1>6. AdvancingStep
  <2>1. Later(client[s], row)
    BY <1>2, <1>3 DEF Later
  <2> QED BY <1>3, <1>4, <2>1 DEF AdvancingStep
<1>7. AnswersAwaited'
  BY <1>2, <1>4, <1>5 DEF AnswersAwaited
<1>8. RequestsBehind'
  <2>1. PICK n : n = [sync |-> s, file |-> client[s].file, attempt |-> client[s].attempt]
    OBVIOUS
  <2>2. n.sync = s /\ n.file = row.file /\ n.attempt = row.attempt
    BY <1>2, <2>1
  <2>3. inflight' = inflight \cup {n}
    BY <2>1 DEF Put
  <2>4. ASSUME NEW m \in inflight, m.sync = s PROVE Before(m, row)
    BY <1>2, <1>3, <2>4 DEF RequestsBehind, Before
  <2> QED BY <1>2, <1>4, <1>5, <2>2, <2>3, <2>4, Positions DEF RequestsBehind, Before
<1> QED BY <1>6, <1>7, <1>8 DEF Advanced

\* The one answer to a request is the first its client hears in that attempt.
LEMMA RequestAdvances ==
    ASSUME TypeOK, RequestsStarted, RequestsBehind, AnswersAwaited, NEW m \in inflight,
           inflight' = inflight \ {m},
           \/ client' = client
           \/ \E answer \in {"changed", "unchanged", "refused"} : Reply(m, answer)
    PROVE  Advanced
<1>1. CASE client' = client
  BY <1>1 DEF Advanced, AdvancingStep, RequestsBehind, AnswersAwaited
<1>2. ASSUME NEW answer \in {"changed", "unchanged", "refused"}, Reply(m, answer),
             client' # client
      PROVE  Advanced
  <2>1. PICK row : row = [client[m.sync] EXCEPT !.answer = answer]
    OBVIOUS
  <2>2. /\ row.status = client[m.sync].status /\ row.file = client[m.sync].file
        /\ row.attempt = client[m.sync].attempt /\ row.answer = answer
    BY <2>1, Positions DEF Clients
  <2>3. /\ client' = [client EXCEPT ![m.sync] = row]
        /\ client[m.sync].status = "waiting"
        /\ client[m.sync].file = m.file /\ client[m.sync].attempt = m.attempt
    BY <1>2, <2>1, Positions DEF Reply, TypeOK
  <2>4. client'[m.sync] = row /\ \A t \in Syncs : t # m.sync => client'[t] = client[t]
    BY <2>3, Positions DEF TypeOK
  <2>5. client[m.sync].answer = None
    BY <2>3, Positions DEF RequestsBehind, Before
  <2>6. answer # None
    BY NoneAssumption
  <2>7. AdvancingStep
    <3>1. Later(client[m.sync], row)
      BY <2>2, <2>3, <2>5, <2>6 DEF Later
    <3> QED BY <2>3, <2>4, <3>1 DEF AdvancingStep
  <2>8. AnswersAwaited'
    BY <2>2, <2>3, <2>4 DEF AnswersAwaited
  <2>9. ASSUME NEW n \in inflight \ {m}, n.sync = m.sync PROVE Before(n, row)
    <3>1. n.file # m.file \/ n.attempt # m.attempt
      BY <2>9, Positions DEF Requests
    <3> QED BY <2>2, <2>3, <2>9, <3>1 DEF RequestsBehind, Before
  <2>10. RequestsBehind'
    BY <2>4, <2>9, Positions DEF RequestsBehind, Before
  <2> QED BY <2>7, <2>8, <2>10 DEF Advanced
<1> QED BY <1>1, <1>2

\* Every step advances the clients it changes.
LEMMA NextAdvances ==
    TypeOK /\ RequestsStarted /\ RequestsBehind /\ AnswersAwaited /\ Next => Advanced
<1> SUFFICES ASSUME TypeOK, RequestsStarted, RequestsBehind, AnswersAwaited, Next
             PROVE  Advanced
  OBVIOUS
<1>1. ASSUME NEW s \in Syncs, Start(s) \/ Receive(s) \/ GiveUp(s) \/ Abandon(s)
      PROVE  Advanced
  <2>1. PICK c \in Clients : c = client[s]
    BY DEF TypeOK
  <2>2. c.file \in Nat /\ c.attempt \in Nat \ {0}
    BY InvocationAssumption DEF Clients
  <2>3. c.status \notin {"done", "failed"} /\ inflight' = inflight
    BY <1>1, <2>1 DEF Start, Receive, GiveUp, Abandon
  <2>4. CASE Start(s)
    <3>1. PICK row : row = [c EXCEPT !.status = "sending"]
      OBVIOUS
    <3>2. /\ row.status = "sending" /\ row.file = c.file /\ row.attempt = c.attempt
          /\ row.answer = c.answer
      BY <3>1 DEF Clients
    <3>3. client' = [client EXCEPT ![s] = row] /\ c.status = "idle" /\ c.answer = None
      BY <2>1, <2>4, <3>1 DEF Start, TypeOK, AnswersAwaited
    <3> QED BY <2>1, <2>3, <3>2, <3>3, LeavingAdvances
  <2>5. CASE Receive(s)
    <3>1. CASE ~Accepted(c.answer)
      <4>1. PICK row : row = [c EXCEPT !.status = "failed", !.answer = None]
        OBVIOUS
      <4>2. row.status = "failed" /\ row.answer = None
        BY <4>1 DEF Clients
      <4>3. client' = [client EXCEPT ![s] = row]
        BY <2>1, <2>5, <3>1, <4>1 DEF Receive, TypeOK
      <4> QED BY <2>1, <2>3, <4>2, <4>3, LeavingAdvances
    <3>2. CASE Accepted(c.answer)
      <4>1. PICK status, file, changed :
               /\ status = IF c.file = Len(Files(s)) THEN "done" ELSE "sending"
               /\ file = IF c.file = Len(Files(s)) THEN c.file ELSE c.file + 1
               /\ changed = c.changed + Counted(c.answer)
        OBVIOUS
      <4>2. PICK row : row = [c EXCEPT !.status = status, !.file = file, !.attempt = 1,
                                       !.changed = changed, !.answer = None]
        OBVIOUS
      <4>3. row.status = status /\ row.file = file /\ row.attempt = 1 /\ row.answer = None
        BY <4>2 DEF Clients
      <4>4. client' = [client EXCEPT ![s] = row]
        BY <2>1, <2>5, <3>2, <4>1, <4>2 DEF Receive, TypeOK
      <4>5. \/ row.status = "done"
            \/ /\ row.status = "sending" /\ row.file \in Nat /\ row.attempt \in Nat
               /\ Before(c, row)
        BY <2>2, <4>1, <4>3 DEF Before
      <4>6. row.answer = None
        BY <4>3
      <4> QED BY <2>1, <2>3, <4>4, <4>5, <4>6, LeavingAdvances
    <3> QED BY <3>1, <3>2
  <2>6. CASE GiveUp(s)
    <3>1. PICK row : row = Retry(c)
      OBVIOUS
    <3>2. client' = [client EXCEPT ![s] = row]
      BY <2>1, <2>6, <3>1 DEF GiveUp, TypeOK
    <3>3. CASE c.attempt < MaxAttempts
      <4>1. PICK attempt : attempt = c.attempt + 1
        OBVIOUS
      <4>2. row = [c EXCEPT !.status = "sending", !.answer = None, !.attempt = attempt]
        BY <3>1, <3>3, <4>1 DEF Retry
      <4>3. /\ row.status = "sending" /\ row.file = c.file /\ row.attempt = attempt
            /\ row.answer = None
        BY <4>2 DEF Clients
      <4>4. Before(c, row) /\ attempt \in Nat
        BY <2>2, <4>1, <4>3 DEF Before
      <4> QED BY <2>1, <2>2, <2>3, <3>2, <4>3, <4>4, LeavingAdvances
    <3>4. CASE ~(c.attempt < MaxAttempts)
      <4>1. row.status = "failed" /\ row.answer = None
        BY <3>1, <3>4 DEF Retry, Clients
      <4> QED BY <2>1, <2>3, <3>2, <4>1, LeavingAdvances
    <3> QED BY <3>3, <3>4
  <2>7. CASE Abandon(s)
    <3>1. PICK row : row = [c EXCEPT !.status = "failed", !.answer = None]
      OBVIOUS
    <3>2. row.status = "failed" /\ row.answer = None
      BY <3>1 DEF Clients
    <3>3. client' = [client EXCEPT ![s] = row]
      BY <2>1, <2>7, <3>1 DEF Abandon, TypeOK
    <3> QED BY <2>1, <2>3, <3>2, <3>3, LeavingAdvances
  <2> QED BY <1>1, <2>4, <2>5, <2>6, <2>7
<1>2. ASSUME NEW s \in Syncs, Put(s) PROVE Advanced
  BY <1>2, PutAdvances
<1>3. ASSUME NEW m \in inflight,
             ApplyChanged(m) \/ ApplyUnchanged(m) \/ Refuse(m) \/ Lose(m)
      PROVE  Advanced
  BY <1>3, RequestAdvances DEF ApplyChanged, ApplyUnchanged, Refuse, Lose
<1> QED BY <1>1, <1>2, <1>3 DEF Next

\* Whatever is lost, repeated or late, a sync goes from file to file and attempt to
\* attempt, and hears one answer in each: its steps are bounded by its files.
THEOREM SyncsOnlyAdvance == Spec => SyncsAdvance
<1> DEFINE Inv == RequestsBehind /\ AnswersAwaited
<1>1. Init => Inv
  BY DEF Init, RequestsBehind, AnswersAwaited
<1>2. IInv => TypeOK /\ RequestsStarted
  BY DEF IInv
<1>3. TypeOK /\ RequestsStarted /\ Inv /\ [Next]_vars => Inv' /\ [AdvancingStep]_vars
  <2>1. Inv /\ UNCHANGED vars => Inv'
    BY DEF vars, RequestsBehind, AnswersAwaited
  <2> QED BY <2>1, NextAdvances DEF Advanced
<1> HIDE DEF Inv
<1> QED BY <1>1, <1>2, <1>3, Invariance, PTL DEF Spec, SyncsAdvance, AdvancingStep

-----------------------------------------------------------------------------
(* The store behind the syncs.                                             *)

\* An operation of the store, or none, is what a step is to it.
LEMMA StoreStep == IInv /\ [Next]_vars => [Proved!Next]_(Proved!vars)
<1> SUFFICES ASSUME IInv, [Next]_vars, Proved!vars' # Proved!vars
             PROVE  Proved!Next
  OBVIOUS
<1>1. ~UNCHANGED store /\ Next
  BY DEF vars, store, Proved!vars
<1>2. PICK m \in inflight : ApplyChanged(m) \/ ApplyUnchanged(m)
  <2>1. \A s \in Syncs : ~ClientStep(s)
    BY <1>1 DEF ClientStep
  <2>2. PICK m \in inflight : ApplyChanged(m) \/ ApplyUnchanged(m) \/ Refuse(m) \/ Lose(m)
    BY <1>1, <2>1, ClientSteps DEF Next
  <2>3. ~Drops(m)
    BY <1>1 DEF Drops
  <2> QED BY <2>2, <2>3, RequestSteps
<1>3. /\ m.sync \in Syncs /\ m.file \in DOMAIN Files(m.sync)
      /\ Draft(m) \in Proved!SourceDrafts
  BY FileFacts DEF IInv, RequestsStarted, Draft
<1>4. CASE ApplyUnchanged(m)
  <2>1. Proved!UpsertUnchangedSource(Draft(m))
    BY <1>4, SameImporting DEF ApplyUnchanged
  <2> QED BY <1>3, <2>1 DEF Proved!Next
<1>5. CASE ApplyChanged(m)
  <2>1. Proved!UpsertChangedSource(Draft(m), FreshRevision)
    BY <1>5, SameImporting DEF ApplyChanged
  <2>2. FreshRevision \in 1 .. MaxRevisions
    BY <2>1 DEF Proved!UpsertChangedSource
  <2> QED BY <1>3, <2>1, <2>2 DEF Proved!Next
<1> QED BY <1>2, <1>4, <1>5

\* The theorems about the store hold behind the syncs.
LEMMA ProvedIsDriven == Spec => Proved!Spec
<1>1. Init => Proved!Init
  BY SameQueries DEF Init
<1> QED BY <1>1, StoreStep, Invariance, PTL DEF Spec, Proved!Spec

\* Whatever is delayed, lost or repeated: the revisions of a document in a language
\* are numbered without gap, the event log alone tells which sync brought each in,
\* and search and lookup serve the same one (handler of PUT /v1/source-documents).
THEOREM HistoryBehindSyncs ==
    Spec => [](Proved!GaplessHistory /\ Proved!AuditTrail /\ Proved!SearchAgreesWithGet)
<1>1. Proved!Spec =>
         [](Proved!GaplessHistory /\ Proved!AuditTrail /\ Proved!SearchAgreesWithGet)
  BY StoreAssumption, Proved!GaplessForever, Proved!TrailComplete, Proved!ReadersAgree, PTL
<1> QED BY <1>1, ProvedIsDriven, PTL

\* Clients, network and store together implement the contract of
\* knowledge.SourceRepository (module Commons): a request that takes effect appends
\* one content to one history, or leaves all of them alone.
THEOREM ContractBehindSyncs == Spec => Proved!RefinesCommons
<1>1. Proved!Spec => Proved!RefinesCommons
  BY StoreAssumption, Proved!ImplementsContract
<1> QED BY <1>1, ProvedIsDriven, PTL

=============================================================================
