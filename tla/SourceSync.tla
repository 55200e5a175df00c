----------------------------- MODULE SourceSync -----------------------------
(***************************************************************************)
(* "knowledge-commons source sync", cmd/knowledge-commons/source_sync.go,  *)
(* over the SQLite store: clients that import the Markdown files of a      *)
(* working tree, one PUT after the other, each tried several times.        *)
(*                                                                         *)
(* A request the client has given up on (timeout, broken connection, 502,  *)
(* 503, 504 from whatever stands between) may still be on its way or wait  *)
(* for the one connection of the store.  It takes effect later, at most    *)
(* once, or never.  The answer to a request that took effect may be lost.  *)
(* A client may end at any point (killed, unreadable file or answer).      *)
(*                                                                         *)
(* The store is SqliteStore, without proposals: an import is its           *)
(* UpsertSource, whole.                                                    *)
(***************************************************************************)
EXTENDS Naturals, Sequences, FiniteSets

CONSTANTS
    Syncs,         \* invocations of the client
    Invocation,    \* their flags, and the files they find, in the order sent
    Subjects,      \* who imports
    Bodies,        \* contents of files
    MaxAttempts,   \* attempts per file (5 in putSource)
    MaxRevisions,  \* bound on the revisions the store creates
    None

\* A file: its language, its normalised path below the language's root without
\* ".md", its path in the repository and its content.  A revision of a
\* repository determines its files.
ASSUME InvocationAssumption ==
    /\ IsFiniteSet(Syncs)
    /\ MaxAttempts \in Nat \ {0} /\ MaxRevisions \in Nat
    /\ \A s \in Syncs :
          /\ Len(Invocation[s].files) \in Nat \ {0}
          /\ DOMAIN Invocation[s].files = 1 .. Len(Invocation[s].files)
          /\ \A n \in DOMAIN Invocation[s].files : Invocation[s].files[n].body \in Bodies
          /\ Invocation[s].subject \in Subjects
          /\ Invocation[s].visibility \in {"shared", "restricted"}
    /\ \A s, t \in Syncs :
          (/\ Invocation[s].source = Invocation[t].source
           /\ Invocation[s].revision = Invocation[t].revision)
          => Invocation[s].files = Invocation[t].files

VARIABLES
    client,    \* sync -> how far it is
    inflight,  \* requests that may still take effect
    pages, revisions, proposals, indexed, events  \* the store

vars == <<client, inflight, pages, revisions, proposals, indexed, events>>
store == <<pages, revisions, proposals, indexed, events>>

Files(s) == Invocation[s].files

\* The knowledge key of a file, below the prefix: "_index" names its directory,
\* and that of the root is "index".
DocumentSlug(relative) ==
    IF relative = <<"_index">> THEN <<"index">>
    ELSE IF relative[Len(relative)] = "_index" THEN SubSeq(relative, 1, Len(relative) - 1)
    ELSE relative

\* Source revision and path, from which the source URL is made.
ProvenanceOf(s, file) ==
    [source |-> Invocation[s].source, revision |-> Invocation[s].revision,
     path |-> file.path]

AllFiles == UNION {{<<s, Files(s)[n]>> : n \in DOMAIN Files(s)} : s \in Syncs}

Documents == {DocumentSlug(f[2].relative) : f \in AllFiles}

Languages == {"en"} \cup {f[2].language : f \in AllFiles}

Sources == {Invocation[s].source : s \in Syncs}

Commits == {ProvenanceOf(f[1], f[2]) : f \in AllFiles}

\* NULL is no identifier, no person, no source, no provenance, no language and no
\* answer.
ASSUME NoneAssumption ==
    /\ None \notin {"changed", "unchanged", "refused"}
    /\ None \notin 1 .. MaxRevisions /\ None \notin Subjects
    /\ None \notin Sources /\ None \notin Commits /\ None \notin Languages

Store == INSTANCE SqliteStore WITH
    Keys        <- Documents,
    RevisionIds <- 1 .. MaxRevisions,
    ProposalIds <- {}

\* The payload of a PUT.
SourceDraft(s, file) ==
    [key |-> DocumentSlug(file.relative), canonical |-> "en",
     language |-> file.language, body |-> file.body,
     visibility |-> Invocation[s].visibility, source |-> Invocation[s].source,
     commit |-> ProvenanceOf(s, file), importer |-> Invocation[s].subject]

Requests == [sync : Syncs, file : Nat \ {0}, attempt : 1 .. MaxAttempts]

Clients ==
    [status : {"idle", "sending", "waiting", "done", "failed"},
     file : Nat \ {0}, attempt : 1 .. MaxAttempts, changed : Nat,
     answer : {None, "changed", "unchanged", "refused"}]

Init ==
    /\ client = [s \in Syncs |-> [status |-> "idle", file |-> 1, attempt |-> 1,
                                  changed |-> 0, answer |-> None]]
    /\ inflight = {}
    /\ Store!Init

-----------------------------------------------------------------------------
(* The client.                                                             *)

Start(s) ==
    /\ client[s].status = "idle"
    /\ client' = [client EXCEPT ![s].status = "sending"]
    /\ UNCHANGED <<inflight, store>>

Put(s) ==
    /\ client[s].status = "sending"
    /\ client' = [client EXCEPT ![s].status = "waiting"]
    /\ inflight' = inflight \cup
          {[sync |-> s, file |-> client[s].file, attempt |-> client[s].attempt]}
    /\ UNCHANGED store

\* Seeded fault: the attempts are not counted.
Retry_Uncounted(c) == [c EXCEPT !.status = "sending", !.answer = None]

\* Seeded fault: one attempt too many.
Retry_OneMore(c) ==
    IF c.attempt <= MaxAttempts
    THEN [c EXCEPT !.status = "sending", !.answer = None, !.attempt = @ + 1]
    ELSE [c EXCEPT !.status = "failed", !.answer = None]

Retry(c) ==
    IF c.attempt < MaxAttempts
    THEN [c EXCEPT !.status = "sending", !.answer = None, !.attempt = @ + 1]
    ELSE [c EXCEPT !.status = "failed", !.answer = None]

\* No answer arrives, or one that is worth another attempt.
GiveUp(s) ==
    /\ client[s].status = "waiting"
    /\ client' = [client EXCEPT ![s] = Retry(@)]
    /\ UNCHANGED <<inflight, store>>

\* Seeded fault: every answer counts as a change.
Counted_Always(answer) == 1

Counted(answer) == IF answer = "changed" THEN 1 ELSE 0

\* Seeded fault: a refused document is passed over.
Accepted_Any(answer) == TRUE

Accepted(answer) == answer # "refused"

\* The first refused document ends the sync.
Receive(s) ==
    LET c == client[s]
    IN  /\ c.status = "waiting"
        /\ c.answer # None
        /\ client' = [client EXCEPT ![s] =
              IF ~Accepted(c.answer) THEN [c EXCEPT !.status = "failed", !.answer = None]
              ELSE [c EXCEPT !.status = IF c.file = Len(Files(s)) THEN "done" ELSE "sending",
                             !.file = IF c.file = Len(Files(s)) THEN @ ELSE @ + 1,
                             !.attempt = 1,
                             !.changed = @ + Counted(c.answer),
                             !.answer = None]]
        /\ UNCHANGED <<inflight, store>>

Abandon(s) ==
    /\ client[s].status \in {"sending", "waiting"}
    /\ client' = [client EXCEPT ![s].status = "failed", ![s].answer = None]
    /\ UNCHANGED <<inflight, store>>

-----------------------------------------------------------------------------
(* The network and the server.                                             *)

\* The answer reaches the client if it still waits for this very request.
Reply(m, answer) ==
    LET c == client[m.sync]
    IN  client' = IF c.status = "waiting" /\ c.file = m.file /\ c.attempt = m.attempt
                  THEN [client EXCEPT ![m.sync].answer = answer]
                  ELSE client

Draft(m) == SourceDraft(m.sync, Files(m.sync)[m.file])

\* Identifiers are random and only compared, so any unused one will do.
FreshRevision == Cardinality(DOMAIN revisions) + 1

ApplyChanged(m) ==
    /\ m \in inflight
    /\ inflight' = inflight \ {m}
    /\ Store!UpsertChangedSource(Draft(m), FreshRevision)
    /\ Reply(m, "changed")

ApplyUnchanged(m) ==
    /\ m \in inflight
    /\ inflight' = inflight \ {m}
    /\ Store!UpsertUnchangedSource(Draft(m))
    /\ Reply(m, "unchanged")

\* Whatever the reason, a status that is neither 200 nor worth a retry.
Refuse(m) ==
    /\ m \in inflight
    /\ inflight' = inflight \ {m}
    /\ Reply(m, "refused")
    /\ UNCHANGED store

Lose(m) ==
    /\ m \in inflight
    /\ inflight' = inflight \ {m}
    /\ UNCHANGED <<client, store>>

Next ==
    \/ \E s \in Syncs : Start(s) \/ Put(s) \/ Receive(s) \/ GiveUp(s) \/ Abandon(s)
    \/ \E m \in inflight : ApplyChanged(m) \/ ApplyUnchanged(m) \/ Refuse(m) \/ Lose(m)

Spec == Init /\ [][Next]_vars

\* A running client keeps going: it sends, and its HTTP client ends every wait
\* after 30 seconds.  Nothing is assumed of the network or the server.
Fairness == \A s \in Syncs : WF_vars(Put(s) \/ Receive(s) \/ GiveUp(s))

FairSpec == Spec /\ Fairness

-----------------------------------------------------------------------------
(* Properties.                                                             *)

\* Clients, requests and the store hold what their declarations say; a client
\* never makes an attempt beyond the last.
TypeOK ==
    /\ client \in [Syncs -> Clients]
    /\ \A s \in Syncs : client[s].file \in DOMAIN Files(s)
    /\ inflight \subseteq Requests
    /\ Store!TypeOK

Started(s) == client[s].status # "idle"

Revisions(key, language) ==
    {i \in DOMAIN revisions : revisions[i].key = key /\ revisions[i].language = language}

\* A citation leads to the text it is shown with: whatever order requests,
\* repeats and imports of other revisions take effect in, each revision ever
\* published has the content that the file at its source path has in the
\* repository at its source revision.
CitationIsTruthful ==
    \A i \in DOMAIN revisions :
        \E f \in AllFiles :
            /\ revisions[i].commit = ProvenanceOf(f[1], f[2])
            /\ revisions[i].body = f[2].body
            /\ revisions[i].language = f[2].language
            /\ revisions[i].key = DocumentSlug(f[2].relative)

\* The languages of a page share its visibility and its source key, and every
\* import of any of them sets both.  However imports are ordered, repeated or
\* delayed, they are those of one import, and of one that a published revision
\* of the page still cites: a page is never shown by one sync's rules under
\* another's name, nor by rules that nothing on the page accounts for.
PageIsOneImport ==
    \A k \in DOMAIN pages :
        \E f \in AllFiles, i \in DOMAIN revisions :
            /\ revisions[i].key = k
            /\ revisions[i].status = "published"
            /\ revisions[i].commit = ProvenanceOf(f[1], f[2])
            /\ pages[k].visibility = Invocation[f[1]].visibility
            /\ pages[k].source = Invocation[f[1]].source

\* The contents that the syncs started so far have for a document.
Offered(key, language) ==
    {f[2].body : f \in {g \in AllFiles : /\ Started(g[1])
                                         /\ DocumentSlug(g[2].relative) = key
                                         /\ g[2].language = language}}

\* Repeating a PUT changes nothing, whether a client repeats it, the network
\* delays it, or another sync carries the same file: a document all syncs agree
\* on is published once.
RepeatsPublishOnce ==
    \A k \in Documents, l \in Languages :
        Cardinality(Offered(k, l)) <= 1 => Cardinality(Revisions(k, l)) <= 1

\* "synced n documents (m changed)" never claims a change that no revision
\* bears out (lost answers may make it claim less).
ReportIsHonest ==
    \A s \in Syncs :
        client[s].changed <=
            Cardinality({i \in DOMAIN revisions : revisions[i].author = Invocation[s].subject})

\* A sync in a quiet world: nothing else runs or can still take effect.
Quiet(s) ==
    /\ client[s].status = "idle"
    /\ inflight = {}
    /\ \A t \in Syncs \ {s} : client[t].status \in {"done", "failed"}

Publishes(s) ==
    \A n \in DOMAIN Files(s) :
        LET latest == Store!Latest(DocumentSlug(Files(s)[n].relative), Files(s)[n].language)
        IN  /\ latest # None
            /\ \E m \in DOMAIN Files(s) :
                  /\ revisions[latest].body = Files(s)[m].body
                  /\ revisions[latest].commit = ProvenanceOf(s, Files(s)[m])
            /\ pages[revisions[latest].key].visibility = Invocation[s].visibility

\* A sync that begins when the others have ended and drained, and that reports
\* success, leaves its tree published: every document has its content and
\* provenance and is shown to whom the sync says, whatever the others published
\* and whatever it had to repeat.
QuietSyncPublishesTree ==
    \A s \in Syncs : [](Quiet(s) => [](client[s].status = "done" => Publishes(s)))

\* d is later than c in the life of a client: at a later file, at a later attempt
\* for it, or, in one attempt, sent and then answered.
Later(c, d) ==
    \/ d.status \in {"done", "failed"}
    \/ d.file > c.file
    \/ d.file = c.file /\ d.attempt > c.attempt
    \/ /\ d.file = c.file /\ d.attempt = c.attempt
       /\ \/ c.status = "idle" /\ d.status = "sending"
          \/ c.status = "sending" /\ d.status = "waiting"
          \/ {c.status, d.status} = {"waiting"} /\ c.answer = None /\ d.answer # None

\* The work of a sync only ever gets less, in any order of answers, losses, repeats
\* and late effects: no step takes a client back to an earlier file or attempt, and
\* none lets it hear a second answer in one attempt.  As files and attempts are
\* bounded (TypeOK), so are its steps.
SyncsAdvance ==
    [][\A s \in Syncs :
          \/ client'[s] = client[s]
          \/ /\ client[s].status \notin {"done", "failed"}
             /\ Later(client[s], client'[s])]_vars

\* Retries are bounded: a sync ends, whatever the network and the server do.
SyncEnds ==
    \A s \in Syncs : Started(s) ~> client[s].status \in {"done", "failed"}

\* README.md: "Idempotent Git/Markdown synchronization".  When a sync of a
\* revision has succeeded, syncs of the same revision publish nothing more.
ResyncPublishesNothing ==
    [][(\E s \in Syncs :
           /\ client[s].status = "done"
           /\ \A t \in Syncs : Invocation[t].revision = Invocation[s].revision)
       => DOMAIN revisions' = DOMAIN revisions]_vars
=============================================================================
