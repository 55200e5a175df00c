------------------------------- MODULE Access -------------------------------
(***************************************************************************)
(* The HTTP API of one instance, internal/httpapi, with the identity       *)
(* resolvers, internal/identity, the validation of internal/knowledge, the *)
(* subject lists of internal/config, and the SQLite store underneath.      *)
(*                                                                         *)
(* A request arrives, its principal is resolved (by a call to another      *)
(* service when the provider is "remote"), and its handler checks the      *)
(* policy, decodes and validates what was sent, calls the store once and   *)
(* answers.  Requests run concurrently; a handler touches shared state in  *)
(* its one call of the store only, so from the principal on it is one      *)
(* action.  What a request asks for is chosen when it is handled.          *)
(*                                                                         *)
(* Keys, languages and the names of people are spelled: a text and how the *)
(* spelling differs from its normal form.  It may have slashes around it   *)
(* and spaces around those, upper-case letters, and something no rule      *)
(* accepts, all at once, or be blank.                                      *)
(***************************************************************************)
EXTENDS Naturals, FiniteSets

CONSTANTS
    Requests,        \* requests sent in the lifetime of the instance
    Keys,            \* texts of knowledge keys
    Languages,       \* texts of languages
    Names,           \* texts of actors and subjects
    SentKeys, SentLanguages, SentNames,  \* the spellings that clients send
    Bodies,          \* contents
    Sources, Commits,
    Identities,      \* [actor, subject] pairs the remote provider may return
    RestrictedList,  \* KC_RESTRICTED_SUBJECTS as written
    IngestList,      \* KC_INGEST_SUBJECTS as written
    None

Traits == {"spaced", "slashed", "capital", "malformed", "blank"}

Spellings(texts) == [text : texts, traits : SUBSET Traits]

\* Any name is a name: only spaces and case matter.
SpelledNames == [text : Names, traits : SUBSET {"spaced", "capital", "blank"}]

\* An instance serves finitely many requests.
ASSUME RequestsAssumption == IsFiniteSet(Requests)

ASSUME SpellingAssumption ==
    /\ RestrictedList \cup IngestList \subseteq SpelledNames
    /\ Identities \subseteq [actor : SpelledNames, subject : SpelledNames]
    /\ SentKeys \subseteq Spellings(Keys)
    /\ SentLanguages \subseteq Spellings(Languages)
    /\ SentNames \subseteq SpelledNames

VARIABLES
    provider,  \* KC_IDENTITY_PROVIDER
    request,   \* request -> how far it is
    answer,    \* the last answer that was sent
    pages, revisions, proposals, indexed, events  \* the store

store == <<pages, revisions, proposals, indexed, events>>
vars == <<provider, request, answer, store>>

Steps == {"idle", "arrived", "resolved", "answered"}

Statuses == {None, 200, 201, 400, 401, 403, 404, 409, 500, 503}

-----------------------------------------------------------------------------
(* Spelling.                                                               *)

Exactly(texts) == [text : texts, traits : {{}}]

Exact(s) == [s EXCEPT !.traits = {}]

Blank(s) == "blank" \in s.traits

Without(s, trait) == [s EXCEPT !.traits = s.traits \ {trait}]

TrimSpace(s) == Without(s, "spaced")

ToLower(s) == Without(s, "capital")

\* Slashes inside spaces are not at the end of the text.
TrimSlashes(s) == IF "spaced" \in s.traits THEN s ELSE Without(s, "slashed")

\* Lower-case letters, digits and punctuation.
ValidKey(s) == s.traits = {}

\* Letters of any case, digits and dashes.
ValidLanguage(s) == s.traits \subseteq {"capital"}

NormalKey(s) == ToLower(TrimSlashes(TrimSpace(s)))

NormalLanguage(s) == ToLower(TrimSpace(s))

\* Seeded fault: the canonical language is not lower-cased, and passes
\* validLanguage as it is.
NormalCanonical_KeepsCase(s) == TrimSpace(s)

NormalCanonical(s) == ToLower(TrimSpace(s))

\* What a lookup asks the store for: case is not folded here.
LookedUp(s) == TrimSpace(s)

\* Who may act, after TrimSpace: case is not folded.
People == [text : Names, traits : SUBSET {"capital"}]

Principals == [actor : People, subject : People]

\* What an import sends of a document, normalised.
Documents == [key : Exactly(Keys), language : Exactly(Languages), body : Bodies]

\* NULL is no identifier, no person, no source, no provenance, no language and no
\* document.
ASSUME NoneAssumption ==
    /\ None \notin 1 .. Cardinality(Requests)
    /\ None \notin Sources /\ None \notin Commits
    /\ None \notin People /\ None \notin Exactly(Languages) /\ None \notin Documents

\* splitList: what a list of subjects grants.
Listed(list) == {ToLower(TrimSpace(s)) : s \in {t \in list : ~Blank(t)}}

Store == INSTANCE SqliteStore WITH
    Keys        <- Exactly(Keys),
    Languages   <- Exactly(Languages),
    Subjects    <- People,
    RevisionIds <- 1 .. Cardinality(Requests),
    ProposalIds <- 1 .. Cardinality(Requests)

Init ==
    /\ provider \in {"disabled", "header", "remote"}
    /\ request = [r \in Requests |-> [step |-> "idle", principal |-> None]]
    /\ answer = [status |-> None, shown |-> {}, imported |-> None]
    /\ Store!Init

\* `shown` are the revisions that the answer carries, `imported` is the document
\* that the request has sent to be imported.
AnswerWith(r, status, shown, imported) ==
    /\ request' = [request EXCEPT ![r] = [step |-> "answered", principal |-> None]]
    /\ answer' = [status |-> status, shown |-> shown, imported |-> imported]

\* writeJSON of something that is no revision, and writeError.
Answer(r, status) == AnswerWith(r, status, {}, None)

Refuse(r, status) == Answer(r, status) /\ UNCHANGED store

-----------------------------------------------------------------------------
(* Identity.                                                               *)

Arrive(r) ==
    /\ request[r].step = "idle"
    /\ request' = [request EXCEPT ![r].step = "arrived"]
    /\ UNCHANGED <<provider, answer, store>>

Resolved(r, actor, subject) ==
    /\ request' = [request EXCEPT ![r].step = "resolved",
                                  ![r].principal = [actor |-> actor, subject |-> subject]]
    /\ UNCHANGED <<answer, store>>

\* DisabledResolver and HeaderResolver answer on the spot; X-KC-Actor says who
\* acts, for itself.
ResolveLocally(r) ==
    /\ request[r].step = "arrived"
    /\ \/ provider = "disabled" /\ Refuse(r, 401)
       \/ /\ provider = "header"
          /\ \E name \in SentNames :
                IF Blank(name)
                THEN Refuse(r, 401)
                ELSE Resolved(r, TrimSpace(name), TrimSpace(name))
    /\ UNCHANGED provider

\* The identity service answers: 401, 403 or 400, another status or something
\* that is no principal, or a principal.
IdentityAnswers(r) ==
    /\ request[r].step = "arrived"
    /\ provider = "remote"
    /\ \/ \E status \in {401, 403, 503} : Refuse(r, status)
       \/ \E identity \in Identities :
             IF Blank(identity.actor) \/ Blank(identity.subject)
             THEN Refuse(r, 503)
             ELSE Resolved(r, TrimSpace(identity.actor), TrimSpace(identity.subject))
    /\ UNCHANGED provider

\* No answer within 5 seconds, or no connection.
IdentityTimesOut(r) ==
    /\ request[r].step = "arrived"
    /\ provider = "remote"
    /\ Refuse(r, 503)
    /\ UNCHANGED provider

-----------------------------------------------------------------------------
(* Handlers, from the principal on.                                        *)

Principal(r) == request[r].principal

\* Seeded fault: the subject, on whose behalf the actor acts, is recorded.
RecordedAs_Subject(principal) == principal.subject

\* ProposedBy, ReviewedBy and ImportedBy.
RecordedAs(principal) == principal.actor

\* Seeded fault: the lists are asked about the actor.
CanReadRestricted_Actor(principal) == principal.actor \in Listed(RestrictedList)

CanReadRestricted(principal) == principal.subject \in Listed(RestrictedList)

\* Seeded fault: whoever may read restricted pages may import.
CanIngest_Reader(principal) == principal.subject \in Listed(RestrictedList)

CanIngest(principal) == principal.subject \in Listed(IngestList)

\* Identifiers are random and only compared, so any unused one will do.
FreshProposal == Cardinality(DOMAIN proposals) + 1

FreshRevision == Cardinality(DOMAIN revisions) + 1

\* GET /v1/principal
ShowPrincipal(r) == Refuse(r, 200)

\* Undecodable or unknown fields, or a required field missing or malformed.
RefuseInvalid(r) == Refuse(r, 400)

\* The transaction or the query fails, and leaves the store alone: the client
\* hung up, the base of a proposal does not exist, or the disk is full.
StoreFails(r) == Refuse(r, 500)

\* POST /v1/proposals
Propose(r, key, canonical, language, base, body) ==
    LET draft == [key |-> NormalKey(key), canonical |-> NormalCanonical(canonical),
                  language |-> NormalLanguage(language), base |-> base, body |-> body,
                  proposer |-> RecordedAs(Principal(r))]
    IN  IF \/ ~ValidKey(draft.key)
           \/ ~ValidLanguage(draft.canonical)
           \/ ~ValidLanguage(draft.language)
        THEN RefuseInvalid(r)
        ELSE Store!CreateProposal(FreshProposal, draft) /\ Answer(r, 201)

\* POST /v1/proposals/{proposalID}/review; who accepts is shown the revision.
Review(r, p, decision) ==
    LET reviewer == RecordedAs(Principal(r))
    IN  IF p \notin DOMAIN proposals THEN Refuse(r, 404)
        ELSE IF \/ ~Store!Reviewable(p, reviewer)
                \/ decision = "accept" /\ ~Store!Publishable(proposals[p].draft)
        THEN Refuse(r, 409)
        ELSE \/ /\ decision = "accept"
                /\ Store!AcceptProposal(p, reviewer, FreshRevision)
                /\ AnswerWith(r, 200, {FreshRevision}, None)
             \/ /\ decision = "reject"
                /\ Store!RejectProposal(p, reviewer)
                /\ Answer(r, 200)

\* GET /v1/pages
GetPage(r, key, language) ==
    LET found == Store!GetPublishedVisible(LookedUp(key), LookedUp(language),
                                           CanReadRestricted(Principal(r)))
    IN  IF Blank(key) \/ Blank(language) THEN RefuseInvalid(r)
        ELSE IF found = None THEN Refuse(r, 404)
        ELSE AnswerWith(r, 200, {found}, None) /\ UNCHANGED store

\* GET /v1/search; without a language, in all of them.  A limit keeps some.
Search(r, language) ==
    LET asked == IF Blank(language) THEN None ELSE LookedUp(language)
    IN  /\ \E hits \in SUBSET Store!SearchVisible(asked, CanReadRestricted(Principal(r))) :
              AnswerWith(r, 200, hits, None)
        /\ UNCHANGED store

\* PUT /v1/source-documents; the policy is asked before the body is read.  The
\* answer carries the current revision, whether this request wrote it or found it.
PutSource(r, key, canonical, language, body, visibility, source, commit) ==
    LET draft == [key |-> NormalKey(key), canonical |-> NormalCanonical(canonical),
                  language |-> NormalLanguage(language), body |-> body,
                  visibility |-> visibility, source |-> source, commit |-> commit,
                  importer |-> RecordedAs(Principal(r))]
        imported == [key |-> draft.key, language |-> draft.language, body |-> body]
    IN  IF ~CanIngest(Principal(r)) THEN Refuse(r, 403)
        ELSE IF \/ ~ValidKey(draft.key)
                \/ ~ValidLanguage(draft.canonical)
                \/ ~ValidLanguage(draft.language)
        THEN RefuseInvalid(r)
        ELSE IF ~Store!OwnsPage(draft) THEN Refuse(r, 409)
        ELSE \/ /\ Store!UpsertUnchangedSource(draft)
                /\ AnswerWith(r, 200, {Store!Latest(draft.key, draft.language)}, imported)
             \/ /\ Store!UpsertChangedSource(draft, FreshRevision)
                /\ AnswerWith(r, 200, {FreshRevision}, imported)

Handle(r) ==
    /\ request[r].step = "resolved"
    /\ UNCHANGED provider
    /\ \/ ShowPrincipal(r)
       \/ RefuseInvalid(r)
       \/ StoreFails(r)
       \/ \E key \in SentKeys, canonical \in SentLanguages, language \in SentLanguages,
             base \in {None} \cup DOMAIN revisions, body \in Bodies :
             Propose(r, key, canonical, language, base, body)
       \/ \E p \in 1 .. Cardinality(Requests), decision \in {"accept", "reject"} :
             Review(r, p, decision)
       \/ \E key \in SentKeys, language \in SentLanguages : GetPage(r, key, language)
       \/ \E language \in SentLanguages : Search(r, language)
       \/ \E key \in SentKeys, canonical \in SentLanguages, language \in SentLanguages,
             body \in Bodies, visibility \in Store!Visibilities,
             source \in Sources, commit \in Commits :
             PutSource(r, key, canonical, language, body, visibility, source, commit)

Next ==
    \E r \in Requests : Arrive(r) \/ ResolveLocally(r) \/ IdentityAnswers(r)
                        \/ IdentityTimesOut(r) \/ Handle(r)

Spec == Init /\ [][Next]_vars

-----------------------------------------------------------------------------
(* Properties.                                                             *)

\* Requests and tables hold what they may; the store has normalised, valid
\* keys, languages and canonical languages only, however a client spelled each of
\* them: its queries and its checks compare texts as they are.
NormalisedTypeOK ==
    /\ provider \in {"disabled", "header", "remote"}
    /\ request \in [Requests -> [step : Steps, principal : Principals \cup {None}]]
    /\ answer \in [status : Statuses, shown : SUBSET DOMAIN revisions,
                   imported : Documents \cup {None}]
    /\ Store!TypeOK

\* r is being answered in this step.
Answers(r) == request[r].step = "resolved" /\ request'[r].step = "answered"

\* Whatever changes the store is one request that was authenticated and is told
\* so: the step that writes an event answers that request 200 or 201 and names its
\* actor, not the subject the actor acts for, and a request that is told
\* anything else has changed nothing.
ChangesAreAccountedFor ==
    [][store' # store =>
          \E r \in Requests :
             /\ Answers(r)
             /\ answer'.status \in {200, 201}
             /\ \A event \in events' \ events : event.actor = request[r].principal.actor
             /\ \A s \in Requests \ {r} : request'[s] = request[s]]_vars

\* What is meant by a list of subjects.
Grants(list, principal) ==
    \E s \in list : /\ ~Blank(s)
                    /\ Exact(s) = principal.subject

\* A revision says what a request has sent to be imported.
Repeats(revision, imported) ==
    /\ imported # None
    /\ revision.key = imported.key
    /\ revision.language = imported.language
    /\ revision.body = imported.body

\* README.md: "restricted results are returned only when the resolved subject
\* is listed in KC_RESTRICTED_SUBJECTS", in whatever language an import has
\* restricted the page, and whether an agent asks for the subject or not.  Any
\* answer counts, those to reviews and imports too; but an answer to an import,
\* whose subject need not be in that list, may repeat the document that the
\* request itself has sent, and shows no other.
RestrictedOnlyToListed ==
    [][\A r \in Requests : Answers(r) =>
          \A i \in answer'.shown :
             \/ pages'[revisions'[i].key].visibility = "shared"
             \/ Grants(RestrictedList, request[r].principal)
             \/ /\ Grants(IngestList, request[r].principal)
                /\ Repeats(revisions'[i], answer'.imported)]_vars

\* A page changes hands, visibility or provenance, and gets an unreviewed
\* revision, only through a subject that may import.
ImportsOnlyByListed ==
    [][(\E i \in DOMAIN revisions' :
          /\ pages'[revisions'[i].key].kind = "source"
          /\ \/ i \notin DOMAIN revisions
             \/ revisions[i].commit # revisions'[i].commit
             \/ pages[revisions[i].key] # pages'[revisions[i].key])
       => \E r \in Requests : Answers(r) /\ Grants(IngestList, request[r].principal)]_vars

-----------------------------------------------------------------------------
(* A statement the repository makes and the code does not keep.            *)

\* README.md, KC_INGEST_SUBJECTS: "Subjects allowed to import source
\* documents".  A subject in that list, spelled as the resolver spells it, is
\* not refused.
ListedSubjectsAreAllowed ==
    [][\A r \in Requests :
          (Answers(r) /\ request[r].principal.subject \in IngestList)
          => answer'.status # 403]_vars
=============================================================================
