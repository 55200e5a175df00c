------------------------------ MODULE Process ------------------------------
(***************************************************************************)
(* The life of the processes that share one database: run() of             *)
(* cmd/knowledge-commons/main.go, Open, Migrate and Close of both stores,  *)
(* and Shutdown of internal/httpapi.                                       *)
(*                                                                         *)
(* A process opens its store, applies the migrations it knows, listens,    *)
(* serves, and is told to stop, fails or is killed; it may be started      *)
(* again, in another version.  A migration and its row of                  *)
(* schema_migrations are one transaction.  With "postgres" all migrations  *)
(* run under an advisory lock of the session, which outlives a killed      *)
(* process until the server notices; with "sqlite" there is nothing but    *)
(* SQLite's one writer.                                                    *)
(*                                                                         *)
(* A request matters here for two things: its handler runs, and it may     *)
(* hold a connection of the pool.                                          *)
(***************************************************************************)
EXTENDS Naturals, FiniteSets

CONSTANTS
    Processes,
    Requests,
    Known,        \* process -> number of migrations its binary embeds
    Connections,  \* size of the pool
    MaxStarts,    \* bound on the starts of a process
    None

Sessions == [process : Processes, start : Nat]

ASSUME ProcessAssumption ==
    /\ Known \in [Processes -> Nat \ {0}]
    /\ Connections \in Nat \ {0} /\ MaxStarts \in Nat
    /\ None \notin Processes \cup Sessions

Migrations == UNION {1 .. Known[p] : p \in Processes}

VARIABLES
    provider,  \* KC_STORAGE_PROVIDER
    process,   \* process -> how far it is
    request,   \* request -> the process that serves it, and how far it is
    borrowed,  \* requests that hold a connection
    schema,    \* migrations whose tables and columns exist
    recorded,  \* schema_migrations
    advisory,  \* the start whose session holds the advisory lock, or None
    writer     \* sqlite: the process that writes, or None

database == <<schema, recorded, advisory, writer>>
vars == <<provider, process, request, borrowed, database>>

Startup == {"opened", "asking", "applying", "recording", "listening"}

\* Handlers may run.
Serving == {"serving", "broken", "draining", "overdue"}

Steps == {"down", "drained"} \cup Serving \cup Startup

Init ==
    /\ provider \in {"sqlite", "postgres"}
    /\ process = [p \in Processes |->
                     [step |-> "down", next |-> 1, starts |-> 0, exit |-> "ok"]]
    /\ request = [r \in Requests |-> [step |-> "unsent", at |-> None]]
    /\ borrowed = {}
    /\ schema = {} /\ recorded = {}
    /\ advisory = None /\ writer = None

ProcessRows ==
    [step : Steps, next : Nat \ {0}, starts : 0 .. MaxStarts,
     exit : {"ok", "failed", "killed"}]

RequestRows ==
    [step : {"unsent", "handling", "answered", "cut"}, at : Processes \cup {None}]

At(p, step) == process[p].step = step

Goto(p, step) == process' = [process EXCEPT ![p].step = step]

\* The session of the current start of p.
Session(p) == [process |-> p, start |-> process[p].starts]

\* Requests whose handler is running at p.
Active(p) == {r \in Requests : request[r].at = p /\ request[r].step = "handling"}

WriterWithout(p) == IF writer = p THEN None ELSE writer

\* p is gone, with its handlers and its open transaction; a session of
\* PostgreSQL is not, yet.
Ends(p, exit) ==
    /\ process' = [process EXCEPT ![p] = [@ EXCEPT !.step = "down", !.exit = exit]]
    /\ request' = [r \in Requests |->
                      IF r \in Active(p) THEN [request[r] EXCEPT !.step = "cut"]
                      ELSE request[r]]
    /\ borrowed' = borrowed \ {r \in Requests : request[r].at = p}
    /\ writer' = WriterWithout(p)
    /\ UNCHANGED <<provider, schema, recorded, advisory>>

-----------------------------------------------------------------------------
(* Migrations.                                                             *)

\* Load, Open and its Ping have succeeded.
Start(p) ==
    /\ At(p, "down")
    /\ process[p].starts < MaxStarts
    /\ process' = [process EXCEPT ![p] =
                      [@ EXCEPT !.step = "opened", !.next = 1, !.starts = process[p].starts + 1]]
    /\ UNCHANGED <<provider, request, borrowed, database>>

\* Seeded fault: nothing keeps two processes from migrating at once.
AdvisoryFree_Always == TRUE

AdvisoryFree == provider = "postgres" => advisory = None

\* pg_advisory_lock, and CREATE TABLE IF NOT EXISTS schema_migrations.
Prepare(p) ==
    /\ At(p, "opened")
    /\ AdvisoryFree
    /\ advisory' = IF provider = "postgres" THEN Session(p) ELSE None
    /\ Goto(p, "asking")
    /\ UNCHANGED <<provider, request, borrowed, schema, recorded, writer>>

\* Seeded fault: the last migration is left out.
Pending_NotLast(p) == process[p].next < Known[p]

\* Of the embedded files, in the order of their names, some are left.
Pending(p) == process[p].next <= Known[p]

SkipApplied(p) ==
    /\ At(p, "asking")
    /\ Pending(p)
    /\ process[p].next \in recorded
    /\ process' = [process EXCEPT ![p].next = @ + 1]
    /\ UNCHANGED <<provider, request, borrowed, database>>

FindMissing(p) ==
    /\ At(p, "asking")
    /\ Pending(p)
    /\ process[p].next \notin recorded
    /\ Goto(p, "applying")
    /\ UNCHANGED <<provider, request, borrowed, database>>

\* Seeded fault: the statements of a migration commit one by one.
Executed_Autocommit(p) == schema' = schema \cup {process[p].next}

\* Inside the transaction: nobody else sees it.
Executed(p) == UNCHANGED schema

\* The statements of the migration; none of them bears repeating.  SQLite has
\* one writer, and another waits for it.
Execute(p) ==
    /\ At(p, "applying")
    /\ process[p].next \notin schema
    /\ writer = None
    /\ writer' = IF provider = "sqlite" THEN p ELSE None
    /\ Executed(p)
    /\ Goto(p, "recording")
    /\ UNCHANGED <<provider, request, borrowed, recorded, advisory>>

\* The table or column is there already: the process gives up.
ExecuteFails(p) ==
    /\ At(p, "applying")
    /\ process[p].next \in schema
    /\ writer = None
    /\ Ends(p, "failed")

Committed(p) ==
    /\ schema' = schema \cup {process[p].next}
    /\ recorded' = recorded \cup {process[p].next}
    /\ writer' = None
    /\ UNCHANGED <<provider, advisory>>

\* The row of schema_migrations, and COMMIT.
Commit(p) ==
    /\ At(p, "recording")
    /\ Committed(p)
    /\ process' = [process EXCEPT ![p] =
                      [@ EXCEPT !.step = "asking", !.next = process[p].next + 1]]
    /\ UNCHANGED <<request, borrowed>>

\* The answer to COMMIT is lost.
CommitUnheard(p) ==
    /\ At(p, "recording")
    /\ Committed(p)
    /\ process' = [process EXCEPT ![p] = [@ EXCEPT !.step = "down", !.exit = "failed"]]
    /\ UNCHANGED <<request, borrowed>>

\* Seeded fault: the lock stays with the session, whose connection goes back to
\* the pool of a process that serves.
Unlocked_Never == advisory

\* pg_advisory_unlock, deferred.
Unlocked == None

\* The unlock, and Release.
FinishMigrating(p) ==
    /\ At(p, "asking")
    /\ ~Pending(p)
    /\ advisory' = Unlocked
    /\ Goto(p, "listening")
    /\ UNCHANGED <<provider, request, borrowed, schema, recorded, writer>>

\* Any other error, the five seconds a writer waits for another one, or a
\* signal, which cancels the context of Open and Migrate.
StartupFails(p) ==
    /\ process[p].step \in Startup
    /\ Ends(p, "failed")

\* Seeded fault: the lock of a killed process stays.
SessionEnds_Never == FALSE

\* The server notices that the client of a session is gone.
SessionEnds ==
    /\ advisory # None
    /\ LET p == advisory.process IN At(p, "down") \/ Session(p) # advisory
    /\ advisory' = None
    /\ UNCHANGED <<provider, process, request, borrowed, schema, recorded, writer>>

-----------------------------------------------------------------------------
(* Service.                                                                *)

\* ListenAndServe; when the address is taken, StartupFails.
Listen(p) ==
    /\ At(p, "listening")
    /\ Goto(p, "serving")
    /\ UNCHANGED <<provider, request, borrowed, database>>

\* ListenAndServe returns an error, and run returns it: nobody waits for the
\* handlers.  The connections that the server has accepted stay, and may bring
\* more requests until the process is gone.
ListenerFails(p) ==
    /\ At(p, "serving")
    /\ Goto(p, "broken")
    /\ UNCHANGED <<provider, request, borrowed, database>>

Arrive(p, r) ==
    /\ process[p].step \in {"serving", "broken"}
    /\ request[r].step = "unsent"
    /\ request' = [request EXCEPT ![r] = [step |-> "handling", at |-> p]]
    /\ UNCHANGED <<provider, process, borrowed, database>>

\* The pool lends a connection until it is closed, which a broken process does
\* at once.
Borrow(r) ==
    /\ request[r].step = "handling"
    /\ r \notin borrowed
    /\ process[request[r].at].step \in {"serving", "draining"}
    /\ Cardinality({s \in borrowed : request[s].at = request[r].at}) < Connections
    /\ borrowed' = borrowed \cup {r}
    /\ UNCHANGED <<provider, process, request, database>>

\* Seeded fault: a handler returns without giving its connection back.
Returned_Never(r) == borrowed

Returned(r) == borrowed \ {r}

\* The handler returns, with or without having asked the store.
Finish(r) ==
    /\ request[r].step = "handling"
    /\ request' = [request EXCEPT ![r].step = "answered"]
    /\ borrowed' = Returned(r)
    /\ UNCHANGED <<provider, process, database>>

\* SIGINT or SIGTERM.  Shutdown stops listening; a second signal does nothing.
Signal(p) ==
    /\ At(p, "serving")
    /\ Goto(p, "draining")
    /\ UNCHANGED <<provider, request, borrowed, database>>

\* Seeded fault: Shutdown waits for the requests that use the store only.
Drained_Borrowers(p) == Active(p) \cap borrowed = {}

Drained(p) == Active(p) = {}

\* Shutdown returns nil.
Drain(p) ==
    /\ At(p, "draining")
    /\ Drained(p)
    /\ Goto(p, "drained")
    /\ UNCHANGED <<provider, request, borrowed, database>>

\* KC_SHUTDOWN_TIMEOUT: Shutdown returns an error.
Deadline(p) ==
    /\ At(p, "draining")
    /\ ~Drained(p)
    /\ Goto(p, "overdue")
    /\ UNCHANGED <<provider, request, borrowed, database>>

\* The deferred store.Close, and exit.  pgxpool waits for the connections it
\* lent, database/sql does not.
Exit(p) ==
    /\ process[p].step \in {"drained", "overdue", "broken"}
    /\ provider = "postgres" => {r \in borrowed : request[r].at = p} = {}
    /\ Ends(p, IF At(p, "drained") THEN "ok" ELSE "failed")

\* SIGKILL, or a crash of the machine.
Crash(p) ==
    /\ ~At(p, "down")
    /\ Ends(p, "killed")

ProcessStep(p) ==
    \/ Prepare(p) \/ SkipApplied(p) \/ FindMissing(p)
    \/ Execute(p) \/ ExecuteFails(p) \/ Commit(p) \/ FinishMigrating(p)
    \/ Listen(p) \/ Drain(p) \/ Deadline(p) \/ Exit(p)

Next ==
    \/ \E p \in Processes : \/ ProcessStep(p) \/ Start(p) \/ CommitUnheard(p)
                            \/ StartupFails(p) \/ ListenerFails(p) \/ Signal(p) \/ Crash(p)
                            \/ \E r \in Requests : Arrive(p, r)
    \/ \E r \in Requests : Borrow(r) \/ Finish(r)
    \/ SessionEnds

Spec == Init /\ [][Next]_vars

\* Processes run and timers expire, the server notices closed connections, and
\* handlers return.  Nobody has to start, stop, break or kill anything.
Fairness ==
    /\ \A p \in Processes : WF_vars(ProcessStep(p))
    /\ \A r \in Requests : WF_vars(Finish(r))
    /\ WF_vars(SessionEnds)

FairSpec == Spec /\ Fairness

-----------------------------------------------------------------------------
(* Properties.                                                             *)

\* Variables hold what they may; the writer is in its transaction, a connection
\* belongs to a running handler, and the advisory lock to a start that happened.
TypeOK ==
    /\ provider \in {"sqlite", "postgres"}
    /\ process \in [Processes -> ProcessRows]
    /\ request \in [Requests -> RequestRows]
    /\ borrowed \subseteq {r \in Requests : request[r].step = "handling"}
    /\ schema \subseteq Migrations /\ recorded \subseteq Migrations
    /\ writer \in Processes \cup {None}
    /\ writer # None => provider = "sqlite" /\ At(writer, "recording")
    /\ advisory \in {None} \cup Sessions
    /\ advisory # None =>
          provider = "postgres" /\ advisory.start \in 1 .. process[advisory.process].starts

\* schema_migrations never lies: after any crash, lost answer, conflict or
\* restart, by any number of processes of any versions, the recorded migrations
\* are a prefix of the embedded ones, and exactly those are in force.  A process
\* asks for a row, applies and records in different steps, so that another one
\* acts on an answer that is no longer true.
RecordIsTruthful ==
    /\ schema = recorded
    /\ \A m \in recorded : 1 .. m \subseteq recorded

\* No request reaches a database that lacks a migration its process knows.
ServesMigratedOnly ==
    \A p \in Processes :
        process[p].step \in Serving \cup {"drained"} => 1 .. Known[p] \subseteq schema

\* The advisory lock does what it is for: what a process of PostgreSQL was told
\* about a migration still holds when it applies it, so simultaneous starts wait
\* for each other and never fail on each other's tables.  It holds after crashes
\* too, because the lock belongs to the session and not to the process.
PostgresStartsDoNotCollide ==
    provider = "postgres" =>
        /\ \A p \in Processes :
              process[p].step \in {"applying", "recording"} => process[p].next \notin schema
        /\ \A p, q \in Processes :
              {process[p].step, process[q].step} \subseteq {"asking", "applying", "recording"}
              => p = q

\* Nobody waits for one who does not go on, after whatever crashes and restarts.
\* A start waits for the advisory lock, and its holder migrates, with no writer in
\* its way, or is gone, which the server notices; an exit waits for connections,
\* and those are with handlers that run, at a process that has not drained.
HoldersGoOn ==
    /\ advisory # None =>
          LET p == advisory.process
          IN  \/ At(p, "down") \/ Session(p) # advisory
              \/ writer = None /\ process[p].step \in {"asking", "applying", "recording"}
    /\ \A r \in borrowed :
          /\ request[r].step = "handling"
          /\ process[request[r].at].step \in Serving

\* A process that exits with status 0 has answered every request it accepted,
\* whatever it was waiting for.  A request is cut short by a kill, after the
\* shutdown deadline, or when the listener has failed, and then the status tells;
\* with PostgreSQL the last two never cut one that holds a connection, so none in
\* the middle of a transaction.
NoRequestCutShort ==
    [][\A r \in Requests :
          (request[r].step = "handling" /\ request'[r].step = "cut")
          => LET p == request[r].at
             IN  \/ process'[p].exit = "killed"
                 \/ /\ process[p].step \in {"overdue", "broken"}
                    /\ process'[p].exit = "failed"
                    /\ provider = "postgres" => r \notin borrowed]_vars

\* A started process serves or ends: no lock that another process, alive or
\* killed in the middle of its migrations, has left makes it wait for ever.
StartEnds ==
    \A p \in Processes : At(p, "opened") ~> process[p].step \in {"serving", "down"}

\* A process that is stopped, or whose listener has failed, ends, also when the
\* pool waits for the connections that handlers hold.
ShutdownEnds ==
    \A p \in Processes : process[p].step \in {"draining", "broken"} ~> At(p, "down")
=============================================================================
