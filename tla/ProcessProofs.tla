--------------------------- MODULE ProcessProofs ---------------------------
(***************************************************************************)
(* Theorems about Process, for any number of processes, versions, starts,  *)
(* requests and connections: the table of migrations is truthful, requests *)
(* meet a migrated database, and with PostgreSQL no two processes migrate  *)
(* at once.                                                                *)
(***************************************************************************)
EXTENDS Process, TLAPS

Migrating == {"asking", "applying", "recording"}

Migrated == {"listening", "drained"} \cup Serving

RowsOK == process \in [Processes -> ProcessRows]

RequestsOK ==
    /\ request \in [Requests -> RequestRows]
    /\ borrowed \subseteq {r \in Requests : request[r].step = "handling"}

WriterOK ==
    /\ writer \in Processes \cup {None}
    /\ writer # None => provider = "sqlite" /\ process[writer].step = "recording"

AdvisoryOK ==
    /\ advisory \in {None} \cup Sessions
    /\ advisory # None =>
          provider = "postgres" /\ advisory.start \in 1 .. process[advisory.process].starts

\* The record is a prefix that nothing shortens, and a process has seen or
\* committed what lies behind it.
Progress ==
    /\ RecordIsTruthful
    /\ \A p \in Processes :
          /\ process[p].step # "down" => process[p].starts > 0
          /\ process[p].step = "opened" => process[p].next = 1
          /\ process[p].step \in Migrating => 1 .. process[p].next - 1 \subseteq recorded
          /\ process[p].step \in {"applying", "recording"} => process[p].next <= Known[p]
          /\ process[p].step \in Migrated => 1 .. Known[p] \subseteq recorded

\* With PostgreSQL a process that migrates has the lock, and what it was told
\* about the migration it is at still holds.
LockHeld ==
    provider = "postgres" =>
        \A p \in Processes :
            /\ process[p].step \in Migrating => advisory = Session(p)
            /\ process[p].step \in {"applying", "recording"} => process[p].next \notin schema

\* TypeOK, by the variables it is about.
TypeParts ==
    /\ provider \in {"sqlite", "postgres"}
    /\ schema \subseteq Migrations /\ recorded \subseteq Migrations
    /\ RowsOK /\ RequestsOK /\ WriterOK /\ AdvisoryOK

\* The inductive invariant.
IInv == TypeParts /\ Progress /\ LockHeld

\* The parts are the type invariant that the runs check.
LEMMA TypeOKParts == TypeParts <=> TypeOK
  BY DEF TypeParts, TypeOK, RowsOK, RequestsOK, WriterOK, AdvisoryOK, At

\* Everything starts down, on an empty database.
LEMMA InitIInv == Init => IInv
<1> SUFFICES ASSUME Init PROVE IInv
  OBVIOUS
<1>1. RowsOK
  BY ProcessAssumption DEF Init, RowsOK, ProcessRows, Steps, Startup
<1>2. RequestsOK
  BY DEF Init, RequestsOK, RequestRows
<1>3. WriterOK /\ AdvisoryOK
  BY DEF Init, WriterOK, AdvisoryOK
<1>4. Progress /\ LockHeld
  BY DEF Init, Progress, LockHeld, RecordIsTruthful, Migrating, Migrated, Serving
<1> QED BY <1>1, <1>2, <1>3, <1>4 DEF Init, IInv, TypeParts

\* What a step may do to the row of p.
LEMMA RowEdits ==
    ASSUME NEW row \in ProcessRows, NEW exit \in {"ok", "failed", "killed"}, NEW step \in Steps
    PROVE  /\ [row EXCEPT !.step = "down", !.exit = exit] \in ProcessRows
           /\ [row EXCEPT !.step = step] \in ProcessRows
           /\ [row EXCEPT !.next = @ + 1] \in ProcessRows
           /\ [row EXCEPT !.step = "asking", !.next = row.next + 1] \in ProcessRows
<1>0. "down" \in Steps /\ "asking" \in Steps
  BY DEF Steps, Startup
<1>1. [row EXCEPT !.step = "down", !.exit = exit] \in ProcessRows
  BY <1>0 DEF ProcessRows
<1>2. [row EXCEPT !.step = step] \in ProcessRows
  BY <1>0 DEF ProcessRows
<1>3. row.next + 1 \in Nat \ {0}
  BY DEF ProcessRows
<1>4. [row EXCEPT !.next = @ + 1] \in ProcessRows
  BY <1>3 DEF ProcessRows
<1>5. [row EXCEPT !.step = "asking", !.next = row.next + 1] \in ProcessRows
  BY <1>0, <1>3 DEF ProcessRows
<1> QED BY <1>1, <1>2, <1>4, <1>5

\* A step gives one process a new row.
LEMMA RowStep ==
    ASSUME RowsOK, NEW p \in Processes, NEW row \in ProcessRows,
           process' = [process EXCEPT ![p] = row]
    PROVE  /\ RowsOK'
           /\ \A q \in Processes : process'[q] = IF q = p THEN row ELSE process[q]
  BY DEF RowsOK

\* The advisory lock does not mind what happens to the rows, so long as no start
\* is taken back.
LEMMA AdvisoryStays ==
    ASSUME AdvisoryOK, RowsOK, RowsOK', UNCHANGED <<provider, advisory>>,
           \A q \in Processes : process'[q].starts >= process[q].starts
    PROVE  AdvisoryOK'
<1>1. CASE advisory = None
  BY <1>1 DEF AdvisoryOK
<1>2. CASE advisory # None
  <2>1. advisory.process \in Processes /\ advisory \in Sessions
    BY <1>2 DEF AdvisoryOK, Sessions
  <2>2. advisory.start \in Nat
    BY <2>1 DEF Sessions
  <2>3. process[advisory.process].starts \in Nat /\ process'[advisory.process].starts \in Nat
    BY <2>1, ProcessAssumption DEF RowsOK, ProcessRows
  <2> QED BY <1>2, <2>1, <2>2, <2>3 DEF AdvisoryOK
<1> QED BY <1>1, <1>2

\* A step that ends p leaves what is committed, and every lock, as they are.
LEMMA EndsIInv ==
    ASSUME IInv, NEW p \in Processes, NEW exit \in {"ok", "failed", "killed"}, Ends(p, exit)
    PROVE  IInv'
<1>0. RowsOK /\ process[p] \in ProcessRows
  BY DEF IInv, TypeParts, RowsOK
<1> DEFINE row == [process[p] EXCEPT !.step = "down", !.exit = exit]
<1>1. row \in ProcessRows
  BY <1>0, RowEdits DEF Steps
<1>2. /\ RowsOK'
      /\ \A q \in Processes : process'[q] = IF q = p THEN row ELSE process[q]
  <2>1. process' = [process EXCEPT ![p] = row]
    BY DEF Ends
  <2> HIDE DEF row
  <2> QED BY <1>0, <1>1, <2>1, RowStep
<1>3. \A q \in Processes : /\ process'[q].next = process[q].next
                           /\ process'[q].starts = process[q].starts
                           /\ process'[q].step = IF q = p THEN "down" ELSE process[q].step
  <2>1. row.step = "down" /\ row.next = process[p].next /\ row.starts = process[p].starts
    BY <1>0 DEF ProcessRows
  <2> HIDE DEF row
  <2> QED BY <1>2, <2>1
<1>4. RequestsOK'
  BY DEF IInv, TypeParts, RequestsOK, RequestRows, Ends, Active
<1>5. WriterOK'
  <2>1. CASE writer = p
    BY <2>1 DEF WriterOK, Ends, WriterWithout
  <2>2. CASE writer # p
    BY <2>2, <1>3 DEF IInv, TypeParts, WriterOK, Ends, WriterWithout
  <2> QED BY <2>1, <2>2
<1>6. AdvisoryOK'
  <2>1. \A q \in Processes : process'[q].starts >= process[q].starts
    BY <1>0, <1>3, ProcessAssumption DEF ProcessRows, RowsOK
  <2> QED BY <1>0, <1>2, <2>1, AdvisoryStays DEF IInv, TypeParts, Ends
<1>7. Progress'
  BY <1>3 DEF IInv, Progress, RecordIsTruthful, Ends, Migrating, Migrated, Serving
<1>8. LockHeld'
  BY <1>3 DEF IInv, LockHeld, Session, Ends, Migrating
<1> QED BY <1>2, <1>4, <1>5, <1>6, <1>7, <1>8 DEF IInv, TypeParts, Ends

\* A step that only moves p along.
LEMMA MoveFacts ==
    ASSUME RowsOK, NEW p \in Processes, NEW step \in Steps, Goto(p, step)
    PROVE  /\ RowsOK'
           /\ \A q \in Processes :
                 /\ process'[q].next = process[q].next
                 /\ process'[q].starts = process[q].starts
                 /\ process'[q].step = IF q = p THEN step ELSE process[q].step
<1> DEFINE row == [process[p] EXCEPT !.step = step]
<1>1. process[p] \in ProcessRows
  BY DEF RowsOK
<1>2. row \in ProcessRows
  BY <1>1, RowEdits
<1>3. row.step = step /\ row.next = process[p].next /\ row.starts = process[p].starts
  BY <1>1 DEF ProcessRows
<1>4. process' = [process EXCEPT ![p] = row]
  BY DEF Goto
<1> HIDE DEF row
<1>5. RowsOK' /\ \A q \in Processes : process'[q] = IF q = p THEN row ELSE process[q]
  BY <1>2, <1>4, RowStep
<1> QED BY <1>3, <1>5

\* Numbers and sessions of the rows.
LEMMA RowNumbers ==
    ASSUME RowsOK, NEW p \in Processes
    PROVE  /\ process[p].next \in Nat \ {0} /\ process[p].starts \in Nat
           /\ Known[p] \in Nat \ {0}
           /\ Session(p) \in Sessions /\ Session(p) # None /\ Session(p).process = p
  BY ProcessAssumption DEF RowsOK, ProcessRows, Session, Sessions

\* The lock has one holder.
LEMMA OneMigrates ==
    ASSUME IInv, provider = "postgres", NEW p \in Processes, NEW q \in Processes,
           process[p].step \in Migrating, process[q].step \in Migrating
    PROVE  p = q
<1>1. Session(p) = Session(q)
  BY DEF IInv, LockHeld
<1> QED BY <1>1, RowNumbers DEF IInv, TypeParts

\* A step that moves p along, and does nothing else, to where it may be.
LEMMA MoveIInv ==
    ASSUME IInv, NEW p \in Processes, NEW step \in Steps \ {"down", "opened", "recording"},
           Goto(p, step), UNCHANGED <<provider, request, borrowed, database>>,
           process[p].step \notin {"down", "recording"},
           step \in Migrating => process[p].step \in Migrating,
           step = "applying" => process[p].next <= Known[p] /\ process[p].next \notin schema,
           step \in Migrated => process[p].step \in Migrated
    PROVE  IInv'
<1> USE DEF database
<1>1. RowsOK
  BY DEF IInv, TypeParts
<1>2. /\ RowsOK'
      /\ \A q \in Processes :
            /\ process'[q].next = process[q].next
            /\ process'[q].starts = process[q].starts
            /\ process'[q].step = IF q = p THEN step ELSE process[q].step
  BY <1>1, MoveFacts
<1>3. RequestsOK'
  BY DEF IInv, TypeParts, RequestsOK
<1>4. WriterOK'
  BY <1>2 DEF IInv, TypeParts, WriterOK
<1>5. AdvisoryOK'
  <2>1. \A q \in Processes : process'[q].starts >= process[q].starts
    BY <1>1, <1>2, RowNumbers
  <2> QED BY <1>1, <1>2, <2>1, AdvisoryStays DEF IInv, TypeParts
<1>6. Progress'
  BY <1>2 DEF IInv, Progress, RecordIsTruthful, Migrating, Migrated, Serving
<1>7. LockHeld'
  BY <1>2 DEF IInv, LockHeld, Session, Migrating
<1> QED BY <1>2, <1>3, <1>4, <1>5, <1>6, <1>7 DEF IInv, TypeParts

\* A new start is a new session, and has seen nothing of the database.
LEMMA StartIInv == ASSUME IInv, NEW p \in Processes, Start(p) PROVE IInv'
<1> USE DEF database
<1> DEFINE row ==
             [process[p] EXCEPT !.step = "opened", !.next = 1, !.starts = process[p].starts + 1]
<1>1. RowsOK /\ process[p] \in ProcessRows /\ process[p].starts < MaxStarts
  BY DEF IInv, TypeParts, RowsOK, Start
<1>2. process[p].starts + 1 \in 0 .. MaxStarts /\ "opened" \in Steps
  BY <1>1, ProcessAssumption DEF ProcessRows, Steps, Startup
<1>3. row \in ProcessRows
  <2>1. 1 \in Nat \ {0}
    OBVIOUS
  <2> QED BY <1>1, <1>2, <2>1 DEF ProcessRows
<1>4. row.step = "opened" /\ row.next = 1 /\ row.starts = process[p].starts + 1
  BY <1>1 DEF ProcessRows
<1>5. process' = [process EXCEPT ![p] = row]
  BY DEF Start
<1> HIDE DEF row
<1>6. RowsOK' /\ \A q \in Processes : process'[q] = IF q = p THEN row ELSE process[q]
  BY <1>1, <1>3, <1>5, RowStep
<1>7. process[p].step = "down"
  BY DEF Start, At
<1>8. RequestsOK'
  BY DEF IInv, TypeParts, RequestsOK, Start
<1>9. WriterOK'
  BY <1>6, <1>7 DEF IInv, TypeParts, WriterOK, Start
<1>10. AdvisoryOK'
  <2>1. \A q \in Processes : process'[q].starts >= process[q].starts
    BY <1>1, <1>4, <1>6, RowNumbers
  <2> QED BY <1>1, <1>6, <2>1, AdvisoryStays DEF IInv, TypeParts, Start
<1>11. Progress'
  BY <1>1, <1>4, <1>6, RowNumbers
  DEF IInv, Progress, RecordIsTruthful, Migrating, Migrated, Serving, Start
<1>12. LockHeld'
  BY <1>4, <1>6 DEF IInv, LockHeld, Session, Migrating, Start
<1> QED BY <1>6, <1>8, <1>9, <1>10, <1>11, <1>12 DEF IInv, TypeParts, Start

\* Who gets the lock finds nobody migrating.
LEMMA PrepareIInv == ASSUME IInv, NEW p \in Processes, Prepare(p) PROVE IInv'
<1>1. RowsOK /\ process[p].step = "opened" /\ "asking" \in Steps
  BY DEF IInv, TypeParts, Prepare, At, Steps, Startup
<1>2. /\ RowsOK'
      /\ \A q \in Processes :
            /\ process'[q].next = process[q].next
            /\ process'[q].starts = process[q].starts
            /\ process'[q].step = IF q = p THEN "asking" ELSE process[q].step
  BY <1>1, MoveFacts DEF Prepare
<1>3. RequestsOK'
  BY DEF IInv, TypeParts, RequestsOK, Prepare
<1>4. WriterOK'
  BY <1>1, <1>2 DEF IInv, TypeParts, WriterOK, Prepare
<1>5. AdvisoryOK'
  <2>1. process[p].starts \in Nat /\ process[p].starts > 0
    BY <1>1, RowNumbers DEF IInv, Progress
  <2>2. Session(p) \in Sessions /\ Session(p).process = p /\ Session(p).start = process[p].starts
    BY <1>1, RowNumbers DEF Session
  <2>3. Session(p).start \in 1 .. process'[p].starts
    BY <1>2, <2>1, <2>2
  <2> QED BY <2>2, <2>3 DEF AdvisoryOK, Prepare
<1>6. Progress'
  <2>1. process[p].next = 1
    BY <1>1 DEF IInv, Progress
  <2> QED BY <1>1, <1>2, <2>1
      DEF IInv, Progress, RecordIsTruthful, Migrating, Migrated, Serving, Prepare
<1>7. LockHeld'
  <2> SUFFICES ASSUME provider = "postgres", NEW q \in Processes, process'[q].step \in Migrating
               PROVE  advisory' = Session(q)' /\ process'[q].step = "asking"
    BY DEF LockHeld, Prepare, Migrating
  <2>1. process[q].step \notin Migrating
    BY <1>1, RowNumbers DEF IInv, LockHeld, Prepare, AdvisoryFree
  <2>2. q = p
    BY <1>2, <2>1
  <2> QED BY <1>2, <2>2 DEF Prepare, Session
<1> QED BY <1>2, <1>3, <1>4, <1>5, <1>6, <1>7 DEF IInv, TypeParts, Prepare

\* A recorded migration is behind p.
LEMMA SkipAppliedIInv == ASSUME IInv, NEW p \in Processes, SkipApplied(p) PROVE IInv'
<1> USE DEF database
<1> DEFINE row == [process[p] EXCEPT !.next = @ + 1]
<1>1. RowsOK /\ process[p] \in ProcessRows /\ process[p].step = "asking"
  BY DEF IInv, TypeParts, RowsOK, SkipApplied, At
<1>2. row \in ProcessRows
  BY <1>1, RowEdits DEF Steps
<1>3. row.step = "asking" /\ row.next = process[p].next + 1 /\ row.starts = process[p].starts
  BY <1>1 DEF ProcessRows
<1>4. process' = [process EXCEPT ![p] = row]
  BY DEF SkipApplied
<1> HIDE DEF row
<1>5. RowsOK' /\ \A q \in Processes : process'[q] = IF q = p THEN row ELSE process[q]
  BY <1>1, <1>2, <1>4, RowStep
<1>6. RequestsOK'
  BY DEF IInv, TypeParts, RequestsOK, SkipApplied
<1>7. WriterOK'
  BY <1>1, <1>5 DEF IInv, TypeParts, WriterOK, SkipApplied
<1>8. AdvisoryOK'
  <2>1. \A q \in Processes : process'[q].starts >= process[q].starts
    BY <1>1, <1>3, <1>5, RowNumbers
  <2> QED BY <1>1, <1>5, <2>1, AdvisoryStays DEF IInv, TypeParts, SkipApplied
<1>9. Progress'
  <2>1. 1 .. process[p].next \subseteq recorded
    BY DEF IInv, Progress, RecordIsTruthful, SkipApplied
  <2>2. 1 .. row.next - 1 \subseteq recorded
    BY <1>1, <1>3, <2>1, RowNumbers
  <2> QED BY <1>1, <1>3, <1>5, <2>2
      DEF IInv, Progress, RecordIsTruthful, Migrating, Migrated, Serving, SkipApplied
<1>10. LockHeld'
  BY <1>1, <1>3, <1>5 DEF IInv, LockHeld, Session, Migrating, SkipApplied
<1> QED BY <1>5, <1>6, <1>7, <1>8, <1>9, <1>10 DEF IInv, TypeParts, SkipApplied

\* The statements run in a transaction: nothing shows.
LEMMA ExecuteIInv == ASSUME IInv, NEW p \in Processes, Execute(p) PROVE IInv'
<1>1. RowsOK /\ process[p].step = "applying" /\ "recording" \in Steps
  BY DEF IInv, TypeParts, Execute, At, Steps, Startup
<1>2. /\ RowsOK'
      /\ \A q \in Processes :
            /\ process'[q].next = process[q].next
            /\ process'[q].starts = process[q].starts
            /\ process'[q].step = IF q = p THEN "recording" ELSE process[q].step
  BY <1>1, MoveFacts DEF Execute
<1>3. RequestsOK'
  BY DEF IInv, TypeParts, RequestsOK, Execute
<1>4. WriterOK'
  BY <1>2 DEF IInv, TypeParts, WriterOK, Execute
<1>5. AdvisoryOK'
  <2>1. \A q \in Processes : process'[q].starts >= process[q].starts
    BY <1>1, <1>2, RowNumbers
  <2> QED BY <1>1, <1>2, <2>1, AdvisoryStays DEF IInv, TypeParts, Execute
<1>6. Progress'
  BY <1>1, <1>2
  DEF IInv, Progress, RecordIsTruthful, Migrating, Migrated, Serving, Execute, Executed
<1>7. LockHeld'
  BY <1>1, <1>2 DEF IInv, LockHeld, Session, Migrating, Execute, Executed
<1> QED BY <1>2, <1>3, <1>4, <1>5, <1>6, <1>7 DEF IInv, TypeParts, Execute, Executed

\* What a commit does to the record, whatever becomes of p.
LEMMA CommittedFacts ==
    ASSUME IInv, NEW p \in Processes, process[p].step = "recording", Committed(p)
    PROVE  /\ RecordIsTruthful'
           /\ recorded \subseteq recorded' /\ 1 .. process[p].next \subseteq recorded'
           /\ schema' \subseteq Migrations /\ recorded' \subseteq Migrations
<1>1. /\ process[p].next \in Nat \ {0} /\ Known[p] \in Nat \ {0}
      /\ 1 .. process[p].next - 1 \subseteq recorded /\ process[p].next <= Known[p]
  BY RowNumbers DEF IInv, TypeParts, Progress, Migrating
<1>2. 1 .. process[p].next \subseteq recorded'
  BY <1>1 DEF Committed
<1>3. process[p].next \in Migrations
  BY <1>1 DEF Migrations
<1>4. RecordIsTruthful'
  BY <1>2 DEF IInv, Progress, RecordIsTruthful, Committed
<1> QED BY <1>2, <1>3, <1>4 DEF IInv, TypeParts, Committed

\* The record grows by the next migration, and so does what is behind p.
LEMMA CommitIInv == ASSUME IInv, NEW p \in Processes, Commit(p) PROVE IInv'
<1> DEFINE row == [process[p] EXCEPT !.step = "asking", !.next = process[p].next + 1]
<1>1. RowsOK /\ process[p] \in ProcessRows /\ process[p].step = "recording"
  BY DEF IInv, TypeParts, RowsOK, Commit, At
<1>2. row \in ProcessRows
  BY <1>1, RowEdits DEF Steps
<1>3. row.step = "asking" /\ row.next = process[p].next + 1 /\ row.starts = process[p].starts
  BY <1>1 DEF ProcessRows
<1>4. process' = [process EXCEPT ![p] = row]
  BY DEF Commit
<1> HIDE DEF row
<1>5. RowsOK' /\ \A q \in Processes : process'[q] = IF q = p THEN row ELSE process[q]
  BY <1>1, <1>2, <1>4, RowStep
<1>6. RequestsOK' /\ WriterOK'
  BY DEF IInv, TypeParts, RequestsOK, WriterOK, Commit, Committed
<1>7. AdvisoryOK'
  <2>1. \A q \in Processes : process'[q].starts >= process[q].starts
    BY <1>1, <1>3, <1>5, RowNumbers
  <2> QED BY <1>1, <1>5, <2>1, AdvisoryStays DEF IInv, TypeParts, Commit, Committed
<1>8. /\ RecordIsTruthful'
      /\ recorded \subseteq recorded' /\ 1 .. process[p].next \subseteq recorded'
      /\ schema' \subseteq Migrations /\ recorded' \subseteq Migrations
  BY <1>1, CommittedFacts DEF Commit
<1>9. Progress'
  <2>1. 1 .. row.next - 1 \subseteq recorded'
    BY <1>1, <1>3, <1>8, RowNumbers
  <2> QED BY <1>1, <1>3, <1>5, <1>8, <2>1 DEF IInv, Progress, Migrating, Migrated, Serving
<1>10. LockHeld'
  <2> SUFFICES ASSUME provider = "postgres", NEW q \in Processes, process'[q].step \in Migrating
               PROVE  advisory' = Session(q)' /\ process'[q].step = "asking"
    BY DEF LockHeld, Commit, Committed, Migrating
  <2>1. q = p
    BY <1>1, <1>5, OneMigrates DEF Migrating
  <2> QED BY <1>1, <1>3, <1>5, <2>1
      DEF IInv, LockHeld, Session, Migrating, Commit, Committed
<1> QED BY <1>5, <1>6, <1>7, <1>8, <1>9, <1>10 DEF IInv, TypeParts, Commit, Committed

\* So it does when p does not hear of it.
LEMMA CommitUnheardIInv == ASSUME IInv, NEW p \in Processes, CommitUnheard(p) PROVE IInv'
<1> DEFINE row == [process[p] EXCEPT !.step = "down", !.exit = "failed"]
<1>1. RowsOK /\ process[p] \in ProcessRows /\ process[p].step = "recording"
  BY DEF IInv, TypeParts, RowsOK, CommitUnheard, At
<1>2. row \in ProcessRows
  BY <1>1, RowEdits DEF Steps
<1>3. row.step = "down" /\ row.starts = process[p].starts
  BY <1>1 DEF ProcessRows
<1>4. process' = [process EXCEPT ![p] = row]
  BY DEF CommitUnheard
<1> HIDE DEF row
<1>5. RowsOK' /\ \A q \in Processes : process'[q] = IF q = p THEN row ELSE process[q]
  BY <1>1, <1>2, <1>4, RowStep
<1>6. RequestsOK' /\ WriterOK'
  BY DEF IInv, TypeParts, RequestsOK, WriterOK, CommitUnheard, Committed
<1>7. AdvisoryOK'
  <2>1. \A q \in Processes : process'[q].starts >= process[q].starts
    BY <1>1, <1>3, <1>5, RowNumbers
  <2> QED BY <1>1, <1>5, <2>1, AdvisoryStays DEF IInv, TypeParts, CommitUnheard, Committed
<1>8. /\ RecordIsTruthful'
      /\ recorded \subseteq recorded'
      /\ schema' \subseteq Migrations /\ recorded' \subseteq Migrations
  BY <1>1, CommittedFacts DEF CommitUnheard
<1>9. Progress'
  BY <1>3, <1>5, <1>8 DEF IInv, Progress, Migrating, Migrated, Serving
<1>10. LockHeld'
  <2> SUFFICES ASSUME provider = "postgres", NEW q \in Processes, process'[q].step \in Migrating
               PROVE  FALSE
    BY DEF LockHeld, CommitUnheard, Committed, Migrating
  <2>1. q = p
    BY <1>1, <1>5, OneMigrates DEF Migrating
  <2> QED BY <1>3, <1>5, <2>1 DEF Migrating
<1> QED BY <1>5, <1>6, <1>7, <1>8, <1>9, <1>10 DEF IInv, TypeParts, CommitUnheard, Committed

\* All that p knows is recorded, and nobody else relies on the lock it returns.
LEMMA FinishMigratingIInv == ASSUME IInv, NEW p \in Processes, FinishMigrating(p) PROVE IInv'
<1>1. RowsOK /\ process[p].step = "asking" /\ "listening" \in Steps
  BY DEF IInv, TypeParts, FinishMigrating, At, Steps, Startup
<1>2. /\ RowsOK'
      /\ \A q \in Processes :
            /\ process'[q].next = process[q].next
            /\ process'[q].starts = process[q].starts
            /\ process'[q].step = IF q = p THEN "listening" ELSE process[q].step
  BY <1>1, MoveFacts DEF FinishMigrating
<1>3. RequestsOK'
  BY DEF IInv, TypeParts, RequestsOK, FinishMigrating
<1>4. WriterOK' /\ AdvisoryOK'
  BY <1>1, <1>2 DEF IInv, TypeParts, WriterOK, AdvisoryOK, FinishMigrating, Unlocked
<1>5. Progress'
  <2>1. 1 .. Known[p] \subseteq recorded
    <3>1. 1 .. process[p].next - 1 \subseteq recorded /\ ~(process[p].next <= Known[p])
      BY <1>1 DEF IInv, Progress, Migrating, FinishMigrating, Pending
    <3> QED BY <1>1, <3>1, RowNumbers
  <2> QED BY <1>1, <1>2, <2>1
      DEF IInv, Progress, RecordIsTruthful, Migrating, Migrated, Serving, FinishMigrating
<1>6. LockHeld'
  <2> SUFFICES ASSUME provider = "postgres", NEW q \in Processes, process'[q].step \in Migrating
               PROVE  FALSE
    BY DEF LockHeld, FinishMigrating, Migrating
  <2>1. q = p
    BY <1>1, <1>2, OneMigrates DEF Migrating
  <2> QED BY <1>2, <2>1 DEF Migrating
<1> QED BY <1>2, <1>3, <1>4, <1>5, <1>6 DEF IInv, TypeParts, FinishMigrating

\* A session that ends is not the session of a process that migrates.
LEMMA SessionEndsIInv == ASSUME IInv, SessionEnds PROVE IInv'
<1>1. RowsOK' /\ RequestsOK' /\ WriterOK' /\ AdvisoryOK'
  BY DEF IInv, TypeParts, RowsOK, RequestsOK, WriterOK, AdvisoryOK, SessionEnds
<1>2. Progress'
  BY DEF IInv, Progress, RecordIsTruthful, SessionEnds
<1>3. LockHeld'
  <2> SUFFICES ASSUME provider = "postgres", NEW q \in Processes, process[q].step \in Migrating
               PROVE  FALSE
    BY DEF LockHeld, SessionEnds, Migrating
  <2>1. advisory = Session(q) /\ Session(q).process = q
    BY RowNumbers DEF IInv, TypeParts, LockHeld
  <2> QED BY <2>1 DEF SessionEnds, At, Migrating
<1> QED BY <1>1, <1>2, <1>3 DEF IInv, TypeParts, SessionEnds

\* Requests touch neither rows nor database.
LEMMA RequestIInv ==
    ASSUME IInv, UNCHANGED <<provider, process, database>>, RequestsOK'
    PROVE  IInv'
<1>1. RowsOK' /\ WriterOK' /\ AdvisoryOK'
  BY DEF IInv, TypeParts, RowsOK, WriterOK, AdvisoryOK, database
<1>2. Progress' /\ LockHeld'
  BY DEF IInv, Progress, RecordIsTruthful, LockHeld, Session, database
<1> QED BY <1>1, <1>2 DEF IInv, TypeParts, database

\* The invariant is inductive.
LEMMA NextIInv == IInv /\ [Next]_vars => IInv'
<1> SUFFICES ASSUME IInv, [Next]_vars PROVE IInv'
  OBVIOUS
<1>0. /\ {"applying", "drained"} \cup Serving \subseteq Steps
      /\ RequestsOK
  BY DEF Steps, Startup, IInv, TypeParts
<1>1. ASSUME NEW p \in Processes, ProcessStep(p) PROVE IInv'
  <2>1. CASE Prepare(p) \/ SkipApplied(p) \/ Execute(p) \/ Commit(p) \/ FinishMigrating(p)
    BY <2>1, PrepareIInv, SkipAppliedIInv, ExecuteIInv, CommitIInv, FinishMigratingIInv
  <2>2. CASE FindMissing(p)
    <3>1. process[p].next <= Known[p] /\ process[p].next \notin schema
      BY <2>2 DEF FindMissing, Pending, IInv, Progress, RecordIsTruthful
    <3> QED BY <1>0, <2>2, <3>1, MoveIInv DEF FindMissing, At, Migrating, Migrated, Serving
  <2>3. CASE Listen(p) \/ Drain(p) \/ Deadline(p)
    BY <1>0, <2>3, MoveIInv DEF Listen, Drain, Deadline, At, Migrating, Migrated, Serving
  <2>4. CASE ExecuteFails(p) \/ Exit(p)
    BY <2>4, EndsIInv DEF ExecuteFails, Exit
  <2> QED BY <1>1, <2>1, <2>2, <2>3, <2>4 DEF ProcessStep
<1>2. ASSUME NEW p \in Processes, StartupFails(p) \/ Crash(p) PROVE IInv'
  BY <1>2, EndsIInv DEF StartupFails, Crash
<1>3. ASSUME NEW p \in Processes, Signal(p) \/ ListenerFails(p) PROVE IInv'
  BY <1>0, <1>3, MoveIInv DEF Signal, ListenerFails, At, Migrating, Migrated, Serving
<1>4. ASSUME NEW p \in Processes, NEW r \in Requests, Arrive(p, r) PROVE IInv'
  <2>1. [step |-> "handling", at |-> p] \in RequestRows
    BY DEF RequestRows
  <2>2. RequestsOK'
    BY <1>0, <1>4, <2>1 DEF RequestsOK, Arrive
  <2> QED BY <1>4, <2>2, RequestIInv DEF Arrive
<1>5. ASSUME NEW r \in Requests, Borrow(r) PROVE IInv'
  <2>1. RequestsOK'
    BY <1>0, <1>5 DEF RequestsOK, Borrow
  <2> QED BY <1>5, <2>1, RequestIInv DEF Borrow
<1>6. ASSUME NEW r \in Requests, Finish(r) PROVE IInv'
  <2>1. [request[r] EXCEPT !.step = "answered"] \in RequestRows
    BY <1>0 DEF RequestsOK, RequestRows
  <2>2. request' = [request EXCEPT ![r] = [request[r] EXCEPT !.step = "answered"]]
    BY <1>6 DEF Finish
  <2>3. RequestsOK'
    BY <1>0, <1>6, <2>1, <2>2 DEF RequestsOK, Finish, Returned
  <2> QED BY <1>6, <2>3, RequestIInv DEF Finish
<1>7. CASE UNCHANGED vars
  <2>1. RequestsOK'
    BY <1>0, <1>7 DEF RequestsOK, vars
  <2> QED BY <1>7, <2>1, RequestIInv DEF vars
<1> QED
  BY <1>1, <1>2, <1>3, <1>4, <1>5, <1>6, <1>7, StartIInv, CommitUnheardIInv, SessionEndsIInv
  DEF Next

\* It holds in every reachable state.
LEMMA IInvHolds == Spec => []IInv
  BY InitIInv, NextIInv, PTL DEF Spec

-----------------------------------------------------------------------------
\* Variables hold what they may, whatever the number of processes and requests.
THEOREM ProcessTypes == Spec => []TypeOK
<1>1. IInv => TypeOK
  BY TypeOKParts DEF IInv
<1> QED BY <1>1, IInvHolds, PTL

\* schema_migrations never lies: simultaneous starts, crashes between any two
\* statements and lost answers leave a prefix of the migrations recorded, and
\* exactly those in force.
THEOREM MigrationsTruthful == Spec => []RecordIsTruthful
<1>1. IInv => RecordIsTruthful
  BY DEF IInv, Progress
<1> QED BY <1>1, IInvHolds, PTL

\* No process of any version accepts a request before all migrations of its
\* binary are in force, and nothing takes one back.
THEOREM MigratedBeforeServing == Spec => []ServesMigratedOnly
<1>1. IInv => ServesMigratedOnly
  BY DEF IInv, Progress, RecordIsTruthful, Migrated, Serving, ServesMigratedOnly
<1> QED BY <1>1, IInvHolds, PTL

\* With PostgreSQL at most one process migrates, and what it was told about the
\* migration it is at still holds: no start fails on the tables of another.
THEOREM StartsDoNotCollide == Spec => []PostgresStartsDoNotCollide
<1>1. IInv => PostgresStartsDoNotCollide
  <2> SUFFICES ASSUME IInv, provider = "postgres" PROVE PostgresStartsDoNotCollide
    BY DEF PostgresStartsDoNotCollide
  <2>1. \A p \in Processes :
           process[p].step \in {"applying", "recording"} => process[p].next \notin schema
    BY DEF IInv, LockHeld
  <2>2. \A p, q \in Processes : {process[p].step, process[q].step} \subseteq Migrating => p = q
    BY OneMigrates
  <2> QED BY <2>1, <2>2 DEF PostgresStartsDoNotCollide, Migrating
<1> QED BY <1>1, IInvHolds, PTL

-----------------------------------------------------------------------------
(* Requests that were accepted are answered.                               *)

\* A handler runs only while its process accepts requests, or waits for the
\* last ones.
HandledOK ==
    \A r \in Requests :
        request[r].step = "handling" =>
            /\ request[r].at \in Processes
            /\ process[request[r].at].step \in Serving

\* A process that ends cuts the requests it handles and no others.
LEMMA EndsHandled ==
    ASSUME RowsOK, RequestsOK, HandledOK, NEW p \in Processes,
           NEW exit \in {"ok", "failed", "killed"}, Ends(p, exit)
    PROVE  /\ HandledOK'
           /\ process'[p].exit = exit
           /\ \A r \in Requests :
                 request[r].step = "handling" /\ request'[r].step = "cut" => request[r].at = p
<1>1. process[p] \in ProcessRows
  BY DEF RowsOK
<1>2. /\ process'[p].exit = exit
      /\ \A q \in Processes : q # p => process'[q] = process[q]
  <2>1. PICK row : row = [process[p] EXCEPT !.step = "down", !.exit = exit]
    OBVIOUS
  <2>2. row.exit = exit
    BY <1>1, <2>1 DEF ProcessRows
  <2>3. process' = [process EXCEPT ![p] = row]
    BY <2>1 DEF Ends
  <2> QED BY <2>2, <2>3 DEF RowsOK
<1>3. \A r \in Requests :
         IF request[r].at = p /\ request[r].step = "handling"
         THEN request'[r].step = "cut"
         ELSE request'[r] = request[r]
  <2> SUFFICES ASSUME NEW r \in Requests
               PROVE  IF request[r].at = p /\ request[r].step = "handling"
                      THEN request'[r].step = "cut"
                      ELSE request'[r] = request[r]
    OBVIOUS
  <2>1. request[r] \in RequestRows
    BY DEF RequestsOK
  <2>2. [request[r] EXCEPT !.step = "cut"].step = "cut"
    BY <2>1 DEF RequestRows
  <2> QED BY <2>2 DEF Ends, Active
<1>4. HandledOK'
  BY <1>2, <1>3 DEF HandledOK
<1> QED BY <1>2, <1>3, <1>4

\* While the requests rest, a process may move if it goes on accepting or
\* waiting, or handles none.
LEMMA MoveHandled ==
    ASSUME HandledOK, UNCHANGED request, NEW p \in Processes,
           \A q \in Processes : q # p => process'[q] = process[q],
           \/ Active(p) = {}
           \/ process'[p].step \in Serving
    PROVE  HandledOK'
  BY DEF HandledOK, Active

\* No process handles requests before it serves.
LEMMA EarlyIdle ==
    ASSUME HandledOK, NEW p \in Processes,
           process[p].step \notin Serving
    PROVE  Active(p) = {}
  BY DEF HandledOK, Active

\* What NoRequestCutShort says of a step.
CutLate ==
    \A r \in Requests :
        (request[r].step = "handling" /\ request'[r].step = "cut")
        => LET p == request[r].at
           IN  \/ process'[p].exit = "killed"
               \/ /\ process[p].step \in {"overdue", "broken"}
                  /\ process'[p].exit = "failed"
                  /\ provider = "postgres" => r \notin borrowed

\* Only a kill, the exit after the deadline and that of a broken process find
\* requests to cut.
LEMMA NextHandled == IInv /\ HandledOK /\ [Next]_vars => HandledOK' /\ CutLate
<1> SUFFICES ASSUME IInv, HandledOK, [Next]_vars
             PROVE  HandledOK' /\ CutLate
  OBVIOUS
<1>1. RowsOK /\ RequestsOK
  BY DEF IInv, TypeParts
<1>2. UNCHANGED request => CutLate
  BY DEF CutLate
<1>3. ASSUME NEW p \in Processes, NEW exit \in {"ok", "failed", "killed"}, Ends(p, exit),
             \/ Active(p) = {}
             \/ exit = "killed"
             \/ /\ exit = "failed" /\ process[p].step \in {"overdue", "broken"}
                /\ provider = "postgres" => {r \in borrowed : request[r].at = p} = {}
      PROVE  HandledOK' /\ CutLate
  <2>1. /\ HandledOK'
        /\ process'[p].exit = exit
        /\ \A r \in Requests :
              request[r].step = "handling" /\ request'[r].step = "cut" => request[r].at = p
    BY <1>1, <1>3, EndsHandled
  <2> QED BY <1>3, <2>1 DEF CutLate, Active
<1>4. ASSUME NEW p \in Processes, UNCHANGED request, NEW row,
             process' = [process EXCEPT ![p] = row],
             \/ process[p].step \notin Serving
             \/ Active(p) = {}
             \/ row.step \in Serving
      PROVE  HandledOK' /\ CutLate
  <2>1. process'[p] = row /\ \A q \in Processes : q # p => process'[q] = process[q]
    BY <1>1, <1>4 DEF RowsOK
  <2> QED BY <1>2, <1>4, <2>1, EarlyIdle, MoveHandled
<1>5. ASSUME NEW p \in Processes, UNCHANGED request, NEW step, Goto(p, step),
             \/ process[p].step \notin Serving
             \/ Active(p) = {}
             \/ step \in Serving
      PROVE  HandledOK' /\ CutLate
  <2>1. PICK row : row = [process[p] EXCEPT !.step = step]
    OBVIOUS
  <2>2. row.step = step
    BY <1>1, <2>1 DEF RowsOK, ProcessRows
  <2>3. process' = [process EXCEPT ![p] = row]
    BY <1>1, <1>5, <2>1 DEF Goto, RowsOK
  <2> QED BY <1>4, <1>5, <2>2, <2>3
<1>6. ASSUME NEW p \in Processes, Start(p) PROVE HandledOK' /\ CutLate
  BY <1>4, <1>6 DEF Start, At, Serving
<1>7. ASSUME NEW p \in Processes, SkipApplied(p) PROVE HandledOK' /\ CutLate
  <2>1. PICK row : row = [process[p] EXCEPT !.next = @ + 1]
    OBVIOUS
  <2>2. process' = [process EXCEPT ![p] = row]
    BY <1>1, <1>7, <2>1 DEF SkipApplied, RowsOK
  <2> QED BY <1>4, <1>7, <2>2 DEF SkipApplied, At, Serving
<1>8. ASSUME NEW p \in Processes, Commit(p) \/ CommitUnheard(p) PROVE HandledOK' /\ CutLate
  BY <1>4, <1>8 DEF Commit, CommitUnheard, At, Serving
<1>9. ASSUME NEW p \in Processes,
             \/ Prepare(p) \/ FindMissing(p) \/ Execute(p) \/ FinishMigrating(p) \/ Listen(p)
             \/ ListenerFails(p) \/ Signal(p) \/ Drain(p) \/ Deadline(p)
      PROVE  HandledOK' /\ CutLate
  BY <1>5, <1>9
  DEF Prepare, FindMissing, Execute, FinishMigrating, Listen, ListenerFails, Signal, Drain,
      Deadline, Drained, At, Serving
<1>10. ASSUME NEW p \in Processes, StartupFails(p) \/ ExecuteFails(p)
       PROVE  HandledOK' /\ CutLate
  <2>1. Active(p) = {}
    BY <1>10, EarlyIdle DEF StartupFails, ExecuteFails, At, Startup, Serving
  <2>2. Ends(p, "failed")
    BY <1>10 DEF StartupFails, ExecuteFails
  <2> QED BY <1>3, <2>1, <2>2
<1>11. ASSUME NEW p \in Processes, Exit(p) PROVE HandledOK' /\ CutLate
  <2>1. CASE At(p, "drained")
    <3>1. Active(p) = {}
      BY <2>1, EarlyIdle DEF At, Serving
    <3> QED BY <1>3, <1>11, <2>1, <3>1 DEF Exit
  <2>2. CASE process[p].step \in {"overdue", "broken"}
    <3>1. /\ Ends(p, "failed")
          /\ provider = "postgres" => {r \in borrowed : request[r].at = p} = {}
      BY <1>11, <2>2 DEF Exit, At
    <3> QED BY <1>3, <2>2, <3>1
  <2> QED BY <1>11, <2>1, <2>2 DEF Exit, At
<1>12. ASSUME NEW p \in Processes, Crash(p) PROVE HandledOK' /\ CutLate
  BY <1>3, <1>12 DEF Crash
<1>13. ASSUME NEW p \in Processes, NEW r \in Requests, Arrive(p, r) PROVE HandledOK' /\ CutLate
  BY <1>1, <1>13 DEF Arrive, Serving, HandledOK, CutLate, RequestsOK
<1>14. ASSUME NEW r \in Requests, Finish(r) PROVE HandledOK' /\ CutLate
  <2>1. PICK row : row = [request[r] EXCEPT !.step = "answered"]
    OBVIOUS
  <2>2. row.step = "answered"
    BY <1>1, <2>1 DEF RequestsOK, RequestRows
  <2>3. request' = [request EXCEPT ![r] = row]
    BY <1>1, <1>14, <2>1 DEF Finish, RequestsOK
  <2> QED BY <1>1, <1>14, <2>2, <2>3 DEF Finish, HandledOK, CutLate, RequestsOK
<1>15. ASSUME UNCHANGED <<process, request>> PROVE HandledOK' /\ CutLate
  BY <1>2, <1>15 DEF HandledOK
<1>16. ASSUME NEW p \in Processes, ProcessStep(p) PROVE HandledOK' /\ CutLate
  BY <1>7, <1>8, <1>9, <1>10, <1>11, <1>16 DEF ProcessStep
<1>17. CASE UNCHANGED vars \/ SessionEnds \/ \E r \in Requests : Borrow(r)
  BY <1>15, <1>17 DEF vars, SessionEnds, Borrow
<1> QED
  BY <1>6, <1>8, <1>9, <1>10, <1>12, <1>13, <1>14, <1>16, <1>17 DEF Next

\* Handlers run only where they may.
LEMMA HandledHolds == Spec => []HandledOK
<1>1. Init => HandledOK
  BY DEF Init, HandledOK
<1> QED BY <1>1, NextHandled, IInvHolds, PTL DEF Spec

\* A process that exits with status 0 has answered every request it accepted; a
\* kill, the deadline of Shutdown and a listener that fails take requests their
\* answers, the last two with status 1 and, with PostgreSQL, never from a handler
\* that holds a connection (run, Shutdown and pgxpool's Close).
THEOREM AnsweredBeforeExit == Spec => NoRequestCutShort
<1>1. IInv /\ HandledOK /\ [Next]_vars => [CutLate]_vars
  BY NextHandled
<1> QED BY <1>1, HandledHolds, IInvHolds, PTL DEF Spec, NoRequestCutShort, CutLate

-----------------------------------------------------------------------------
(* Locks and connections are with somebody who goes on.                    *)

\* The advisory lock is with a start that is gone or migrates.
LockUsed ==
    advisory # None =>
        LET p == advisory.process
        IN  Session(p) = advisory => process[p].step \in Migrating \cup {"down"}

\* A process that leaves its migrations has unlocked or ends.
LEMMA NextLockUsed == IInv /\ LockUsed /\ [Next]_vars => LockUsed'
<1> SUFFICES ASSUME IInv, LockUsed, [Next]_vars PROVE LockUsed'
  OBVIOUS
<1>1. RowsOK /\ AdvisoryOK
  BY DEF IInv, TypeParts
<1>2. ASSUME UNCHANGED advisory, NEW p \in Processes, NEW row,
             process' = [process EXCEPT ![p] = row], row.starts = process[p].starts,
             \/ process[p].step \notin Migrating \cup {"down"}
             \/ row.step \in Migrating \cup {"down"}
      PROVE  LockUsed'
  <2>1. process'[p] = row /\ \A q \in Processes : q # p => process'[q] = process[q]
    BY <1>1, <1>2 DEF RowsOK
  <2> QED BY <1>1, <1>2, <2>1 DEF LockUsed, Session, AdvisoryOK, Sessions
<1>3. ASSUME UNCHANGED advisory, NEW p \in Processes, NEW step, Goto(p, step),
             \/ process[p].step \notin Migrating \cup {"down"}
             \/ step \in Migrating \cup {"down"}
      PROVE  LockUsed'
  <2>1. PICK row : row = [process[p] EXCEPT !.step = step]
    OBVIOUS
  <2>2. row.step = step /\ row.starts = process[p].starts
    BY <1>1, <2>1 DEF RowsOK, ProcessRows
  <2>3. process' = [process EXCEPT ![p] = row]
    BY <1>1, <1>3, <2>1 DEF Goto, RowsOK
  <2> QED BY <1>2, <1>3, <2>2, <2>3
<1>4. ASSUME NEW p \in Processes, NEW exit, Ends(p, exit) PROVE LockUsed'
  <2>1. PICK row : row = [process[p] EXCEPT !.step = "down", !.exit = exit]
    OBVIOUS
  <2>2. row.step = "down" /\ row.starts = process[p].starts
    BY <1>1, <2>1 DEF RowsOK, ProcessRows
  <2>3. process' = [process EXCEPT ![p] = row] /\ UNCHANGED advisory
    BY <1>1, <1>4, <2>1 DEF Ends, RowsOK
  <2> QED BY <1>2, <2>2, <2>3
<1>5. ASSUME NEW p \in Processes, Start(p) PROVE LockUsed'
  <2>1. PICK row : row = [process[p] EXCEPT !.step = "opened", !.next = 1,
                                            !.starts = process[p].starts + 1]
    OBVIOUS
  <2>2. row.starts = process[p].starts + 1 /\ process[p].starts \in Nat
    BY <1>1, <2>1, RowNumbers DEF RowsOK, ProcessRows
  <2>3. process' = [process EXCEPT ![p] = row] /\ UNCHANGED advisory
    BY <1>5, <2>1 DEF Start, database
  <2>4. process'[p] = row /\ \A q \in Processes : q # p => process'[q] = process[q]
    BY <1>1, <2>3 DEF RowsOK
  <2>5. CASE advisory # None /\ advisory.process = p
    <3>1. advisory.start <= process[p].starts /\ advisory.start \in Nat
      BY <1>1, <2>2, <2>5 DEF AdvisoryOK, Sessions
    <3>2. Session(p)'.start # advisory.start
      BY <2>2, <2>4, <3>1 DEF Session
    <3> QED BY <2>3, <2>5, <3>2 DEF LockUsed
  <2>6. CASE ~(advisory # None /\ advisory.process = p)
    BY <1>1, <2>3, <2>4, <2>6 DEF LockUsed, Session, AdvisoryOK, Sessions
  <2> QED BY <2>5, <2>6
<1>6. ASSUME NEW p \in Processes, Prepare(p) PROVE LockUsed'
  <2>1. process'[p].step = "asking"
    BY <1>1, <1>6, MoveFacts DEF Prepare, Steps, Startup
  <2> QED BY <1>6, <2>1 DEF Prepare, LockUsed, Session, Migrating
<1>7. ASSUME NEW p \in Processes, SkipApplied(p) PROVE LockUsed'
  <2>1. PICK row : row = [process[p] EXCEPT !.next = @ + 1]
    OBVIOUS
  <2>2. row.step = "asking" /\ row.starts = process[p].starts
    BY <1>1, <1>7, <2>1 DEF RowsOK, ProcessRows, SkipApplied, At
  <2>3. process' = [process EXCEPT ![p] = row] /\ UNCHANGED advisory
    BY <1>1, <1>7, <2>1 DEF SkipApplied, RowsOK, database
  <2> QED BY <1>2, <2>2, <2>3 DEF Migrating
<1>8. ASSUME NEW p \in Processes, Commit(p) \/ CommitUnheard(p) PROVE LockUsed'
  <2>0. PICK row : /\ process' = [process EXCEPT ![p] = row]
                   /\ \/ row = [process[p] EXCEPT !.step = "asking", !.next = process[p].next + 1]
                      \/ row = [process[p] EXCEPT !.step = "down", !.exit = "failed"]
    BY <1>8 DEF Commit, CommitUnheard
  <2>1. row.step \in {"asking", "down"} /\ row.starts = process[p].starts
    BY <1>1, <2>0 DEF RowsOK, ProcessRows
  <2> QED BY <1>2, <1>8, <2>0, <2>1 DEF Commit, CommitUnheard, Committed, Migrating
<1>9. ASSUME NEW p \in Processes,
             \/ FindMissing(p) \/ Execute(p) \/ Listen(p) \/ ListenerFails(p)
             \/ Signal(p) \/ Drain(p) \/ Deadline(p)
      PROVE  LockUsed'
  BY <1>3, <1>9
  DEF FindMissing, Execute, Listen, ListenerFails, Signal, Drain, Deadline, At, Migrating,
      database
<1>10. ASSUME NEW p \in Processes, FinishMigrating(p) PROVE LockUsed'
  BY <1>10 DEF FinishMigrating, Unlocked, LockUsed
<1>11. ASSUME NEW p \in Processes, ExecuteFails(p) \/ Exit(p) \/ StartupFails(p) \/ Crash(p)
       PROVE  LockUsed'
  BY <1>4, <1>11 DEF ExecuteFails, Exit, StartupFails, Crash
<1>12. CASE SessionEnds
  BY <1>12 DEF SessionEnds, LockUsed
<1>13. ASSUME UNCHANGED <<process, advisory>> PROVE LockUsed'
  BY <1>13 DEF LockUsed, Session
<1>14. ASSUME NEW r \in Requests,
              Borrow(r) \/ Finish(r) \/ \E p \in Processes : Arrive(p, r)
       PROVE  LockUsed'
  BY <1>13, <1>14 DEF Borrow, Finish, Arrive, database
<1>15. ASSUME NEW p \in Processes, ProcessStep(p) PROVE LockUsed'
  BY <1>6, <1>7, <1>8, <1>9, <1>10, <1>11, <1>15 DEF ProcessStep
<1>16. CASE UNCHANGED vars
  BY <1>13, <1>16 DEF vars, database
<1> QED BY <1>5, <1>8, <1>9, <1>11, <1>12, <1>14, <1>15, <1>16 DEF Next

\* Who waits at a start or at an exit waits for one that goes on or is gone, for
\* any number of processes, kills and restarts.
THEOREM NobodyWaitsInVain == Spec => []HoldersGoOn
<1>1. Init => LockUsed
  BY DEF Init, LockUsed
<1>2. Spec => []LockUsed
  BY <1>1, NextLockUsed, IInvHolds, PTL DEF Spec
<1>3. IInv /\ LockUsed /\ HandledOK => HoldersGoOn
  BY DEF IInv, TypeParts, LockUsed, HandledOK, HoldersGoOn, RequestsOK, WriterOK, AdvisoryOK,
         At, Migrating
<1> QED BY <1>2, <1>3, IInvHolds, HandledHolds, PTL
=============================================================================
