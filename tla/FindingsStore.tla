----------------------------- MODULE FindingsStore -----------------------------
(***************************************************************************)
(* The sidecar of external findings (external/store.rs): `ingest-sarif`    *)
(* replaces the rows of each engine its files name, `check`, `analyze` and *)
(* the MCP server read them.  Each process owns its connection: a read-    *)
(* write one takes DuckDB's exclusive lock on the file, a read-only one a  *)
(* shared lock, and a process that dies gives its lock and its uncommitted *)
(* transaction up.                                                         *)
(***************************************************************************)
EXTENDS SarifInputs, FiniteSetsExt

CONSTANTS Ingests, Readers,
          Inputs          \* what an ingest may be called with: sequences of Files

ASSUME StoreAssumption == Inputs \subseteq Seq(Files) /\ Ingests \cap Readers = {}

\* of the parser, on what the ingests are called with
ASSUME BatchAssumption ==
    \A files \in Inputs : \A e \in EnginesOf(files) :
        e \in Engines /\ Batch(files, e) \in Seq({row \in Rows : row.engine = e})

VARIABLES file,     \* of the sidecar: "absent", "tableless" or "table"
          rows,     \* its committed rows
          pc,       \* of every process
          input,    \* the files of an ingest
          left,     \* the engines it has still to replace
          engine, at, tx,   \* the one it is replacing, the findings inserted, its view
          counted, report   \* what a reader has found

writer == <<input, left, engine, at, tx>>
reader == <<counted, report>>
vars == <<file, rows, pc, writer, reader>>

Procs == Ingests \cup Readers
WriterStages == {"schema", "parse", "ingest", "insert"}
ReaderStages == {"opened", "counted"}
Stages == WriterStages \cup ReaderStages \cup {"idle", "exists", "done", "none", "failed"}

\* open connections: the locks on the file
Writing(p) == pc[p] \in WriterStages
\* Mutant: a read-only connection takes no lock
ReadingUnlocked(p) == pc[p] = "opened" /\ pc[p] = "counted"

Reading(p) == pc[p] \in ReaderStages

\* no row yet
NoEngine == "no engine"
NoReport == [p \in {} |-> {}]

Init ==
    /\ file = "absent" /\ rows = {}
    /\ pc = [p \in Procs |-> "idle"]
    /\ input = [w \in Ingests |-> <<>>] /\ left = [w \in Ingests |-> {}]
    /\ engine = [w \in Ingests |-> NoEngine] /\ at = [w \in Ingests |-> 0]
    /\ tx = [w \in Ingests |-> {}]
    /\ counted = [r \in Readers |-> 0] /\ report = [r \in Readers |-> NoReport]

Goto(p, stage) == pc' = [pc EXCEPT ![p] = stage]

\* the end of an ingest, with its connection and its transaction
Close(w, stage) ==
    /\ Goto(w, stage)
    /\ input' = [input EXCEPT ![w] = <<>>] /\ left' = [left EXCEPT ![w] = {}]
    /\ engine' = [engine EXCEPT ![w] = NoEngine] /\ at' = [at EXCEPT ![w] = 0]
    /\ tx' = [tx EXCEPT ![w] = {}]

-----------------------------------------------------------------------------
(* open_or_create: the file, then its table *)

OpenOrCreate(w) ==
    /\ pc[w] = "idle"
    /\ \A p \in Procs : ~Writing(p) /\ ~Reading(p)
    /\ file' = IF file = "absent" THEN "tableless" ELSE file
    /\ \E files \in Inputs : input' = [input EXCEPT ![w] = files]
    /\ Goto(w, "schema")
    /\ UNCHANGED <<rows, left, engine, at, tx, reader>>

\* another connection holds the file, or any other error of opening it
OpenFails(w) ==
    /\ pc[w] = "idle"
    /\ Goto(w, "failed")
    /\ UNCHANGED <<file, rows, writer, reader>>

CreateTable(w) ==
    /\ pc[w] = "schema"
    /\ file' = "table"
    /\ Goto(w, "parse")
    /\ UNCHANGED <<rows, writer, reader>>

\* all the files are parsed before the first engine is replaced
Parse(w) ==
    /\ pc[w] = "parse"
    /\ IF Readable(input[w])
       THEN /\ left' = [left EXCEPT ![w] = EnginesOf(input[w])]
            /\ Goto(w, "ingest")
            /\ UNCHANGED <<input, engine, at, tx>>
       ELSE Close(w, "failed")
    /\ UNCHANGED <<file, rows, reader>>

-----------------------------------------------------------------------------
(* replace_engine: one transaction *)

Delete(w) ==
    /\ pc[w] = "ingest"
    /\ \E e \in left[w] :
          /\ engine' = [engine EXCEPT ![w] = e]
          /\ tx' = [tx EXCEPT ![w] = {r \in rows : r.engine # e}]
          /\ at' = [at EXCEPT ![w] = 0]
    /\ Goto(w, "insert")
    /\ UNCHANGED <<file, rows, input, left, reader>>

\* Mutant: each statement commits by itself
InsertAtOnce(w) ==
    /\ pc[w] = "insert" /\ at[w] < Len(Batch(input[w], engine[w]))
    /\ at' = [at EXCEPT ![w] = @ + 1]
    /\ tx' = [tx EXCEPT ![w] = Upsert(@, Batch(input[w], engine[w])[at'[w]])]
    /\ rows' = tx'[w]
    /\ UNCHANGED <<file, pc, input, left, engine, reader>>

Insert(w) ==
    /\ pc[w] = "insert" /\ at[w] < Len(Batch(input[w], engine[w]))
    /\ at' = [at EXCEPT ![w] = @ + 1]
    /\ tx' = [tx EXCEPT ![w] = Upsert(@, Batch(input[w], engine[w])[at[w] + 1])]
    /\ UNCHANGED <<file, rows, pc, input, left, engine, reader>>

\* Mutant: an engine without findings keeps its rows
CommitUnlessEmpty(w) ==
    /\ pc[w] = "insert" /\ at[w] = Len(Batch(input[w], engine[w]))
    /\ rows' = IF at[w] = 0 THEN rows ELSE tx[w]
    /\ left' = [left EXCEPT ![w] = @ \ {engine[w]}]
    /\ tx' = [tx EXCEPT ![w] = {}] /\ at' = [at EXCEPT ![w] = 0]
    /\ engine' = [engine EXCEPT ![w] = NoEngine]
    /\ Goto(w, "ingest")
    /\ UNCHANGED <<file, input, reader>>

Commit(w) ==
    /\ pc[w] = "insert" /\ at[w] = Len(Batch(input[w], engine[w]))
    /\ rows' = tx[w]
    /\ left' = [left EXCEPT ![w] = @ \ {engine[w]}]
    /\ tx' = [tx EXCEPT ![w] = {}] /\ at' = [at EXCEPT ![w] = 0]
    /\ engine' = [engine EXCEPT ![w] = NoEngine]
    /\ Goto(w, "ingest")
    /\ UNCHANGED <<file, input, reader>>

Finish(w) ==
    /\ pc[w] = "ingest" /\ left[w] = {}
    /\ Close(w, "done")
    /\ UNCHANGED <<file, rows, reader>>

\* any error, or a kill: the connection closes and its transaction is dropped
Break(w) ==
    /\ Writing(w)
    /\ Close(w, "failed")
    /\ UNCHANGED <<file, rows, reader>>

-----------------------------------------------------------------------------
(* A reader: open_nonempty, then findings_by_path on the same connection *)

Exists(r) ==
    /\ pc[r] = "idle"
    /\ Goto(r, IF file = "absent" THEN "none" ELSE "exists")
    /\ UNCHANGED <<file, rows, writer, reader>>

OpenReadOnly(r) ==
    /\ pc[r] = "exists"
    /\ \A p \in Procs : ~Writing(p)
    /\ Goto(r, "opened")
    /\ UNCHANGED <<file, rows, writer, reader>>

\* has_findings_table and count
Count(r) ==
    /\ pc[r] = "opened"
    /\ counted' = [counted EXCEPT ![r] = Cardinality(rows)]
    /\ Goto(r, IF file # "table" \/ rows = {} THEN "none" ELSE "counted")
    /\ UNCHANGED <<file, rows, writer, report>>

rank(level) == CASE level = "error" -> 2 [] level = "warning" -> 1 [] OTHER -> 0

\* the rows of one path: which engines, how many, and how bad the worst is
findings_by_path(rs) ==
    [p \in {r.path : r \in rs} |->
        LET of == {r \in rs : r.path = p} IN
        [engines |-> {r.engine : r \in of}, count |-> Cardinality(of),
         worst |-> CHOOSE n \in 0 .. 2 : /\ \E r \in of : rank(r.level) = n
                                         /\ \A r \in of : rank(r.level) <= n]]

FindingsByPath(r) ==
    /\ pc[r] = "counted"
    /\ report' = [report EXCEPT ![r] = findings_by_path(rows)]
    /\ Goto(r, "done")
    /\ UNCHANGED <<file, rows, writer, counted>>

\* any error: an ingest holds the file, it cannot be opened, or the probe or a
\* query of it fails
ReadFails(r) ==
    /\ pc[r] \in {"exists", "opened", "counted"}
    /\ Goto(r, "failed")
    /\ UNCHANGED <<file, rows, writer, reader>>

-----------------------------------------------------------------------------
\* the next command in the same repository
IngestAgain(w) ==
    /\ pc[w] \in {"done", "failed"}
    /\ Goto(w, "idle")
    /\ UNCHANGED <<file, rows, writer, reader>>

ReadAgain(r) ==
    /\ pc[r] \in {"done", "none", "failed"}
    /\ Goto(r, "idle")
    /\ counted' = [counted EXCEPT ![r] = 0]
    /\ report' = [report EXCEPT ![r] = NoReport]
    /\ UNCHANGED <<file, rows, writer>>

Ingest(w) ==
    \/ OpenOrCreate(w) \/ OpenFails(w) \/ CreateTable(w) \/ Parse(w)
    \/ Delete(w) \/ Insert(w) \/ Commit(w) \/ Finish(w) \/ Break(w)

Read(r) ==
    Exists(r) \/ OpenReadOnly(r) \/ Count(r) \/ FindingsByPath(r) \/ ReadFails(r)

Next ==
    \/ \E w \in Ingests : Ingest(w) \/ IngestAgain(w)
    \/ \E r \in Readers : Read(r) \/ ReadAgain(r)

Spec == Init /\ [][Next]_vars

-----------------------------------------------------------------------------
(* Properties.                                                             *)

EngineRows(rs, e) == {r \in rs : r.engine = e}

\* Types, and the table's primary key: a finding is stored once per engine and
\* fingerprint whatever the scanner repeats (store.rs, CREATE TABLE).
TypeOK ==
    /\ file \in {"absent", "tableless", "table"}
    /\ rows \subseteq Rows
    /\ \A a, b \in rows : SameKey(a, b) => a = b
    /\ pc \in [Procs -> Stages]
    /\ input \in [Ingests -> Inputs \cup {<<>>}]
    /\ left \in [Ingests -> SUBSET Engines]
    /\ engine \in [Ingests -> Engines \cup {NoEngine}]
    /\ at \in [Ingests -> Nat]
    /\ tx \in [Ingests -> SUBSET Rows]
    /\ counted \in [Readers -> Nat]

\* The rows of an engine change at once into one whole ingest's findings of it,
\* from documents that could be read (replace_engine: a mid-loop kill never
\* leaves rows deleted without replacement; sarif_parse.rs: an unreadable
\* document is never a clean scan).
ReplacesWholeEngines ==
    [][\A e \in Engines :
         EngineRows(rows', e) # EngineRows(rows, e) =>
            \E w \in Ingests :
                /\ Readable(input[w]) /\ e \in EnginesOf(input[w])
                /\ EngineRows(rows', e) = Stored(Batch(input[w], e))]_vars

\* An ingest that succeeds has stored what it read of every engine it read
\* about: a clean re-scan clears the stale rows of its engine, and two files of
\* one engine are combined (main.rs, run_ingest_sarif_cmd).
IngestedMeansStored ==
    \A w \in Ingests : pc[w] \in {"ingest", "insert"} =>
        \A e \in EnginesOf(input[w]) \ left[w] :
            EngineRows(rows, e) = Stored(Batch(input[w], e))

\* A reader's report is of the table it found not empty, though an ingest may
\* want to begin between its two queries: its counts per path add up to what it
\* had counted (store.rs, open_nonempty's shared lock, findings_by_path).
ReportAddsUp ==
    \A r \in Readers : pc[r] = "done" =>
        /\ counted[r] > 0
        /\ counted[r] = MapThenSumSet(LAMBDA p : report[r][p].count, DOMAIN report[r])
================================================================================
