------------------------------ MODULE SarifInputs ------------------------------
(***************************************************************************)
(* What `codelore ingest-sarif` takes from its files: the findings of each *)
(* run (external/sarif_parse.rs), grouped by engine (external/mod.rs), and *)
(* an empty batch for every engine that ran and flagged nothing.           *)
(*                                                                         *)
(* A file is [readable, runs]; a run is [engine, results]; a result is a   *)
(* record of what the parser looks at, with None for what is absent.       *)
(***************************************************************************)
EXTENDS Integers, FiniteSets, SequencesExt

CONSTANTS Engines, Paths, Lines, Prints, None, Files

Levels == {"error", "warning", "note", "none"}

\* a result as the document has it
Results == [path : Paths \cup {None},             \* its first location
            line : Lines \cup {None},
            rule : {"named", "indexed", "dangling", "absent"},
            level : Levels \cup {None, "other"},  \* its own
            default : Levels \cup {None, "other"},    \* its rule's
            whole : Prints \cup {None},           \* in fingerprints
            line_hash : Prints \cup {None},       \* primaryLocationLineHash
            part : Prints \cup {None}]            \* another partial fingerprint

SarifRuns == [engine : Engines, results : Seq(Results)]

ASSUME SarifAssumption ==
    /\ IsFiniteSet(Engines) /\ None \notin Paths \cup Prints \cup {"other"} \cup Levels
    /\ \A f \in Files : f.readable \in BOOLEAN /\ f.runs \in Seq(SarifRuns)

\* a result without a location, or whose ruleIndex leads nowhere, is skipped
Parses(result) == result.path # None /\ result.rule # "dangling"

normalize_level(level) == IF level = "other" THEN "warning" ELSE level

\* only a result whose rule has an id can take the level of its rule
resolve_level(result) ==
    IF result.level # None THEN normalize_level(result.level)
    ELSE IF result.default # None /\ result.rule # "absent" THEN normalize_level(result.default)
    ELSE "warning"

\* the hash of engine, rule, path and line when the tool names no identity
SelfHash(result) == <<"hash", result.rule, result.path, result.line>>

Named(print) == <<"print", print>>

resolve_fingerprint(result) ==
    IF result.whole # None THEN Named(result.whole)
    ELSE IF result.line_hash # None THEN Named(result.line_hash)
    ELSE IF result.part # None THEN Named(result.part)
    ELSE SelfHash(result)

Identities ==
    ({"print"} \X Prints)
    \cup ({"hash"} \X {"named", "indexed", "absent"} \X Paths \X (Lines \cup {None}))

\* a row of the table, keyed by engine and fingerprint
Row(e, result) == [engine |-> e, print |-> resolve_fingerprint(result),
                   path |-> result.path, level |-> resolve_level(result)]

Rows == [engine : Engines, print : Identities, path : Paths, level : Levels]

-----------------------------------------------------------------------------
RunsOf(files) == FlattenSeq([i \in DOMAIN files |-> files[i].runs])

Readable(files) == \A i \in DOMAIN files : files[i].readable

EnginesOf(files) == {RunsOf(files)[i].engine : i \in DOMAIN RunsOf(files)}

\* the rows of one engine in document order, over all the files
Batch(files, e) ==
    LET runs == RunsOf(files)
        RowsOf(run) == IF run.engine = e
                       THEN LET parsed == SelectSeq(run.results, Parses) IN
                            [i \in DOMAIN parsed |-> Row(e, parsed[i])]
                       ELSE <<>>
    IN FlattenSeq([i \in DOMAIN runs |-> RowsOf(runs[i])])

\* the primary key
SameKey(a, b) == a.engine = b.engine /\ a.print = b.print

\* Mutant: plain INSERT into a table without the key
InsertPlain(rows, row) == rows \cup {row}

\* INSERT .. ON CONFLICT (engine, fingerprint) DO UPDATE
Upsert(rows, row) == {r \in rows : ~SameKey(r, row)} \cup {row}

\* what a batch comes to: of the findings with one identity, the last
Stored(batch) ==
    {batch[i] : i \in {i \in DOMAIN batch :
                         \A j \in DOMAIN batch : j > i => ~SameKey(batch[i], batch[j])}}
===============================================================================
