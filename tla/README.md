# CodeLore in TLA+

CodeLore mines a git history into a DuckDB *fact store*, caches that store under
the user's cache directory, and answers some sixty analyses from it: on the command
line, in CI gates, and from a long-lived MCP server. This directory holds TLA+
models of the parts whose correctness depends on order, on concurrency or on what
fails in between, the TLC configurations that check them on small instances, and
TLAPS proofs of their main theorems for instances of every size.

Paths below are relative to `src/crates/codelore-lib/src/` (**lib**) or
`src/crates/codelore-cli/src/` (**cli**). `PROJECT.json` maps every definition to
its source lines, names a mutant for every property, and lists the hazards.

## 1. The system

```
            cli (analyze, check, diff, ...)          MCP server (cli/mcp.rs)
                     |                                result memo, permits
                     +------------------+------------------+
                                        v
                 fact-store cache   (facts/mod.rs, cache.rs; many processes)
                     | miss             | hit
                     v                  v
      ingest: walker -> producer -> consumer -> appenders -> HEAD-time passes
      (repo/gix_repo)   (facts/ingest/mod.rs)   (consumer.rs)  current_head_rev,
                                                               query_live_paths
                                        v
              rename lineage, groups, buckets   (facts/ingest/lineage.rs, grouping.rs)
                                        v
                 analyses (SQL) -> reports
                                   check, gate -> ledger, ratchet baseline
                                   gate -> change-set sidecar <- working tree, index, HEAD
                                   ingest-sarif -> findings sidecar -> check, analyze
                                   explain, explain_file <-> narrative files
```

| Component | State | Operations | What is hard | What makes it correct |
|---|---|---|---|---|
| Commit-walk ingest pipeline (`facts/ingest/mod.rs`, `repo/gix_repo`) | three threads, two bounded channels, the `commits` table | map a chunk, send, forward, append, flush, join, HEAD-time passes | threads blocked on full channels; errors and panics in any of them; end of stream after a failure looks like end of walk | rows are the walk in order; a truncated walk never succeeds; every thread ends |
| Row appenders and foreign-key guard (`facts/ingest/consumer.rs`) | three tables, their buffers, two counters | append a commit / change / hunk, the guard, the final drain | a buffer writes itself at 204,800 rows, before its parents may be written | a child write finds its parents; a drain loses nothing |
| Fact-store cache (`facts/mod.rs`, `cache.rs`) | entries, temporary files, directories and their mtimes, HEAD, the clock | key, hit, discard, ingest, publish, prune per repository, prune globally, sweep, re-open | processes without a lock; HEAD moving; kill and power loss; damage; coarse mtimes | no torn entry; an entry describes its key; caps hold; damage heals |
| History to facts (`repo/gix_repo`, `facts/ingest/mod.rs`) | the commit graph, the walk's queue and seen set, rows | walk, classify changes, `current_head_rev`, `query_live_paths` | merges, several roots, same-second and backwards dates, renames | one row per reachable commit; HEAD and HEAD's files found from rows alone |
| MCP server (`cli/mcp.rs`) | permits, result memo and its HEAD, calls in flight | admit, probe, resolve, get, compute, put | state read before a compute and used after it; a shared map; failing calls | an answer describes its own HEAD; the memo is bounded; every call answered |
| Quality-gate ledger (`quality_gates/ledger.rs`) | a JSON-lines file | append one record, read all | a crash in the middle of an append | one torn line loses one record only |
| Ratchet and check (`quality_gates/ratchet.rs`, `evaluators.rs`, `cli/check.rs`, `cli/gate.rs`) | a run's records, violations and exit; the baseline file | evaluate, append to the ledger, apply the policies, emit; read, compare, tighten, publish | four exit paths, each with its own order of these; records degraded after their violations; concurrent runs and edits of the baseline; a failing rename that deletes its target | nothing goes green unjudged; a torn baseline is never published; a ratchet that passes only tightens what it read |
| External findings (`external/`) | a sidecar database | parse and group SARIF, replace the findings of one engine in a transaction, probe, count, report | concurrent ingests and readers under DuckDB's file lock; a kill inside a transaction; a file without its table | findings change one whole engine at a time; a report adds up |
| Enrichment (`enrichment/`, `cli/explain.rs`) | narrative files, one per key | narrate (hit, complete, check citations, write in place), note staleness | torn and overwritten files; verdicts of another binary's check; siblings with one sheet; a question that reads sheet, directory and files at different moments | a narrative shown is the call's; the note names a real change |
| Path lineage, bucketing, grouping (`facts/ingest/lineage.rs`, `grouping.rs`, `facts/groups.rs`) | rename epochs, `changes` and `hunks` rewritten in place, derived tables and their built flags | canonicalise, bucket, group, invalidate | chains, cycles, re-used names, equal dates; a flag that outlives its table | one path per change; a file's history under its latest name; no stale derived table |
| HEAD-time passes (`complexity_head.rs`, `imports_head.rs`, `clones_head.rs`, `coverage.rs`) | scan outcomes | scan the live paths | denominators, degraded verdict | every live path is accounted for once |
| Imports, dependency cycles (`imports/`, `facts/ingest/imports_head.rs`, `analyses/import_graph.rs`) | import rows, the graph | resolve, strongly connected components | which of several files a name means; order of the depth-first search | cyclic files are those on cycles |
| Defect calibration (`defect_calibration/`) | - | SZZ, regression, validation | pure, floating point | SZZ blames only earlier commits |
| Git CLI backend (`repo/git_cli_repo/`) | subprocess | the `Repo` trait by parsing `git` | parsing | agrees with the gix backend |
| Working-tree change set (`change_set.rs`, `cli/gate.rs`, `gate_changes`) | HEAD, index and disk; a report per key | enumerate, key, look up, project, rebuild the graph, write in place | the user edits and commits between any two reads; rows of HEAD spliced with rows of the disk | a report is of the tree of its call; newly cyclic files are found |
| Identity, analyses, clones, complexity, outputs, command line | - | string matching, SQL, syntax trees, formatting | data, not control | - |

## 2. What is modelled, and how

| Module | Models | Composes |
|---|---|---|
| `CommitLog` | abstract: an append-only log that closes as ok only when whole | |
| `IngestPipeline` | the three threads of an ingest | implements `CommitLog` |
| `AppenderFlush` | the appenders and the guard | |
| `IngestProofs` | the theorems of both | extends `IngestPipeline`, `AppenderFlush` |
| `FactStoreCache`, `MCFactStoreCache` | runs of `open_or_ingest` and of the prunes | |
| `FactStoreCacheProofs` | its theorems | extends `FactStoreCache` |
| `HistoryFacts` | graph, walk, change rows, the two queries | |
| `HistoryFactsProofs` | its theorems | extends `HistoryFacts` |
| `McpMemo`, `MCMcpMemo` | tool calls and the result memo | |
| `McpMemoProofs` | its theorems | extends `McpMemo` |
| `GateVerdicts` | the gates' verdicts and the ratchet's comparison, as operators | |
| `CheckRuns`, `MCCheckRuns` | runs of `check`, `check --ratchet` and `gate` | extends `GateVerdicts` |
| `CheckRunsProofs` | its theorems | extends `CheckRuns` |
| `SarifInputs` | SARIF documents to batches of findings | |
| `FindingsStore` | ingests and readers of the findings sidecar | extends `SarifInputs` |
| `NarrativeKeys` | keys, sheets and citations | |
| `NarrativeCache` | narrators and askers over the narrative files | extends `NarrativeKeys` |
| `Sidecars`, `MCSidecars` | both sidecars of one cache directory | extends `FindingsStore`, `NarrativeCache` |
| `SidecarsProofs` | the theorems of both, for the composition | extends `Sidecars` |
| `ChangeTables`, `MCChangeTables` | history, lineage, buckets, grouping and their guards | |
| `ChangeTablesProofs` | its theorems | extends `ChangeTables` |
| `ImportGraph` | import rows, the graph, Tarjan's components | |
| `WorkingTree` | the changes between HEAD, index and disk | extends `ImportGraph` |
| `ChangeSet`, `MCChangeSet` | gates over a tree that a user edits | extends `WorkingTree` |
| `ChangeSetProofs` | its theorems, and that the search for cycles is right | extends `ChangeSet` |

### IngestPipeline

`walkerPc`, `producerPc` and `consumerPc` are the three threads' places in
`GixRepo::walk_commits`, the producer closure of `FactsDb::ingest` and
`ingest_loop` / `ingest`. `wchan` and `chan` are the two `sync_channel`s;
`StreamAlive` and `ReceiverAlive` say when their receivers exist, which is what
lets a blocked sender fail instead of waiting for ever. `commit` fixes for each
commit of the walk what `process_commit_oid` makes of it: an event, a filtered
commit, an error or a panic of a rayon worker. One action stands for one blocking
or visible step: mapping a chunk (ok, error, panic), skipping, sending, giving up on
a dropped receiver, forwarding, appending, flushing, joining, leaving the scope by
a `?`, one HEAD-time pass.

Data left out: the contents of an event, the order inside the parallel map (its
`collect` hides it), and, within a pass, what it reads.

`CommitLog` says what all this is for: rows appear one by one along the walk with
none left out, and the log closes as ok only over a wholly readable, wholly stored
history. `Log == INSTANCE CommitLog WITH log <- rows, status <- status` is the
refinement mapping; `status` is computed from `outcome`.

### AppenderFlush

One commit, change or hunk per action, with the guard (`crosses_chunk_boundary`) and
the appender's own write at `Threshold` rows inside the action, in the code's order.
DuckDB's appender is external: a buffer that is written whole when it is full or
flushed, and whose write fails when a row references a parent that is not in the
table. `drain` names the table whose write failed. The step of one row is `append_commit`,
`append_change` or `append_hunk`, the end of the stream `flush_all`.

### FactStoreCache

Processes `Runs` call `open_or_ingest_with_cache_root`; `invoked` gives each its
repository and options. There is no lock between them, so every file-system call is
one action: look, open, discard, create the directory, create the temporary file,
flush, sync, rename, list for a prune, delete one file, sweep, remove empty
directories, re-open. HEAD is read three times (for the key, by the walk and by the
HEAD-time passes), as in the code. A file's state says whether its bytes would
survive (`part`, `flushed`, `synced`, `lost`, `damaged`); the environment moves HEAD,
ticks the clock (mtimes are whole ticks, so ties happen), kills a run, loses power,
or damages a file. `moved` records whether HEAD moved under the run that wrote a
file: the properties use it, no action does.

### HistoryFacts

Commits are added in any order git allows, with any author date and any tree; merges
carry no changes because `changed_files_for_commit` returns none for them. `Visit` is
one step of gix's breadth-first `rev_walk` with its `seen` set. `current_head_rev` and
`query_live_paths` are the two SQL queries, ordering included.

### McpMemo

A call waits for a permit, probes the calibration artifact, resolves HEAD, asks the
memo, and on a miss opens the fact store (which resolves HEAD again), analyses (which
reads the artifact) and stores. `get` and `put` are single steps, because the lock is
held for exactly one of them. Any call may fail or panic at its fallible steps.

### GateVerdicts and CheckRuns

A *reading* is one evaluation of the whole repository: for every gate a value or none,
whether the scans behind it were degraded, and whether the change set still has changes
once its report is made (without any, its gates but the delta are skipped). `GateVerdicts`
turns it into records and violations as `evaluate_all_gates` and `evaluate_gate_thresholds` do, including
that a record is degraded after its violation was collected. `CheckRuns` is the rest of
a run, in its order: evaluate, append a record per gate (one write each, torn by a kill
or a failing write), apply `fail_on_skipped`, emit, exit; for the ratchet read the
baseline, compare, and initialize or tighten it through `atomic_publish`: unlink,
create, fill, rename; and when that rename fails, *whatever the error*, remove the target
if there is one and rename once more (`RenameFails`, `RemoveTarget`, `Rename`, `GiveUp`).
Readings are chosen freely at every evaluation: what the gates measure is not modelled. The
environment kills runs, fails writes, renames and removals, and edits the baseline.

### SarifInputs and FindingsStore

`SarifInputs` keeps of a SARIF result what the parser's branches look at: location, line,
whether the rule is named, level and default level, the three identities. `Batch` is what
one engine's results come to over all the files of a command; an engine that ran and
found nothing has an empty batch. `FindingsStore` runs ingests and readers over one
sidecar: schema, parse, then per engine a transaction of a delete and one upsert per
finding. DuckDB's lock (one read-write connection, or several read-only ones) and its
transactions are external; a kill gives both back. A reader may fail at every call it
makes (the open, the probe for the table, the count, the report), for whatever reason: a
corrupt file, permissions, a lock. Which error it is, is not told apart.

### NarrativeKeys and NarrativeCache

A *sheet* stands for the canonical text of a fact sheet, which does not name its file.
A narrator looks its key up (a torn file is a miss), or asks the model, checks the
citations, and writes in place: truncate, then the bytes, over what another has written
meanwhile. The verdict is computed anew by every binary that serves an entry. An asker
prints the sheet of now, lists the directory (at one moment), reads the files listed one
after the other, each as it is by then, and notes when the newest narrative of its file is of
another sheet than it printed: narrators write, and evidence changes, between any two of these.

### Sidecars

Both stores of a repository's cache directory. They share no file, so the processes of
an execution are those of one *scene* (see the run).

### ChangeTables

A linear history is committed first, with any dates, renames and re-used names; then
`Ingest` writes `changes` and `hunks`, and the analyses and the grouping happen in any
order. `path_lineage` is the recursive query: an epoch of a name ends with a rename away
from it, and a chain is followed up to `MaxDepth` renames (50 in the code). `Grouped` is
the rewrite of `apply_grouping`, `Survives` the hunks that keep their change. Every
derived table has its built flag, and `invalidate_changes_derived` resets them.
Commits stand for positions of the walk, so that `Newer` is the query's order: date,
then rowid backwards.

### ImportGraph, WorkingTree and ChangeSet

A tree is a function from paths to contents, a content the names it imports and a body.
`resolve` takes the first live file of those a name may mean. `tarjan_scc` is the
code's loop step by step (`Advance`: visit a file, look at one child, leave), with its numbers,
its two stacks and what each file has left to look at; which file or child is next is left
open. Files are numbered from 1, so that 0 is `UNSET`. `worktree_changes` merges the staged and
the unstaged stream; which renames git pairs is chosen freely. `ChangeSet` adds a user
(write, delete, `git add`, `git commit`) and gates: `gate` opens the facts before it looks
for changes, `gate_changes` after. Then each read is a step: HEAD, the changes, the key's
contents, the sidecar, the projection (with the one walk for clones), the graph, the
write. Every step reads HEAD, index and disk as they are then. `moved` records that the
user did something meanwhile; a report stored keeps that, and the untracked files of its
moment, for the properties only.

## 3. The runs

Every run finishes in at most about two and a half minutes on two workers.
`CHECK_DEADLOCK FALSE` is set everywhere because all of these systems stop: an ingest returns, a stream of rows
ends, processes exit, calls are answered.

| Run | Checks | Bounds, and why they are enough |
|---|---|---|
| `pipeline` | types; `RowsAreWalkPrefix`; `NoPartialSuccess`; `Terminates`; `ImplementsCommitLog` | 4 commits of every kind, 2 chunks of 2, both channels of capacity 1 (so both fill), 2 passes: every thread can block, fail or panic before and after every other. The theorems remove the bounds for all but `Terminates`. |
| `flush` | types; `GuardedWritesFindTheirParents`; `DoneMeansAllWritten` | cadence 2 and threshold 4, 3 commits, 6 changes, 6 hunks: both guards run three times, both child buffers fill on their own. The theorems remove the bounds. |
| `flush_comment` | `ChildWritesFindTheirParents`, **violated** | see finding 1 |
| `cache_safety` | types; `NoTornEntry`; `ServedDescribesHead`; `CapsHold` | 2 runs over 2 repositories, 2 commits and 2 option sets, all caps 1, one HEAD move, one tick and one kill, power loss or damage: same key, same directory and separate directories all occur, every prune evicts, and a temporary file grows stale under its own run. Symmetric in repositories, commits and option sets, which no action orders. |
| `cache_heal` | `DamageHeals` under fairness | 2 runs, 2 option sets, one damage, the clock ticking once; one only, because a file damaged again after it healed is damaged, and no promise; no symmetry (it is a liveness property) |
| `history` | types; `WalkStoresEachCommitOnce`; `HeadRevIsHead`; `LinearScanIsComplete` | every graph of up to 4 commits (a diamond needs 4), 2 author dates (equal, earlier and later occur), trees that hold no file or one of two (additions, deletions, re-additions, renames), merges kept or filtered |
| `memo` | types, permits and the bound; `AnswerDescribesItsCall`; `EveryCallIsAnswered` | 2 calls with one question, 1 that bypasses the memo, 2 permits, a memo of 1 entry, 2 changes (HEAD can leave and return; the artifact can change between two calls with the same question, which makes two keys) |
| `check` | types; `GreenMeansJudged`; `BaselineIsWhole`; `TearCostsOneRecord`; `TightensWhatItRead` | 2 runs: two ratchets, a check and a ratchet, a check and a `gate`; each gate that has a branch of its own (health, cycles, percentile, delta, new cycles) alone under the policies that concern it, and no gate at all; two ratchets, which look at no policy, under one configuration of a kind (`MCSpec`); values 0 and 1 around the threshold; one mishap (a kill, or a failing write, rename or removal: a rename that fails on a file system that does not replace needs none), one edit. Gates do not depend on one another, so one at a time is enough for a verdict; the theorems take any set of them. |
| `sidecars` | types of both stores; `IngestedMeansStored`; `ReplacesWholeEngines`; `ReportAddsUp`; `ServedIsOfTheCall`; `NoteNamesARealChange` | scenes: two ingests and a reader (lost updates), an ingest and two readers (shared locks), two narrators of any kind, two narrators of one model and an asker; four documents: two engines with a repeated finding, a clean one, a small one and an unreadable one; two files with two sheets, short and long narratives, two models, two citation checks |
| `lineage` | types; `LineageFollowsTheFile`; `OneImagePerRow`; `DerivedTablesAreFresh`; `HunksKeepTheirChange` | every history of 4 commits and 4 changes over 3 paths and 2 dates (a chain of two renames with its first name re-used, swaps, backward dates), two group files, a bucket per date; `MaxDepth` 2, so that some chains of renames are longer than what the query follows, and the property says of which files it promises nothing |
| `lineage_recycled` | `RenamedFilesAreFollowed`, **violated** | 5 commits of one date; see finding 2 |
| `gate` | types; `NewlyCyclicAreFound`; `ReportDescribesTheTree` | 3 files, `b` named before `b/index`; all 125 x 125 pairs of HEAD and a staged working tree for the graph, 1,728 triples where HEAD, index and disk differ, and two gates under a user with two edits (a change in the middle of a gate, and one undone between two) |

Counters that the code leaves unbounded are bounded by `NumOids`, `MaxCommits`,
`MaxChanges`, `MaxHunks`, `MaxClock`, `MaxMoves`, `MaxMishaps`, `MaxEdits`, `MaxTime` and
the `edits` of a start of `ChangeSet`, always in a guard of the
action that increments them.

### Fairness

* `IngestPipeline`: weak fairness of each of the three threads as a whole. They are
  operating-system threads, each blocked only while none of its actions is enabled,
  and each step's alternatives (ok, error, panic) are free.
* `FactStoreCache`: weak fairness of each run; none of kills, clock or HEAD. A killed
  run has no action, so fairness asks nothing of it.
* `McpMemo`: weak fairness of each call that waits or runs; the request itself and
  the changes of the repository are free. `Semaphore::acquire` is first come, first
  served, so a waiting call needs no strong fairness: `waiting` is a queue.

## 4. What the properties say

* `RowsAreWalkPrefix`: `current_head_rev` and `query_live_paths` break same-second ties by
  `rowid`, so rows must land in walk order although commits are mapped in parallel and
  cross two channels.
* `NoPartialSuccess`: `WalkerStream::next` meets the same closed channel after a walk that
  finished and one that panicked; only the join tells them apart, and a mistake caches
  a truncated history for good.
* `Terminates`: the consumer may leave while the producer is blocked on a full
  channel, which is itself waited for by the scope, and the walker behind it is never
  joined.
* `GuardedWritesFindTheirParents`: the part of the guards' promise that holds (finding 1
  is the rest); `DoneMeansAllWritten`: the drain loses no row.
* `NoTornEntry`: what is at an entry's name was synced before the rename, whatever
  kills, power losses and runs with the same key do.
* `ServedDescribesHead`: what a run is given describes the HEAD it resolved, unless HEAD
  moved during the ingest that wrote it (section 6 says what happens then).
* `CapsHold`: concurrent prunes, each from its own stale listing,
  leave no more than the cap and the entries of runs that have not pruned yet.
* `DamageHeals`: a run that meets a damaged entry ends, does not fail on it, and leaves none
  behind. A run whose own entry is evicted meanwhile counts as ended (section 6).
* `WalkStoresEachCommitOnce`, `HeadRevIsHead`, `LinearScanIsComplete`: from the graph to
  the rows, and from the rows back to HEAD and its files. The last two carry the
  premise that makes them true, that no commit is dated before its parent.
* `AnswerDescribesItsCall`, `EveryCallIsAnswered`, and the bound in `TypeOK`: the memo
  under calls that miss, move its scope and store in any order.
* `GreenMeansJudged`: `README.md`'s "a gate must not go green on blindness", over early
  returns, skips, degradations and the two policies, at every exit of `check` and `gate`. The
  exits of `check --ratchet` are not meant: it passes on a comparison, not on verdicts.
* `BaselineIsWhole`, `TightensWhatItRead`: the committed baseline under concurrent
  ratchets, kills, failing writes and renames, and hand edits. A ratchet that passes leaves a
  baseline that forbids all that the one it read forbade; one that does not pass leaves the
  file as it found it, *or none*: a failing rename may delete it (section 6).
  `TearCostsOneRecord`: the ledger's write contract.
* `ReplacesWholeEngines`, `IngestedMeansStored`: no kill, no second ingest and no
  unreadable document leaves an engine's findings half replaced, or stale after a clean
  scan. `ReportAddsUp`: readers between the steps of an ingest.
* `ServedIsOfTheCall`, `NoteNamesARealChange`: narrative files that are written in place,
  by binaries and models that differ, for files whose evidence may be the same. The note
  compares a sheet printed earlier with files listed and read later; it is never printed for
  a file whose evidence did not change, whatever happens in between.
* `LineageFollowsTheFile`: where a file owns the names it took, and took no more of them
  than the query follows, all of its changes count under its latest one, whoever had the
  first name before or after. `OneImagePerRow`: with
  any dates, the epochs of a name are disjoint. `DerivedTablesAreFresh`,
  `HunksKeepTheirChange`: the rewrite of two tables under views already built from them.
* `NewlyCyclicAreFound`: the graph spliced from HEAD's rows and the disk's has the newly
  cyclic files of an ingest of the whole tree. Two premises say where it does not: no
  import of an unchanged file now means another file, no renamed file is back.
* `ReportDescribesTheTree`: whatever is edited, added, reverted or committed between two
  gates, the key moves with every difference that matters. Its premises: nothing moved
  under the gate that measured, and the untracked files are those of then.

`ChildWritesFindTheirParents` and `RenamedFilesAreFollowed` are what a comment or a document
promises and the code does not keep (section 6).

Every property of a passing run has a mutant: a plausible bug of the mapped code under which
the same run finds the property violated.

## 5. What is proved

The eight `...Proofs` modules, checked by TLAPS to the last leaf. The only assumptions are
the modules' own: sizes and capacities are positive naturals, bounds are naturals, and
the constants that are functions have their types. `Runs`, `Calls`, `Shas` and the like
may be any sets. `FindingsStore` assumes of the parser that a batch holds rows of its own
engine (`BatchAssumption`: `Batch` is a fold, whose value for every input would need
induction over data); TLC evaluates it on the instance.

| Theorem | States |
|---|---|
| `IngestProofs!TypeCorrect` | `Spec => []TypeOK` |
| `RowsInWalkOrder` | `Spec => []RowsAreWalkPrefix` |
| `NeverPartial` | `Spec => []NoPartialSuccess` |
| `PipelineImplementsLog` | `Spec => ImplementsCommitLog` |
| `AppendersTypeCorrect` | `AppendersSpec => []AppendersTypeOK` |
| `GuardedWritesSafe` | `AppendersSpec => []GuardedWritesFindTheirParents` |
| `NothingLost` | `AppendersSpec => []DoneMeansAllWritten` |
| `FactStoreCacheProofs!TypeCorrect` | `Spec => []TypeOK` |
| `EntriesNeverTorn` | `Spec => []NoTornEntry` |
| `ServedIsOfHead` | `Spec => []ServedDescribesHead` |
| `CapsRespected` | `Spec => []CapsHold` |
| `HistoryFactsProofs!TypeCorrect` | `Spec => []TypeOK` |
| `StoredOnce` | `Spec => []WalkStoresEachCommitOnce` |
| `HeadFound` | `Spec => []HeadRevIsHead` |
| `ScanComplete` | `Spec => []LinearScanIsComplete` |
| `McpMemoProofs!TypeCorrect` | `Spec => []TypeOK` (with the permits and the bound) |
| `AnswersDescribe` | `Spec => []AnswerDescribesItsCall` |
| `CheckRunsProofs!TypeCorrect` | `Spec => []TypeOK` |
| `Green` | `Spec => []GreenMeansJudged` |
| `BaselineWhole` | `Spec => []BaselineIsWhole` |
| `Tightens` | `Spec => TightensWhatItRead` |
| `TearsAreCheap` | `Spec => []TearCostsOneRecord` |
| `SidecarsProofs!Components` | `SidecarsSpec => Spec /\ NarrativesSpec` |
| `TypesCorrect` | `SidecarsSpec => []TypesOK` |
| `IngestedStored` | `SidecarsSpec => []IngestedMeansStored` |
| `WholeEngines` | `SidecarsSpec => ReplacesWholeEngines` |
| `ReportWhole` | `SidecarsSpec => []ReportAddsUp` |
| `Served` | `SidecarsSpec => []ServedIsOfTheCall` |
| `NoteReal` | `SidecarsSpec => []NoteNamesARealChange` |
| `ChangeTablesProofs!TypeCorrect` | `Spec => []TypeOK` |
| `HunksKept` | `Spec => []HunksKeepTheirChange` |
| `DerivedTablesFresh` | `Spec => []DerivedTablesAreFresh` |
| `OneImage` | `Spec => []OneImagePerRow` |
| `LineageFollows` | `Spec => []LineageFollowsTheFile` |
| `ChangeSetProofs!CyclesFound` | `cyclic_paths` of any import graph: the files that reach another file and are reached from it |
| `ChangeSetProofs!TypeCorrect` | `Spec => []TypeOK` |
| `NewlyCyclicFound` | `Spec => NewlyCyclicAreFound` |
| `ReportDescribes` | `Spec => ReportDescribesTheTree` |

**The pipeline's argument.** `RowsAreWalkPrefix` is not inductive: the next row depends on
what the channels hold. `PipeInv` strengthens it: what lies between the table and the
walker's position (commit channel, the producer's hand, walker channel) is one *chain*,
each event the next surviving commit after the one before it (`ChainInv`); the walker
passed only readable commits and leaves an error behind when it stops early
(`WalkerInv`); the three program counters can only stand in certain places together
(`ControlInv`); and a producer that ended well has forwarded the whole walk (`EndInv`).
Chains are stated item by item rather than as a filtered sequence, so no induction over
sequences is needed. The refinement follows from the same invariant: an append is
`Extend`, a good return is `Succeed`, every other return is `Fail`, and every other step
stutters.

**The guard's argument.** `FlushInv` keeps the number of appended hunks equal to whole
thresholds plus what is buffered. So the row that fills the buffer stands on a chunk
boundary, the guard has just flushed both parents, and the buffer's references are all
in the table. For changes the same holds only until the hunk guard first flushes them,
hence the premise of the second half; finding 1 is the rest. `NothingLost` needs
`StreamInv`: every row appended is in its table or in its buffer, whoever flushes it, and
a drain that ended well left the three buffers empty.

**The cache's arguments.** `NoTornEntry` speaks of entries; what makes it inductive is a
statement about temporary files (`FileInv`): the name carries the run, so only its owner
ever writes one, and it has been flushed when its owner is about to sync and synced when
its owner is about to rename. Sweeps and mishaps only remove files or lose bytes that
were never synced. `ServedDescribesHead` needs `HeadInv`: a run's reads agree with its
key while `moved` is false, and every file, temporary or published, describes its key
unless it says that HEAD moved while it was written. `CapsHold` is about runs that delete
from listings of different moments. `CapsInv` states it for *every* set of runs that are
evicting: in a repository, the entries that none of their listings holds are within the cap
and the runs that have yet to prune; over the whole cache, the entries are within the cap and
those runs, or one of the set (the last to list) counts down from a listing that held all but
what was published since. With the empty set that is the cap.

**The walk's arguments.** `WalkStoresEachCommitOnce` rests on `WalkInv`: the seen commits
are the visited ones and the queued ones, each once, and every parent of a visited one is
seen. At the end the queue is empty, so the visited ones are closed under parents; that
they are no more is because each commit but HEAD was queued by a child that was yielded.
`Reachable` is recursive in the code's graph; that it is the least closed set with HEAD
(`ReachableIsTheLeastClosedSet`) is proved from a least counterexample among the commits.
`HeadRevIsHead`: HEAD's row is the first, and the commits dated no later than HEAD are closed
under parents, so they are all that is reachable. `LinearScanIsComplete`: without merges the
walk is a line of parents (`ChainInv`), the rows are in the order of the walk and of the
dates, and between the latest row that touches a file and HEAD nobody deleted it.

**The memo's arguments.** The permits left and the calls at work add up to
`MAX_CONCURRENT_CALLS` (in `TypeOK`); for that to be inductive, a call must wait in one
place of the queue (`QueueInv`), or it would be admitted twice. The bound is inductive as
it stands, once the table is known to be finite (`BoundInv`): `Put` empties a full table
before it adds. `AnswerDescribesItsCall` rests on three parts: what a call has read still
holds while nothing has moved under it (`ReadsHold`), what it is about to store or has
answered is about what it read (`AnswerHolds`), and each entry is about the memo's scope
and its own key (`EntryHolds`), which is why `put` must drop a result whose scope has been
left. Without the `moved` premise the last one fails (section 6).

**The arguments of a check.** `GreenMeansJudged` needs what each place of a run still
promises (`VerdictInv`): after the evaluation no violations means no failed and no
undisclosed degraded record, after the policy none skipped either. For the baseline,
`PublishInv` says that the temporary file a run is about to rename is the one it wrote,
because its name is the run's own, and that it has passed the comparison with what the
run read, before the first rename and, the target removed, before the second;
`atomic_publish`'s PID is what makes the name its own, and two writers with
one name are the mutant. For the ledger a mishap is charged to one record: `LedgerInv`
counts the records lost plus the half line that is still to cost the next one.

**The arguments of the sidecars.** `Components` says that each store of the composition
behaves as by itself, whatever the other's processes do; every theorem of one store is so
one of `SidecarsSpec`. `IngestedMeansStored` rests on `Exclusive` (a writing
ingest has the file to itself) and `TransactionOK` (the open transaction holds the
findings so far of its engine and everybody else's rows untouched); `ReplacesWholeEngines`
follows from the same invariant. `ReportAddsUp` compares two sums:
the report's total is a fold over the rows, its table a sum per level. A fold over a finite
set has one value, whatever the order (`CHOOSE` of a function that exists by a least
counterexample over sizes), so a row taken from both sides leaves the equation. For the
narratives, `Filed` says that a
file that parses lies under the key of what it was made from, `Answered` that an answer
is of its call, and `Dated` that nothing written for a file whose evidence never changed
is about other evidence. The last holds of an asker too (`AskerInv`): while the evidence of
its file is the first, so are the sheet it printed and every narrative for the file it has
read so far, and each of its steps keeps that (`AskerStep`).

**The change tables' arguments.** `HistoryInv` (a commit renames away from a name at most
once) makes the epochs of a name disjoint: of two, the older ends before the newer begins,
in the order of `Newer`, which is total (`NewerIsAnOrder`, `EpochsAreDisjoint`); so each
row has one image. `TablesInv` and `GuardsInv` are what each phase leaves: a derived table
is built from the rows of its phase, and the grouping resets every flag. For
`LineageFollowsTheFile` each file of the history is where its last change left it, or a row
of the log says how it left (`TreeInv`); names change by renames only, so the changes of one
file are a chain whose links are renames (`Adds`), and the recursive query, followed link by
link, ends at the file's latest name after as many steps as there were renames. The steps
are a recursive function, whose values are known for every number of steps by a least
counterexample (`LineageSteps`).

**The arguments of a change set.** `CyclesFound` proves the depth-first search. `SearchInv`
holds after each step of its loop: what has a number is on the stack or in a component
(`NumberInv`); both stacks are in the order of the numbers, and every file of the stack is
*under* one file of the work stack, the one whose visit put it there (`StackInv`); a file of
the work stack reaches what is above it on the stack and is reached from what is under it
(`ReachInv`); its `low` is the number of a file of the stack that it reaches, and no edge looked
at from under it leads below that (`LowInv`); no edge leaves a finished component for a file
that is in none, and each is a class of files that reach one another (`DoneInv`). The step with
the weight is leaving a root (`RootIsWhole`): a path out of what it takes would have to use
an edge that `LowInv` says leads nowhere lower. That the search ends within the steps
`tarjan_scc` counts is a count of edges and files left (`AdvanceLeft`).
`NewlyCyclicAreFound` then compares graphs, not searches: under its premises the surviving, the
extracted and the swept rows have the edges of the working tree's own imports (`Rebuilt`).
`ReportDescribesTheTree` needs `GateInv`: until something moves under a gate, what it holds is
of HEAD, the index and the disk as they are (`Gated`), and a stored report nothing moved under
whose key names the HEAD of now is of *some* working tree with that key (`Kept`). `SameKey` is
the heart of it: over one HEAD, equal keys and equal untracked files make equal disks, so
equal reports, but for which files git paired as renames.

**Only model-checked:** the liveness properties (`Terminates`, `DamageHeals`,
`EveryCallIsAnswered`), which are out of this prover's reach. Every invariant and every other
action property of a passing run is also a theorem.

## 6. Findings

1. **`ChildWritesFindTheirParents`** (`facts/ingest/consumer.rs:326`). The comment on
   `STANDARD_VECTOR_SIZE` (27-30) promises that every checked child write finds its
   parents flushed. The hunk guard also flushes the *changes* appender, which moves its
   threshold off the change guard's cadence: from then on the changes buffer can fill
   between two guards, with a commit still buffered. It takes a history with more than
   204,800 changes; the run shows the shortest schedule at the scaled sizes.
2. **`RenamedFilesAreFollowed`** (`facts/ingest/lineage.rs:78`). The doc promises the latest
   path of every renamed path and no fictitious lineage that merges two files. The
   recursive step takes any later rename away from the name it stands on: after a -> b, when
   the file moves on from b (b -> d) and another file takes the name b and is renamed b -> c,
   the first file, which HEAD still has, has history filed under c.

### Known divergences

Met while modelling; no run is spent on them. The model has the step where one is named.

*Ingest and cache*

* `facts/mod.rs:489`: the store is "a function of HEAD and the options"
  (`docs/advanced-usage.md:1136`, comment at 566-568). The key's HEAD is resolved before, and
  apart from, the walk's and the passes' own; a commit in between files the new HEAD's facts,
  or a mix, under the old one's key, for whoever returns to that HEAD (`moved` in
  `FactStoreCache`).
* `facts/mod.rs:669-673` against `cache.rs:275-276`: "a wrong eviction costs one re-ingest and
  never correctness". Between a run's rename and its final open a concurrent prune, or its
  own in a tie of mtimes, may remove the entry just published, and the open fails the run
  (`evicted`). The caps of 1 in the run make it short; with the code's 5 it takes as many
  newer or equally old entries.
* `facts/ingest/mod.rs:125` against the comment at 127-133: a `?` that leaves the scope before
  the join (of the paths filter, of `ingest_loop`) drops the handle, and `thread::scope`
  raises the producer's panic again: neither typed error is returned (`LeaveScope`).
* `facts/ingest/mod.rs:228-229`: the head-only mode lists HEAD's tree, the full mode asks for
  each path's latest change by author date; a file restored by a commit with an older date
  is in the first list only.
* `cli/mcp.rs:279-280` against 366: "a stored result can only ever describe the commit that is
  currently HEAD", but the compute resolves HEAD a second time; when HEAD moved, the new
  commit's result is stored under the old one (`moved` in `McpMemo`).

*Check and ratchet*

* `output/mod.rs:86-92` against `quality_gates/ratchet.rs:217-223`: "an interrupted write leaves
  the previous good file untouched". `atomic_publish` answers *every* error of the first
  rename by removing an existing target and renaming again, also where rename replaces its
  target; when the second fails too, or the process dies in between, the committed baseline
  is gone, and the next `check --ratchet` initializes another (`RemoveTarget`, then `GiveUp`
  or `Kill`).
* `README.md:387` and `docs/advanced-usage.md:1338-1353`, 1524 against `cli/check.rs:1179-1193`:
  a failed gate keeps its violation though its record is then degraded, so with
  `fail_on_degraded = false` a check exits 1 with no record that failed.
* The slower of two ratchets overwrites the faster's tighter value: nothing locks the
  baseline. Initializing writes the baseline before the ledger, tightening after it.
* The ratchet's metrics ignore degraded verdicts (`cli/check.rs:228-235`). Its exits write
  no `GITHUB_OUTPUT` keys, though the comment at 88-90 says every other exit path does.

*Sidecars*

* The module doc of `external/store.rs` (22-27) says that an unreadable sidecar is `None`; a
  file that cannot be opened, probed or counted is an `Err` (103, 119-123), as the
  function's own doc says.
* A document whose every result is unusable clears its engine's rows; an ingest of several
  engines is atomic for each, not for all.
* The staleness note is printed though an `--llm` run with the same evidence is a hit that
  cannot clear it (`cli/explain.rs:564-575`). The comment near `cli/mcp.rs:1462` calls the
  narrative fresh on every call; it is `narrate` with `refresh = false`.
* Two files with one canonical sheet share a narrative's key.

*Change set* (`change_set.rs`)

* The key covers the change set's paths; the clone walk reads untracked files too (doc at
  961-962; `beside` in `ChangeSet`).
* The key's reads and the measuring reads are separate: a report measured while files moved
  is kept under the key of before (`still`).
* Imports of unchanged files that resolved at HEAD are never retried, though an added file
  may now be preferred, or another remain when theirs is deleted (`ImportsSettled`).
* The key leaves out `kind` and `rename_from`; a rename source that is back on disk counts as
  gone (`SourcesGone`).
* The projection's live set is all that HEAD tracks, the ingest's is filtered by
  `.codeloreignore` and the exclude patterns.
* The report is written in place, without a rename; a torn one is a miss (`Fill`).

## 7. Not modelled, and why

* Sixty analyses over the fact store, scores, coupling, regressions, clone and complexity
  extraction, and the resolution rules of each language: SQL, floating point and syntax
  trees, with no control to check. They are most of the repository's lines.
* Formatting of every output, argument parsing, the vendored metrics library.
* Defect calibration and SZZ, identity and bots, the Git CLI backend (a second `Repo` by
  subprocess and parsing).
* In the modelled parts: DuckDB's WAL companions; `--after`/`--before`, path filters, line
  counts and hunks of `HistoryFacts`; the `commit_parents` and `author_aliases` appenders,
  which carry no foreign key; the MCP tools' own analyses and their parameter validation;
  the parsing of thresholds and group files; `complexity_metrics_grouped` and the guard of
  `knowledge_shares`; the HTTP client, prompts and the building of fact sheets; `change_context`
  and `diff`'s delta health; unmerged paths and symlinks of the working tree.
* The HEAD-time passes' insides: each is one step of `IngestPipeline` that succeeds or fails
  (the rows of the import pass are `ImportGraph`'s).

## 8. Plan

1. `CommitLog`, `IngestPipeline`, `AppenderFlush`, with proofs. *Done.*
2. `FactStoreCache`, `HistoryFacts`, `McpMemo`. *Done, with proofs.*
3. The gate ledger and the ratchet, composed as what CI keeps between runs: `GateVerdicts`,
   `CheckRuns`. *Done, with proofs.*
4. The two sidecars and their composition: `FindingsStore`, `NarrativeCache`, `Sidecars`.
   *Done, with proofs.*
5. Lineage, buckets and grouping: `ChangeTables`. *Done, with proofs.*
6. The change set and the import graph: `ChangeSet`. *Done, with proofs.*
7. Next: `ScanCoverage` (outcomes, denominators, degraded verdict of the HEAD-time passes);
   SZZ's walk and cycle origins against reference definitions; an abstract cache
   (`key -> facts`, read or computed) implemented by `FactStoreCache` when HEAD does not move;
   `FactStoreCache` under `McpMemo` and `ChangeSet` in place of their reads.
8. Proofs still open: none of a property that a run checks, liveness apart. Worth stating next:
   that `FactStoreCache` implements the abstract cache of item 7.

## 9. Running the checks

```
tlc -workers 2 -config IngestPipeline.cfg IngestPipeline.tla
tlc -workers 2 -config MCFactStoreCache_safety.cfg MCFactStoreCache.tla
tlc -workers 2 -config MCCheckRuns.cfg MCCheckRuns.tla
tlc -workers 2 -config MCSidecars.cfg MCSidecars.tla
tlc -workers 2 -config MCChangeTables.cfg MCChangeTables.tla
tlc -workers 2 -config MCChangeSet.cfg MCChangeSet.tla
tlapm IngestProofs.tla
tlapm FactStoreCacheProofs.tla
tlapm HistoryFactsProofs.tla
tlapm McpMemoProofs.tla
tlapm CheckRunsProofs.tla
tlapm SidecarsProofs.tla
tlapm ChangeTablesProofs.tla
tlapm ChangeSetProofs.tla
```
