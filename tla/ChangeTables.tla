------------------------------ MODULE ChangeTables ------------------------------
(***************************************************************************)
(* The `changes` table and what is derived from it: the rename lineage     *)
(* (facts/ingest/lineage.rs), architectural groups, written over it in     *)
(* place, and time buckets (grouping.rs), each built once behind a guard   *)
(* of FactsDb (facts/mod.rs) and selected by analyses/lineage.rs.          *)
(*                                                                         *)
(* A history is linear here.  A commit is its position: the walk starts at *)
(* HEAD, so a newer commit has the smaller rowid.  Paths and group names   *)
(* are numbers, in their alphabetical order.                               *)
(***************************************************************************)
EXTENDS Integers, Sequences, FiniteSets, FiniteSetsExt

CONSTANTS Paths, Dates,
          Groups,       \* the group files: functions from some of the Paths to names
          Units,        \* time buckets: functions from Dates to bucket numbers
          MaxCommits, MaxChanges,   \* bounds: commits, changes of them all
          MaxDepth                  \* renames of one chain that are followed

ASSUME ChangeTablesAssumption ==
    /\ Paths \subseteq Nat /\ IsFiniteSet(Paths) /\ Dates \subseteq Nat
    /\ \A g \in Groups : /\ g = [p \in DOMAIN g |-> g[p]] /\ DOMAIN g \subseteq Paths
                         /\ \A p \in DOMAIN g : g[p] \in Nat
    /\ Units \subseteq [Dates -> Nat]
    /\ MaxCommits \in Nat /\ MaxChanges \in Nat /\ MaxDepth \in Nat \ {0}

VARIABLES dates,      \* of the commits
          tree,       \* HEAD's tree: [path -> the file it holds]
          log,        \* every change, with the file it is of
          phase,      \* grow | ingested | grouped
          changes, hunks,             \* the tables; a hunk by commit and path
          lineage, lineage_built,     \* changes_lineage and its guard
          bucketed, bucketed_built    \* changes_bucketed and its guard, a key

history == <<dates, tree, log>>
derived == <<lineage, lineage_built, bucketed, bucketed_built>>
vars == <<history, phase, changes, hunks, derived>>

NoPath == -1
NotBuilt == <<>>
EmptyTree == [p \in {} |-> <<>>]

Init ==
    /\ dates = <<>> /\ tree = EmptyTree /\ log = {}
    /\ phase = "grow"
    /\ changes = {} /\ hunks = {}
    /\ lineage = {} /\ lineage_built = FALSE
    /\ bucketed = {} /\ bucketed_built = NotBuilt

-----------------------------------------------------------------------------
(* The history.                                                            *)

Change(file, rev, path, type, from) ==
    [file |-> file,
     row |-> [rev |-> rev, path |-> path, type |-> type, rename_from |-> from, loc |-> 1]]

\* A commit turns HEAD's tree into one of the paths in `new`; some of the files
\* that disappear pair up with some that appear, as `moved`
Pairings(new) ==
    {moved \in SUBSET ((DOMAIN tree \ new) \X (new \ DOMAIN tree)) :
       \A m, n \in moved : (m[1] = n[1] \/ m[2] = n[2]) => m = n}

\* a file is named by where it was added
FileAt(moved, p) ==
    IF p \in DOMAIN tree THEN tree[p]
    ELSE IF \E m \in moved : m[2] = p THEN tree[(CHOOSE m \in moved : m[2] = p)[1]]
    ELSE <<Len(dates) + 1, p>>

Touched(new, moved, modified) ==
    LET old == DOMAIN tree  rev == Len(dates) + 1 IN
    {Change(<<rev, p>>, rev, p, "added", NoPath) : p \in new \ (old \cup {m[2] : m \in moved})}
    \cup {Change(tree[m[1]], rev, m[2], "renamed", m[1]) : m \in moved}
    \cup {Change(tree[p], rev, p, "deleted", NoPath) : p \in old \ (new \cup {m[1] : m \in moved})}
    \cup {Change(tree[p], rev, p, "modified", NoPath) : p \in modified}

Commit ==
    /\ phase = "grow" /\ Len(dates) < MaxCommits
    /\ \E date \in Dates, new \in SUBSET Paths :
       \E moved \in Pairings(new), modified \in SUBSET (DOMAIN tree \cap new) :
          LET touched == Touched(new, moved, modified) IN
          /\ touched # {} /\ Cardinality(log \cup touched) <= MaxChanges
          /\ log' = log \cup touched
          /\ tree' = [p \in new |-> FileAt(moved, p)]
          /\ dates' = Append(dates, date)
    /\ UNCHANGED <<phase, changes, hunks, derived>>

\* the walk has stored every row, with a hunk for each
Ingest ==
    /\ phase = "grow" /\ dates # <<>>
    /\ phase' = "ingested"
    /\ changes' = {c.row : c \in log}
    /\ hunks' = {[rev |-> c.row.rev, path |-> c.row.path] : c \in log}
    /\ UNCHANGED <<history, derived>>

-----------------------------------------------------------------------------
(* path_lineage and changes_lineage, of the tables commits and changes.    *)

\* Mutant: two renames of one second are not ordered
LaterDate(commits, j, i) == commits[j] > commits[i]

\* ORDER BY date, rowid DESC
Newer(commits, j, i) == commits[j] > commits[i] \/ (commits[j] = commits[i] /\ j > i)

Renames(rows) == {r \in rows : r.type = "renamed" /\ r.rename_from # NoPath}

\* the steps of a chain that begins with `seed`, by depth
Lineage(commits, rows, seed) ==
    LET steps[d \in 1 .. MaxDepth] ==
          IF d = 1 THEN {seed}
          ELSE LET last == steps[d - 1] IN
               {r \in Renames(rows) :
                  \E s \in last : r.rename_from = s.path /\ Newer(commits, r.rev, s.rev)}
    IN steps

\* the deepest step wins, the first name among the deepest
Resolved(commits, rows, seed) ==
    LET steps == Lineage(commits, rows, seed)
        depth == CHOOSE d \in 1 .. MaxDepth :
                    steps[d] # {} /\ (d = MaxDepth \/ steps[d + 1] = {})
    IN Min({r.path : r \in steps[depth]})

\* an epoch of a name ends with each of its retirements
Epoch(commits, rows, r) ==
    [old |-> r.rename_from, canonical |-> Resolved(commits, rows, r), retired |-> r.rev,
     before |-> {q.rev : q \in {q \in Renames(rows) :
                    q.rename_from = r.rename_from /\ Newer(commits, r.rev, q.rev)}}]

path_lineage(commits, rows) ==
    {e \in {Epoch(commits, rows, r) : r \in Renames(rows)} : e.old # e.canonical}

\* Mutant: the window has no beginning
UpTo(commits, row, epoch) ==
    row.path = epoch.old /\ Newer(commits, epoch.retired, row.rev)

\* a row in the window of the epoch: before it ended, and after the latest of
\* those before it, hence after each of them
Within(commits, row, epoch) ==
    /\ row.path = epoch.old /\ Newer(commits, epoch.retired, row.rev)
    /\ \A prev \in epoch.before : Newer(commits, row.rev, prev)

\* LEFT JOIN: a row for every epoch it falls within, or as it is
Canonical(commits, rows, row) ==
    LET names == {e.canonical : e \in {e \in path_lineage(commits, rows) : Within(commits, row, e)}}
    IN IF names = {} THEN {row.path} ELSE names

changes_lineage(commits, rows) ==
    UNION {{[raw |-> row, rev |-> row.rev, path |-> p, loc |-> row.loc] :
               p \in Canonical(commits, rows, row)} : row \in rows}

\* materialize_changes_lineage: what it leaves in the table
LineageNow == IF lineage_built THEN lineage ELSE changes_lineage(dates, changes)

MaterializeLineage ==
    /\ lineage' = LineageNow
    /\ lineage_built' = TRUE

\* kamei::enrich of a run with --use-canonical-lineage, before the grouping
Kamei ==
    /\ phase = "ingested"
    /\ MaterializeLineage
    /\ UNCHANGED <<history, phase, changes, hunks, bucketed, bucketed_built>>

-----------------------------------------------------------------------------
(* Time buckets.                                                           *)

Bucketed(unit, commits, rows) ==
    {[bucket |-> unit[commits[k[1]]], path |-> k[2],
      loc |-> MapThenSumSet(LAMBDA r : r.loc,
                  {r \in rows : unit[commits[r.rev]] = unit[commits[k[1]]] /\ r.path = k[2]})] :
        k \in {<<r.rev, r.path>> : r \in rows}}

\* the rows of `changes`, in the shape of the lineage's
AsTheyAre(rows) == {[raw |-> row, rev |-> row.rev, path |-> row.path, loc |-> row.loc] : row \in rows}

\* materialize_changes_bucketed
MaterializeBucketed(unit, use_lineage) ==
    LET key == <<unit, use_lineage>> IN
    IF bucketed_built = key THEN UNCHANGED derived
    ELSE /\ IF use_lineage THEN MaterializeLineage ELSE UNCHANGED <<lineage, lineage_built>>
         /\ bucketed' = Bucketed(unit, dates, IF use_lineage THEN LineageNow ELSE AsTheyAre(changes))
         /\ bucketed_built' = key

\* materialize_source of an analysis with --time-bucket, or without.  A run
\* analyses after the grouping; the guards do not rely on it
Analyse ==
    /\ phase # "grow"
    /\ \/ \E unit \in Units, use_lineage \in BOOLEAN : MaterializeBucketed(unit, use_lineage)
       \/ MaterializeLineage /\ UNCHANGED <<bucketed, bucketed_built>>
    /\ UNCHANGED <<history, phase, changes, hunks>>

-----------------------------------------------------------------------------
(* apply_grouping.                                                         *)

\* the rows that survive, under their new names: strict drops the unmapped
Effective(groups, strict, path) ==
    IF path \in DOMAIN groups THEN groups[path] ELSE IF strict THEN NoPath ELSE path

\* Mutant: the rows of one group in one commit stay apart
RenamedOnly(groups, strict) ==
    {[r EXCEPT !.path = Effective(groups, strict, r.path)] :
        r \in {r \in changes : Effective(groups, strict, r.path) # NoPath}}

\* MAX(change_type) is alphabetical
TypeRank == [added |-> 1, deleted |-> 2, modified |-> 3, renamed |-> 4]

\* arg_max(rename_from, path) skips NULL
RenamedFrom(members) ==
    LET from == {r \in members : r.rename_from # NoPath} IN
    IF from = {} THEN NoPath
    ELSE (CHOOSE r \in from : \A q \in from : q.path <= r.path).rename_from

Merged(k, members) ==
    [rev |-> k[1], path |-> k[2],
     type |-> (CHOOSE r \in members : \A q \in members : TypeRank[q.type] <= TypeRank[r.type]).type,
     rename_from |-> RenamedFrom(members),
     loc |-> MapThenSumSet(LAMBDA r : r.loc, members)]

Grouped(groups, strict) ==
    LET kept == {r \in changes : Effective(groups, strict, r.path) # NoPath} IN
    {Merged(k, {r \in kept : r.rev = k[1] /\ Effective(groups, strict, r.path) = k[2]}) :
        k \in {<<r.rev, Effective(groups, strict, r.path)>> : r \in kept}}

\* Mutant: hunks of renamed paths stay
SurvivesIfMapped(groups, strict, h) == Effective(groups, strict, h.path) # NoPath

\* only the hunks of a path that keeps its name
Survives(groups, strict, h) == Effective(groups, strict, h.path) = h.path

\* Mutant: of the derived tables' guards only that of the lineage is reset
InvalidateLineageOnly ==
    /\ lineage_built' = FALSE
    /\ UNCHANGED <<lineage, bucketed, bucketed_built>>

invalidate_changes_derived ==
    /\ lineage_built' = FALSE /\ bucketed_built' = NotBuilt
    /\ UNCHANGED <<lineage, bucketed>>

ApplyGrouping ==
    /\ phase = "ingested"
    /\ phase' = "grouped"
    /\ \E groups \in Groups, strict \in BOOLEAN :
          /\ changes' = Grouped(groups, strict)
          /\ hunks' = {h \in hunks : Survives(groups, strict, h)}
    /\ invalidate_changes_derived
    /\ UNCHANGED history

Next == Commit \/ Ingest \/ Kamei \/ Analyse \/ ApplyGrouping

Spec == Init /\ [][Next]_vars

-----------------------------------------------------------------------------
(* Properties.                                                             *)

\* Types, and the primary key of `changes` and of `hunks`.
TypeOK ==
    /\ dates \in Seq(Dates) /\ Len(dates) <= MaxCommits
    /\ phase \in {"grow", "ingested", "grouped"}
    /\ \A q, r \in changes : (q.rev = r.rev /\ q.path = r.path) => q = r
    /\ \A h \in hunks : h.rev \in 1 .. Len(dates)
    /\ lineage_built \in BOOLEAN
    /\ bucketed_built \in {NotBuilt} \cup (Units \X BOOLEAN)

InOrder == \A i, j \in 1 .. Len(dates) : i < j => dates[i] <= dates[j]

Names(file) == {c.row.path : c \in {c \in log : c.file = file}}
LastName(file) ==
    (CHOOSE c \in log : c.file = file /\ \A d \in log : d.file = file => d.row.rev <= c.row.rev).row.path

\* renamed away from the name of this change later on
Retired(c) ==
    \E d \in log : d.file = c.file /\ d.row.rev > c.row.rev /\ d.row.rename_from = c.row.path

\* no other file ever had a name this one was renamed to
OwnsItsNames(file) ==
    \A c \in log : c.file = file /\ c.row.type = "renamed" =>
        \A d \in log : d.row.path = c.row.path => d.file = file

\* as many renames as a chain is followed through
Hops(file) == Cardinality({c \in log : c.file = file /\ c.row.type = "renamed"})

Followed(c) == Canonical(dates, changes, c.row) = {LastName(c.file)}

\* The history of a renamed file is counted under its latest name, however often
\* it was renamed (as far as a chain is followed) and whoever else had its first
\* name, when no other file ever had one of the names it took (lineage.rs,
\* retirement epochs).
LineageFollowsTheFile ==
    phase = "ingested" /\ InOrder =>
        \A c \in log : Retired(c) /\ OwnsItsNames(c.file) /\ Hops(c.file) <= MaxDepth
                         => Followed(c)

\* "the LATEST canonical path for every path that has ever been renamed", not
\* "a fictitious lineage that merges two unrelated files' history" (lineage.rs):
\* without the condition on names, of the files that HEAD still has.
RenamedFilesAreFollowed ==
    phase = "ingested" /\ InOrder =>
        \A c \in log : Retired(c) /\ (\E p \in DOMAIN tree : tree[p] = c.file) => Followed(c)

\* The epochs of a name never overlap, also where dates go backwards: a change
\* is in changes_lineage once, so that no revision or line is counted twice.
OneImagePerRow ==
    phase # "grow" => \A row \in changes : Cardinality(Canonical(dates, changes, row)) = 1

\* A derived table that is taken for built is the one of the current `changes`,
\* whatever was built before the grouping and with which options (FactsDb's
\* guards): analyses never join two versions of the paths.
DerivedTablesAreFresh ==
    /\ lineage_built => lineage = changes_lineage(dates, changes)
    /\ bucketed_built # NotBuilt =>
          bucketed = Bucketed(bucketed_built[1], dates,
                              IF bucketed_built[2] THEN changes_lineage(dates, changes)
                                                   ELSE AsTheyAre(changes))

\* Every hunk keeps the change it belongs to, through the swap of both tables
\* (swap_grouped_tables: the restore cannot violate the foreign key).
HunksKeepTheirChange ==
    \A h \in hunks : \E r \in changes : r.rev = h.rev /\ r.path = h.path
================================================================================
