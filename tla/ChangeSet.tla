------------------------------- MODULE ChangeSet -------------------------------
(***************************************************************************)
(* `codelore gate` and the MCP server's gate_changes: what the edits that  *)
(* are not committed do to the import graph, the complexity rows and the   *)
(* clones of HEAD (change_set.rs), while a user edits, and a sidecar file  *)
(* per change set that keeps what was measured.  A file stands for its     *)
(* rows; two files with one body are clones.                               *)
(***************************************************************************)
EXTENDS WorkingTree, Integers

CONSTANTS Gates,
          Drafts,     \* what the user may write
          Starts      \* the repositories: trees, edits to come, gates to run

ASSUME StartsAssumption ==
    /\ Drafts \subseteq Contents
    /\ Starts \subseteq [head : Trees, index : Trees, disk : Trees,
                         edits : Nat, calls : SUBSET Gates]

VARIABLES head,        \* [rev, tree]
          index, disk,
          edits, calls,
          sidecar,     \* key -> {} when it does not parse, or {what was stored}
          pc, db,      \* of a gate: the tree its facts are of,
          sha, changes, key, report,
          moved        \* and whether anything was edited or committed under it

repo == <<head, index, disk, edits, calls>>
gates == <<pc, db, sha, changes, key, report, moved>>
vars == <<repo, sidecar, gates>>

NoChanges == {}
NoKey == [head |-> 0, lines |-> <<>>]
NoReport == [changes |-> NoChanges, projected |-> <<>>, clones |-> {}, newly |-> {}]

Init ==
    /\ \E s \in Starts : /\ head = [rev |-> 0, tree |-> s.head]
                         /\ index = s.index /\ disk = s.disk
                         /\ edits = s.edits /\ calls = s.calls
    /\ sidecar = <<>>
    /\ pc = [g \in Gates |-> "start"]
    /\ db = [g \in Gates |-> [p \in Paths |-> NoFile]]
    /\ sha = [g \in Gates |-> 0]
    /\ changes = [g \in Gates |-> NoChanges]
    /\ key = [g \in Gates |-> NoKey]
    /\ report = [g \in Gates |-> NoReport]
    /\ moved = [g \in Gates |-> FALSE]

Goto(g, place) == pc' = [pc EXCEPT ![g] = place]
Ended == {"start", "clean", "done", "failed"}

-----------------------------------------------------------------------------
(* The user *)

Edit ==
    /\ edits > 0 /\ edits' = edits - 1
    /\ moved' = [g \in Gates |-> moved[g] \/ pc[g] \notin Ended]
    /\ UNCHANGED <<calls, sidecar, pc, db, sha, changes, key, report>>

Write(p, c) == Edit /\ disk' = [disk EXCEPT ![p] = c] /\ UNCHANGED <<head, index>>
Delete(p) == p \in Files(disk) /\ Write(p, NoFile)

Add(p) ==
    /\ index[p] # disk[p]
    /\ Edit /\ index' = [index EXCEPT ![p] = disk[p]] /\ UNCHANGED <<head, disk>>

Commit ==
    /\ index # head.tree
    /\ Edit /\ head' = [rev |-> head.rev + 1, tree |-> index] /\ UNCHANGED <<index, disk>>

User ==
    \/ \E p \in Paths, c \in Drafts : c # disk[p] /\ Write(p, c)
    \/ \E p \in Paths : Delete(p) \/ Add(p)
    \/ Commit

-----------------------------------------------------------------------------
(* The change set's paths *)

Present(cs) == {c.path : c \in {c \in cs : c.kind # "deleted"}}
Sources(cs) == {c.rename_from : c \in cs} \ {NoPath}
changed_set_paths(cs) == {c.path : c \in cs} \cup Sources(cs)
deleted_set_paths(cs) == ({c.path : c \in cs} \ Present(cs)) \cup Sources(cs)

\* fs::read of each of them, one after the other
Readable(cs) == Present(cs) \subseteq Files(disk)

\* Mutant: a change is its path, whatever it became
KeyOfPaths(rev, cs) == [head |-> rev, lines |-> [p \in {c.path : c \in cs} |-> NoFile]]

report_key(rev, cs) ==
    [head |-> rev, lines |-> [p \in {c.path : c \in cs} |->
                                 IF p \in Present(cs) THEN disk[p] ELSE NoFile]]

-----------------------------------------------------------------------------
(* project_health: HEAD's rows, but the changed files' from the disk *)

complexity_projected(facts, cs) ==
    [p \in Paths |-> IF p \in Present(cs) THEN disk[p]
                     ELSE IF p \in changed_set_paths(cs) THEN NoFile ELSE facts[p]]

Cloned(tree) == {p \in Files(tree) : \E q \in Files(tree) \ {p} : tree[q].body = tree[p].body}

\* The walk over the working tree reads what is not tracked as well; it is made
\* once, for the projection (run_clones_memoised).
clone_introductions(facts, cs) == Present(cs) \cap (Cloned(disk) \ Cloned(facts))

-----------------------------------------------------------------------------
(* project_cycles: HEAD's graph, in three parts *)

LivePaths(cs) ==
    (Files(head.tree) \ deleted_set_paths(cs))
    \cup {c.path : c \in {c \in cs : c.kind = "added"}}

Surviving(rows, cs) ==
    {row \in rows : row.src \notin changed_set_paths(cs) /\ row.path \notin deleted_set_paths(cs)}

Extracted(cs) ==
    {[src |-> e[1], target |-> e[2], path |-> resolve(e[2], LivePaths(cs))] :
        e \in {e \in Present(cs) \X Targets : e[2] \in disk[e[1]].imports}}

\* Mutant: what HEAD could not resolve stays unresolved
NotSwept(rows, cs) == {}

Swept(rows, cs) ==
    {[row EXCEPT !.path = resolve(row.target, LivePaths(cs))] :
        row \in {row \in rows : row.path = NoPath /\ row.src \notin changed_set_paths(cs)}}

newly_cyclic(facts, cs) ==
    LET rows == Imports(facts) IN
    cyclic_paths(Edges(Surviving(rows, cs) \cup Extracted(cs) \cup Swept(rows, cs)))
    \ cyclic_paths(Edges(rows))

-----------------------------------------------------------------------------
(* A gate: `gate` opens the facts before it looks for changes, gate_changes  *)
(* after.                                                                    *)

OpenFacts(g) ==
    /\ pc[g] \in {"start", "looked"} /\ g \in calls
    /\ db' = [db EXCEPT ![g] = head.tree]
    /\ Goto(g, IF pc[g] = "start" THEN "opened" ELSE "resolve")
    /\ UNCHANGED <<repo, sidecar, sha, changes, key, report, moved>>

Look(g) ==
    /\ pc[g] \in {"start", "opened"} /\ g \in calls
    /\ Goto(g, IF worktree_changes(head.tree, index, disk, <<>>) = {} THEN "clean"
               ELSE IF pc[g] = "start" THEN "looked" ELSE "resolve")
    /\ UNCHANGED <<repo, sidecar, db, sha, changes, key, report, moved>>

(* build_change_set_report *)

ResolveHead(g) ==
    /\ pc[g] = "resolve"
    /\ sha' = [sha EXCEPT ![g] = head.rev]
    /\ Goto(g, "enumerate")
    /\ UNCHANGED <<repo, sidecar, db, changes, key, report, moved>>

Enumerate(g) ==
    /\ pc[g] = "enumerate"
    /\ \E pairing \in Pairings(head.tree, index) :
          changes' = [changes EXCEPT ![g] = worktree_changes(head.tree, index, disk, pairing)]
    /\ Goto(g, "key")
    /\ UNCHANGED <<repo, sidecar, db, sha, key, report, moved>>

Key(g) ==
    /\ pc[g] = "key" /\ Readable(changes[g])
    /\ key' = [key EXCEPT ![g] = report_key(sha[g], changes[g])]
    /\ Goto(g, "lookup")
    /\ UNCHANGED <<repo, sidecar, db, sha, changes, report, moved>>

\* cache::read: a file that does not parse is a miss
Stored(k) == IF k \in DOMAIN sidecar THEN sidecar[k] ELSE {}

Hit(g) ==
    /\ pc[g] = "lookup"
    /\ \E e \in Stored(key[g]) : report' = [report EXCEPT ![g] = e.report]
    /\ Goto(g, "done")
    /\ UNCHANGED <<repo, sidecar, db, sha, changes, key, moved>>

project_health(g) ==
    /\ pc[g] = "lookup" /\ Stored(key[g]) = {} /\ Readable(changes[g])
    /\ report' = [report EXCEPT ![g] =
          [changes |-> changes[g], newly |-> {},
           projected |-> complexity_projected(db[g], changes[g]),
           clones |-> clone_introductions(db[g], changes[g])]]
    /\ Goto(g, "cycles")
    /\ UNCHANGED <<repo, sidecar, db, sha, changes, key, moved>>

project_cycles(g) ==
    /\ pc[g] = "cycles" /\ Readable(changes[g])
    /\ report' = [report EXCEPT ![g].newly = newly_cyclic(db[g], changes[g])]
    /\ Goto(g, "write")
    /\ UNCHANGED <<repo, sidecar, db, sha, changes, key, moved>>

ReadFails(g) ==
    /\ pc[g] \in {"key", "lookup", "cycles"} /\ ~Readable(changes[g])
    /\ pc[g] = "lookup" => Stored(key[g]) = {}
    /\ Goto(g, "failed")
    /\ UNCHANGED <<repo, sidecar, db, sha, changes, key, report, moved>>

\* cache::write, in place
Truncate(g) ==
    /\ pc[g] = "write"
    /\ sidecar' = [k \in DOMAIN sidecar \cup {key[g]} |-> IF k = key[g] THEN {} ELSE sidecar[k]]
    /\ Goto(g, "fill")
    /\ UNCHANGED <<repo, db, sha, changes, key, report, moved>>

Entry(g) ==
    [report |-> report[g], still |-> ~moved[g],
     beside |-> Untracked(head.tree, index, disk)]

\* over what another gate has filled since, which may be longer
Fill(g) ==
    /\ pc[g] = "fill"
    /\ \E file \in {{Entry(g)}} \cup (IF sidecar[key[g]] = {} THEN {} ELSE {{}}) :
          sidecar' = [sidecar EXCEPT ![key[g]] = file]
    /\ Goto(g, "done")
    /\ UNCHANGED <<repo, db, sha, changes, key, report, moved>>

\* no error of the cache is one of the gate
WriteFails(g) ==
    /\ pc[g] \in {"write", "fill"} /\ Goto(g, "done")
    /\ UNCHANGED <<repo, sidecar, db, sha, changes, key, report, moved>>

Kill(g) ==
    /\ pc[g] \notin Ended /\ Goto(g, "failed")
    /\ UNCHANGED <<repo, sidecar, db, sha, changes, key, report, moved>>

Gate(g) ==
    \/ OpenFacts(g) \/ Look(g) \/ ResolveHead(g) \/ Enumerate(g)
    \/ Key(g) \/ Hit(g) \/ project_health(g) \/ project_cycles(g) \/ ReadFails(g)
    \/ Truncate(g) \/ Fill(g) \/ WriteFails(g) \/ Kill(g)

Next == User \/ \E g \in Gates : Gate(g)

Spec == Init /\ [][Next]_vars

-----------------------------------------------------------------------------
(* Properties *)

Places == {"start", "opened", "looked", "resolve", "enumerate", "key", "lookup", "cycles",
           "write", "fill", "clean", "done", "failed"}

\* Types; a change set names a path once, and none that neither HEAD nor the
\* disk had (net_classify_candidates).
TypeOK ==
    /\ head.rev \in Nat /\ head.tree \in Trees /\ index \in Trees /\ disk \in Trees
    /\ edits \in Nat /\ calls \subseteq Gates
    /\ pc \in [Gates -> Places] /\ db \in [Gates -> Trees] /\ moved \in [Gates -> BOOLEAN]
    /\ \A g \in Gates : /\ \A c, d \in changes[g] : c.path = d.path => c = d
                        /\ ~moved[g] /\ pc[g] \in {"key", "lookup", "cycles", "write", "fill"}
                             => {c.path : c \in changes[g]} \subseteq Files(head.tree) \cup Files(disk)

\* What an import leads to, directly or not: the least set that holds p and
\* all that is imported from it.
Reaches(edges, p, q) ==
    \A within \in SUBSET Paths :
        p \in within /\ (\A e \in edges : e[1] \in within => e[2] \in within) => q \in within

\* on a cycle of a tree's imports, all of them resolved against that tree
OnCycle(tree) ==
    LET edges == Edges(Imports(tree)) IN
    {p \in Paths : \E q \in Paths \ {p} : Reaches(edges, p, q) /\ Reaches(edges, q, p)}

Now == Tracked(head.tree, index, disk)

\* what an import of an unchanged file meant at HEAD it means now, or nothing
ImportsSettled(cs) ==
    \A row \in Imports(head.tree) :
        row.src \notin changed_set_paths(cs) /\ row.path # NoPath
        => resolve(row.target, Files(Now)) \in {row.path, NoPath}

SourcesGone(cs) == Sources(cs) \cap Files(disk) = {}

\* The graph put together from HEAD's edges that survive, the changed files'
\* and the retried ones names the same newly cyclic files as an ingest of the
\* working tree would (project_cycles, three-part rebuild), where no import of
\* an unchanged file has moved to another file and no renamed file is back.
NewlyCyclicAreFound ==
    [][\A g \in Gates :
         /\ pc[g] = "cycles" /\ pc'[g] = "write" /\ ~moved[g]
         /\ ImportsSettled(changes[g]) /\ SourcesGone(changes[g])
         => report'[g].newly = OnCycle(Now) \ OnCycle(head.tree)]_vars

\* A report, measured or served, describes the working tree of its call, when
\* nothing moved under the gate that measured it and no untracked file differs:
\* every edit of a tracked file and every commit moves the key (cache::report_key).
ReportDescribesTheTree ==
    [][\A g \in Gates :
         /\ pc[g] # "done" /\ pc'[g] = "done" /\ ~moved[g]
         /\ pc[g] = "lookup" => \A e \in Stored(key[g]) :
                                    e.still /\ e.beside = Untracked(head.tree, index, disk)
         => /\ report'[g].projected = Now
            /\ report'[g].clones = Present(changes[g]) \cap (Cloned(disk) \ Cloned(head.tree))
            /\ SourcesGone(report'[g].changes) /\ SourcesGone(changes[g])
                 => report'[g].newly = newly_cyclic(head.tree, changes[g])]_vars
================================================================================
