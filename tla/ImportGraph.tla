------------------------------ MODULE ImportGraph ------------------------------
(***************************************************************************)
(* The import graph of a tree (facts/ingest/imports_head.rs) and the files *)
(* on its cycles (analyses/import_graph.rs).  A tree is a function from    *)
(* paths to contents; a content says what the file imports.                *)
(***************************************************************************)
EXTENDS Integers, SequencesExt

CONSTANTS Paths,
          Targets,     \* what an import may name
          Order,       \* [Targets -> the paths a target may mean, best first]
          Bodies, NoFile, NoPath

ASSUME GraphAssumption ==
    /\ IsFiniteSet(Paths) /\ NoPath \notin Paths
    /\ Order \in [Targets -> Seq(Paths)]

Contents == [imports : SUBSET Targets, body : Bodies]
Trees == [Paths -> Contents \cup {NoFile}]

Files(tree) == {p \in Paths : tree[p] # NoFile}

\* resolve_by_extension_indexed: the first of a target's paths that is live
resolve(target, live) ==
    LET found == {i \in DOMAIN Order[target] : Order[target][i] \in live} IN
    IF found = {} THEN NoPath ELSE Order[target][Min(found)]

\* the imports table: populate_imports_at_head, then resolve_imports_at_head
Imports(tree) ==
    {[src |-> e[1], target |-> e[2], path |-> resolve(e[2], Files(tree))] :
        e \in {e \in Files(tree) \X Targets : e[2] \in tree[e[1]].imports}}

Edges(rows) == {<<row.src, row.path>> : row \in {row \in rows : row.path # NoPath}}

\* build_import_graph_seeded: no parallel edges, no self-loops
Adjacency(edges) == [p \in Paths |-> {q \in Paths \ {p} : <<p, q>> \in edges}]

-----------------------------------------------------------------------------
(* Strongly connected components.  Files get their numbers from 1 on; which *)
(* file or child is next is left open, for the code's order is of its ids.  *)

UNSET == 0

Start(adj) ==
    [indices |-> [p \in Paths |-> UNSET], low |-> [p \in Paths |-> UNSET], idx |-> 1,
     tstack |-> <<>>, call |-> <<>>, rest |-> adj, sccs |-> {}]

Unvisited(s) == {p \in Paths : s.indices[p] = UNSET}
OnStack(s) == Range(s.tstack)

FirstVisit(s, v) ==
    [s EXCEPT !.indices[v] = s.idx, !.low[v] = s.idx, !.idx = @ + 1,
              !.tstack = Append(@, v), !.call = Append(@, v)]

Lower(s, v, to) == [s EXCEPT !.low[v] = IF to < @ THEN to ELSE @]

NextChild(s, v) ==
    LET w == CHOOSE w \in s.rest[v] : TRUE
        t == [s EXCEPT !.rest[v] = @ \ {w}]
    IN IF w \in Unvisited(s) THEN FirstVisit(t, w)
       ELSE IF w \in OnStack(s) THEN Lower(t, v, s.indices[w]) ELSE t

\* a root takes what was put on the stack since its visit
Popped(s, v) ==
    LET n == CHOOSE n \in 1 .. Len(s.tstack) : s.tstack[n] = v IN
    IF s.low[v] # s.indices[v] THEN s
    ELSE [s EXCEPT !.tstack = SubSeq(@, 1, n - 1),
                   !.sccs = @ \cup {{s.tstack[i] : i \in n .. Len(s.tstack)}}]

Leave(s, v) ==
    LET t == [Popped(s, v) EXCEPT !.call = Front(@)] IN
    IF t.call = <<>> THEN t ELSE Lower(t, Last(t.call), s.low[v])

Advance(s) ==
    IF s.call # <<>>
    THEN LET v == Last(s.call) IN IF s.rest[v] # {} THEN NextChild(s, v) ELSE Leave(s, v)
    ELSE IF Unvisited(s) # {} THEN FirstVisit(s, CHOOSE v \in Unvisited(s) : TRUE) ELSE s

\* one step to visit a file, one for each of its children, one to leave it
tarjan_scc(adj) ==
    LET steps == 2 * Cardinality(Paths)
                   + Cardinality({e \in Paths \X Paths : e[2] \in adj[e[1]]})
        search[n \in 0 .. steps] == IF n = 0 THEN Start(adj) ELSE Advance(search[n - 1])
    IN search[steps].sccs

cyclic_paths(edges) ==
    UNION {c \in tarjan_scc(Adjacency(edges)) : Cardinality(c) >= 2}
================================================================================
