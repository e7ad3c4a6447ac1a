------------------------------- MODULE MCSidecars -------------------------------
(* A small instance of Sidecars. *)
EXTENDS Sidecars, TLC

\* findings -----------------------------------------------------------------
Result(p, level, print) ==
    [path |-> p, line |-> 1, rule |-> "named", level |-> level, default |-> "note",
     whole |-> None, line_hash |-> print, part |-> None]
File(runs) == [readable |-> TRUE, runs |-> runs]
Run(e, results) == [engine |-> e, results |-> results]

\* the same finding twice, an unnamed one, one without a location, and one
\* identified by each of its prints
Many == File(<<Run("semgrep", <<Result("a", "error", "x"), Result("a", None, "x"),
                                [Result("b", "other", None) EXCEPT !.rule = "absent"],
                                Result(None, "error", "y")>>),
               Run("codeql", <<[Result("b", None, None) EXCEPT !.part = "y"],
                               [Result("a", "none", "y") EXCEPT !.whole = "x"]>>)>>)
Clean == File(<<Run("semgrep", <<>>)>>)
Few == File(<<Run("semgrep", <<Result("b", "warning", "x")>>)>>)
Broken == [readable |-> FALSE, runs |-> <<Run("semgrep", <<>>)>>]

MCFiles == {Many, Clean, Few, Broken}
MCInputs == {<<Many>>, <<Clean>>, <<Few, Many>>, <<Few, Broken>>}

\* narratives ---------------------------------------------------------------
MCSize == [t \in {"short", "long"} |-> IF t = "short" THEN 1 ELSE 2]
MCGrounds == {g \in {1, 2} \X {"short", "long"} \X {1, 2} : g[1] = 2 \/ g[2] = "short"}

CONSTANTS i1, i2, r1, r2, n1, n2, n3, n4, a1

Env(model, checker, refresh) ==
    [model |-> model, prompt |-> 1, checker |-> checker, refresh |-> refresh]

\* two narrators of any kind, and two of one model that an asker meets
MCEnvironments ==
    [n \in {n1, n2} |-> {Env("m", 1, FALSE), Env("n", 1, FALSE), Env("m", 2, TRUE)}]
    @@ [n \in {n3, n4} |-> {Env("m", 1, FALSE)}]

\* two ingests and a reader, an ingest and two readers, two narrators, and two
\* narrators and an asker
MCScenes == {{i1, i2, r1}, {i1, r1, r2}, {n1, n2}, {n3, n4, a1}}
Symmetry == Permutations({n1, n2}) \cup Permutations({n3, n4})
=================================================================================
