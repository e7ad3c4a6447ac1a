-------------------------- MODULE ChangeTablesProofs --------------------------
(***************************************************************************)
(* What holds of the change tables for all paths, dates, groups, buckets   *)
(* and histories of any length, renames included.                          *)
(***************************************************************************)
EXTENDS ChangeTables, FiniteSetTheorems, WellFoundedInduction, TLAPS

OnePerPath(rows) == \A q, r \in rows : q.rev = r.rev /\ q.path = r.path => q = r

OnePerSource(rows) ==
    \A q, r \in rows : q.rev = r.rev /\ q.rename_from = r.rename_from /\ q.rename_from # NoPath
                          => q = r

LogRows == {c.row : c \in log}

HistoryInv ==
    /\ dates \in Seq(Dates) /\ Len(dates) <= MaxCommits
    /\ DOMAIN tree \subseteq Paths
    /\ \A r \in LogRows : r.rev \in 1 .. Len(dates) /\ r.path \in Paths
    /\ OnePerPath(LogRows) /\ OnePerSource(LogRows)

\* Nothing is stored or derived while the history grows; until the grouping the
\* rows are those of the history.
TablesInv ==
    /\ phase \in {"grow", "ingested", "grouped"}
    /\ phase = "grow" => /\ changes = {} /\ hunks = {}
                         /\ lineage_built = FALSE /\ bucketed_built = NotBuilt
    /\ phase = "ingested" => changes = LogRows
    /\ \A r \in changes : r.rev \in 1 .. Len(dates)
    /\ OnePerPath(changes) /\ OnePerSource(changes)
    /\ \A h \in hunks : h.rev \in 1 .. Len(dates)
    /\ HunksKeepTheirChange

GuardsInv ==
    /\ lineage_built \in BOOLEAN
    /\ bucketed_built \in {NotBuilt} \cup (Units \X BOOLEAN)
    /\ DerivedTablesAreFresh

Inv == HistoryInv /\ TablesInv /\ GuardsInv

-----------------------------------------------------------------------------
(* The history.                                                            *)

\* A commit has one change for each path and for each source of a rename.
LEMMA TouchedRows ==
    ASSUME DOMAIN tree \subseteq Paths, NEW new \in SUBSET Paths,
           NEW moved \in Pairings(new), NEW modified \in SUBSET (DOMAIN tree \cap new)
    PROVE  LET T == Touched(new, moved, modified) IN
           /\ \A c \in T : c.row.rev = Len(dates) + 1 /\ c.row.path \in Paths
           /\ \A c, d \in T : c.row.path = d.row.path => c.row = d.row
           /\ \A c, d \in T : c.row.rename_from = d.row.rename_from /\ c.row.rename_from # NoPath
                                 => c.row = d.row
<1> DEFINE T == Touched(new, moved, modified)
           old == DOMAIN tree
           rev == Len(dates) + 1
           RowOf(p, type, from) == [rev |-> rev, path |-> p, type |-> type,
                                    rename_from |-> from, loc |-> 1]
<1>1. /\ \A m \in moved : m[1] \in old \ new /\ m[2] \in new \ old
      /\ \A m, n \in moved : (m[1] = n[1] \/ m[2] = n[2]) => m = n
  BY DEF Pairings
<1>2. \A c \in T :
        \/ \E p \in new \ (old \cup {m[2] : m \in moved}) : c.row = RowOf(p, "added", NoPath)
        \/ \E m \in moved : c.row = RowOf(m[2], "renamed", m[1])
        \/ \E p \in old \ (new \cup {m[1] : m \in moved}) : c.row = RowOf(p, "deleted", NoPath)
        \/ \E p \in modified : c.row = RowOf(p, "modified", NoPath)
  BY SMTT(30) DEF Touched, Change
<1> HIDE DEF T, rev
<1> DEFINE Plain(c, type) == c.row = RowOf(c.row.path, type, NoPath)
           Moved(c, m) == c.row = RowOf(m[2], "renamed", m[1])
<1>a. \A p, type, from : /\ RowOf(p, type, from).rev = rev /\ RowOf(p, type, from).path = p
                         /\ RowOf(p, type, from).rename_from = from
  OBVIOUS
<1>b. \A m \in moved : m[1] \in Paths /\ m[2] \in Paths /\ m[1] # NoPath
  BY <1>1, ChangeTablesAssumption DEF NoPath
<1> HIDE DEF RowOf
<1>3. \A c \in T :
        \/ c.row.path \in new \ old /\ (\A m \in moved : m[2] # c.row.path) /\ Plain(c, "added")
        \/ \E m \in moved : Moved(c, m)
        \/ c.row.path \in old \ new /\ Plain(c, "deleted")
        \/ c.row.path \in old \cap new /\ Plain(c, "modified")
  BY <1>1, <1>2, <1>a
<1> HIDE DEF Plain, Moved
<1>c. \A c, type : Plain(c, type) => c.row = RowOf(c.row.path, type, NoPath)
                                   /\ c.row.rename_from = NoPath /\ c.row.rev = rev
  BY <1>a DEF Plain
<1>d. \A c, m : Moved(c, m) => c.row = RowOf(m[2], "renamed", m[1]) /\ c.row.path = m[2]
                              /\ c.row.rename_from = m[1] /\ c.row.rev = rev
  BY <1>a DEF Moved
<1>4. \A c \in T : c.row.rev = rev /\ c.row.path \in Paths
  BY <1>3, <1>b, <1>c, <1>d
<1>5. ASSUME NEW c \in T, NEW d \in T, c.row.path = d.row.path PROVE c.row = d.row
  <2>1. CASE \E m \in moved : Moved(c, m)
    <3>1. PICK m \in moved : Moved(c, m)
      BY <2>1
    <3>2. c.row.path = m[2] /\ m[2] \in new \ old
      BY <3>1, <1>1, <1>d
    <3>3. PICK n \in moved : Moved(d, n)
      BY <3>2, <1>3, <1>5
    <3>4. m = n
      BY <3>2, <3>3, <1>1, <1>5, <1>d
    <3>5. QED
      BY <3>1, <3>3, <3>4, <1>d
  <2>2. CASE ~ \E m \in moved : Moved(c, m)
    <3>1. ~ \E m \in moved : Moved(d, m)
      BY <2>2, <1>1, <1>3, <1>5, <1>d
    <3>2. \E type : Plain(c, type) /\ Plain(d, type)
      BY <2>2, <3>1, <1>3, <1>5
    <3>3. QED
      BY <3>2, <1>5, <1>c
  <2>3. QED
    BY <2>1, <2>2
<1>6. ASSUME NEW c \in T, NEW d \in T, c.row.rename_from = d.row.rename_from,
             c.row.rename_from # NoPath
      PROVE  c.row = d.row
  <2>1. PICK m \in moved : Moved(c, m)
    BY <1>3, <1>6, <1>c
  <2>2. PICK n \in moved : Moved(d, n)
    BY <1>3, <1>6, <1>c
  <2>3. m = n
    BY <2>1, <2>2, <1>1, <1>6, <1>d
  <2>4. QED
    BY <2>1, <2>2, <2>3, <1>d
<1>7. QED
  BY <1>4, <1>5, <1>6 DEF rev, T

LEMMA CommitKeepsHistory == ASSUME HistoryInv, Commit PROVE HistoryInv'
<1>0. PICK date \in Dates, new \in SUBSET Paths :
         \E moved \in Pairings(new), modified \in SUBSET (DOMAIN tree \cap new) :
            /\ log' = log \cup Touched(new, moved, modified)
            /\ tree' = [p \in new |-> FileAt(moved, p)]
            /\ dates' = Append(dates, date)
  BY DEF Commit
<1>1. PICK moved \in Pairings(new), modified \in SUBSET (DOMAIN tree \cap new) :
         /\ log' = log \cup Touched(new, moved, modified)
         /\ tree' = [p \in new |-> FileAt(moved, p)]
         /\ dates' = Append(dates, date)
  BY <1>0
<1> DEFINE T == Touched(new, moved, modified)
<1>2. /\ dates' \in Seq(Dates) /\ Len(dates') = Len(dates) + 1 /\ Len(dates) \in Nat
      /\ Len(dates') <= MaxCommits /\ DOMAIN tree' \subseteq Paths
  BY <1>1, ChangeTablesAssumption DEF HistoryInv, Commit
<1>3. /\ \A c \in T : c.row.rev = Len(dates) + 1 /\ c.row.path \in Paths
      /\ \A c, d \in T : c.row.path = d.row.path => c.row = d.row
      /\ \A c, d \in T : c.row.rename_from = d.row.rename_from /\ c.row.rename_from # NoPath
                            => c.row = d.row
  BY TouchedRows DEF HistoryInv
<1> HIDE DEF T
<1>4. LogRows' = LogRows \cup {c.row : c \in T}
  BY <1>1 DEF LogRows, T
<1>5. \A r \in LogRows : r.rev \in 1 .. Len(dates) /\ r.path \in Paths
  BY DEF HistoryInv
<1>6. \A r \in LogRows' : r.rev \in 1 .. Len(dates') /\ r.path \in Paths
  BY <1>2, <1>3, <1>4, <1>5
<1>7. \A r \in LogRows, c \in T : r.rev # c.row.rev
  BY <1>2, <1>3, <1>5
<1>8. OnePerPath(LogRows') /\ OnePerSource(LogRows')
  BY <1>3, <1>4, <1>7 DEF HistoryInv, OnePerPath, OnePerSource
<1>9. QED
  BY <1>2, <1>6, <1>8 DEF HistoryInv, OnePerPath, OnePerSource

-----------------------------------------------------------------------------
(* The tables.                                                             *)

LEMMA InitInv == Init => Inv
<1> SUFFICES ASSUME Init PROVE Inv
  OBVIOUS
<1> USE DEF Init
<1>1. HistoryInv
  BY ChangeTablesAssumption DEF HistoryInv, LogRows, OnePerPath, OnePerSource, EmptyTree
<1>2. TablesInv
  BY DEF TablesInv, OnePerPath, OnePerSource, HunksKeepTheirChange
<1>3. GuardsInv
  BY DEF GuardsInv, DerivedTablesAreFresh
<1>4. QED
  BY <1>1, <1>2, <1>3 DEF Inv

LEMMA StutterKeepsInv == ASSUME Inv, UNCHANGED vars PROVE Inv'
<1> USE DEF vars, history, derived
<1>1. HistoryInv'
  BY DEF Inv, HistoryInv, LogRows, OnePerPath, OnePerSource
<1>2. TablesInv'
  BY DEF Inv, TablesInv, OnePerPath, OnePerSource, LogRows, HunksKeepTheirChange
<1>3. GuardsInv'
  BY DEF Inv, GuardsInv, DerivedTablesAreFresh
<1>4. QED
  BY <1>1, <1>2, <1>3 DEF Inv

\* Of a history that does not change.
LEMMA HistoryStays == ASSUME HistoryInv, UNCHANGED history PROVE HistoryInv' /\ LogRows' = LogRows
  BY DEF HistoryInv, LogRows, OnePerPath, OnePerSource, history

LEMMA CommitKeepsInv == ASSUME Inv, Commit PROVE Inv'
<1>1. HistoryInv'
  BY CommitKeepsHistory DEF Inv
<1>2. /\ phase' = "grow" /\ changes' = {} /\ hunks' = {}
      /\ lineage_built' = FALSE /\ bucketed_built' = NotBuilt
  BY DEF Inv, TablesInv, Commit, derived
<1>3. TablesInv'
  BY <1>2 DEF TablesInv, OnePerPath, OnePerSource, HunksKeepTheirChange
<1>4. GuardsInv'
  BY <1>2 DEF GuardsInv, DerivedTablesAreFresh
<1>5. QED
  BY <1>1, <1>3, <1>4 DEF Inv

LEMMA IngestKeepsInv == ASSUME Inv, Ingest PROVE Inv'
<1>1. HistoryInv' /\ LogRows' = LogRows
  BY HistoryStays DEF Inv, Ingest
<1>2. /\ phase' = "ingested" /\ changes' = LogRows /\ dates' = dates
      /\ hunks' = {[rev |-> r.rev, path |-> r.path] : r \in LogRows}
      /\ lineage_built' = FALSE /\ bucketed_built' = NotBuilt
  BY DEF Inv, TablesInv, Ingest, derived, history, LogRows
<1>3. \A r \in LogRows : r.rev \in 1 .. Len(dates)
  BY DEF Inv, HistoryInv
<1>4. OnePerPath(LogRows) /\ OnePerSource(LogRows)
  BY DEF Inv, HistoryInv
<1>5. TablesInv'
  BY <1>1, <1>2, <1>3, <1>4 DEF TablesInv, OnePerPath, OnePerSource, HunksKeepTheirChange
<1>6. GuardsInv'
  BY <1>2 DEF GuardsInv, DerivedTablesAreFresh
<1>7. QED
  BY <1>1, <1>5, <1>6 DEF Inv

\* Analyses read the history's tables only.
LEMMA TablesStay ==
    ASSUME Inv, phase # "grow", UNCHANGED <<history, phase, changes, hunks>>
    PROVE  HistoryInv' /\ TablesInv'
<1>1. HistoryInv' /\ LogRows' = LogRows
  BY HistoryStays DEF Inv
<1>2. TablesInv'
  BY <1>1 DEF Inv, TablesInv, OnePerPath, OnePerSource, HunksKeepTheirChange, history
<1>3. QED
  BY <1>1, <1>2

LEMMA LineageNowIsFresh == ASSUME GuardsInv PROVE LineageNow = changes_lineage(dates, changes)
  BY DEF GuardsInv, DerivedTablesAreFresh, LineageNow

LEMMA KameiKeepsInv == ASSUME Inv, Kamei PROVE Inv'
<1>1. HistoryInv' /\ TablesInv'
  BY TablesStay DEF Kamei
<1>2. /\ lineage' = changes_lineage(dates, changes) /\ lineage_built' = TRUE
      /\ UNCHANGED <<dates, changes, bucketed, bucketed_built>>
  BY LineageNowIsFresh DEF Inv, Kamei, MaterializeLineage, history
<1>3. GuardsInv'
  BY <1>2 DEF Inv, GuardsInv, DerivedTablesAreFresh
<1>4. QED
  BY <1>1, <1>3 DEF Inv

LEMMA AnalyseKeepsInv == ASSUME Inv, Analyse PROVE Inv'
<1>1. HistoryInv' /\ TablesInv' /\ UNCHANGED <<dates, changes>>
  BY TablesStay DEF Analyse, history
<1>2. CASE MaterializeLineage /\ UNCHANGED <<bucketed, bucketed_built>>
  <2>1. lineage' = changes_lineage(dates, changes) /\ lineage_built' = TRUE
    BY <1>2, LineageNowIsFresh DEF Inv, MaterializeLineage
  <2>2. GuardsInv'
    BY <1>1, <1>2, <2>1 DEF Inv, GuardsInv, DerivedTablesAreFresh
  <2>3. QED
    BY <1>1, <2>2 DEF Inv
<1>3. ASSUME NEW unit \in Units, NEW use_lineage \in BOOLEAN, MaterializeBucketed(unit, use_lineage)
      PROVE  Inv'
  <2> DEFINE key == <<unit, use_lineage>>
             source == IF use_lineage THEN LineageNow ELSE AsTheyAre(changes)
  <2>1. CASE bucketed_built = key
    <3>1. UNCHANGED derived
      BY <1>3, <2>1 DEF MaterializeBucketed
    <3>2. GuardsInv'
      BY <1>1, <3>1 DEF Inv, GuardsInv, DerivedTablesAreFresh, derived
    <3>3. QED
      BY <1>1, <3>2 DEF Inv
  <2>2. CASE bucketed_built # key
    <3>1. /\ IF use_lineage THEN MaterializeLineage ELSE UNCHANGED <<lineage, lineage_built>>
          /\ bucketed' = Bucketed(unit, dates, source) /\ bucketed_built' = key
      BY <1>3, <2>2 DEF MaterializeBucketed
    <3>2. lineage_built' \in BOOLEAN /\ (lineage_built' => lineage' = changes_lineage(dates, changes))
      BY <3>1, LineageNowIsFresh DEF Inv, GuardsInv, DerivedTablesAreFresh, MaterializeLineage
    <3>3. source = IF key[2] THEN changes_lineage(dates, changes) ELSE AsTheyAre(changes)
      BY LineageNowIsFresh DEF Inv
    <3>4. key \in Units \X BOOLEAN /\ key[1] = unit
      OBVIOUS
    <3> HIDE DEF key, source
    <3>5. GuardsInv'
      BY <1>1, <3>1, <3>2, <3>3, <3>4 DEF GuardsInv, DerivedTablesAreFresh
    <3>6. QED
      BY <1>1, <3>5 DEF Inv
  <2>3. QED
    BY <2>1, <2>2
<1>4. QED
  BY <1>2, <1>3 DEF Analyse

-----------------------------------------------------------------------------
(* The grouping.                                                           *)

\* A finite set of numbers has a largest one: a smallest set without would
\* have one when any of its members is left out.
LEMMA HasMax ==
    ASSUME NEW S \in SUBSET Int, IsFiniteSet(S), S # {}
    PROVE  \E x \in S : \A y \in S : y <= x
<1> DEFINE Without == {T \in FiniteSubsetsOf(S) : T # {} /\ ~ \E x \in T : \A y \in T : y <= x}
<1> SUFFICES Without = {}
  BY FS_Subset DEF FiniteSubsetsOf
<1> SUFFICES ASSUME Without # {} PROVE FALSE
  OBVIOUS
<1>1. IsWellFoundedOn(StrictSubsetOrdering(S), FiniteSubsetsOf(S))
  BY FS_StrictSubsetOrderingWellFounded
<1>2. PICK T \in Without : \A U \in Without : ~ (<<U, T>> \in StrictSubsetOrdering(S))
  <2>1. Without \subseteq FiniteSubsetsOf(S) /\ Without # {}
    OBVIOUS
  <2> HIDE DEF Without
  <2>2. QED
    BY <1>1, <2>1, WFMin
<1>3. PICK x \in T : TRUE
  BY <1>2
<1> DEFINE U == T \ {x}
<1>4. T \in SUBSET S /\ IsFiniteSet(T) /\ ~ \E z \in T : \A y \in T : y <= z
  BY <1>2 DEF FiniteSubsetsOf
<1>5. U \in FiniteSubsetsOf(S) /\ <<U, T>> \in StrictSubsetOrdering(S)
  BY <1>3, <1>4, FS_RemoveElement DEF FiniteSubsetsOf, StrictSubsetOrdering
<1>6. U = {} \/ \E z \in U : \A y \in U : y <= z
  BY <1>2, <1>5
<1>7. CASE U = {}
  BY <1>3, <1>4, <1>7
<1>8. CASE \E z \in U : \A y \in U : y <= z
  <2>1. PICK z \in U : \A y \in U : y <= z
    BY <1>8
  <2>2. x <= z \/ z <= x
    BY <1>3, <1>4, <2>1
  <2>3. \A y \in T : y = x \/ y <= z
    BY <2>1
  <2>4. (x <= z => \A y \in T : y <= z) /\ (z <= x => \A y \in T : y <= x)
    BY <1>3, <1>4, <2>1, <2>3
  <2>5. QED
    BY <1>3, <1>4, <2>1, <2>2, <2>4
<1>9. QED
  BY <1>6, <1>7, <1>8

\* The merged row takes its source from one of the merged rows.
LEMMA SourceOfAMember ==
    ASSUME NEW members, \A r \in members : r.path \in Paths, RenamedFrom(members) # NoPath
    PROVE  \E r \in members : r.rename_from = RenamedFrom(members)
<1> DEFINE from == {r \in members : r.rename_from # NoPath}
           names == {r.path : r \in from}
<1>1. from # {}
  BY DEF RenamedFrom
<1>2. names \in SUBSET Int /\ IsFiniteSet(names) /\ names # {}
  <2>1. names \subseteq Paths
    OBVIOUS
  <2>2. QED
    BY <1>1, <2>1, ChangeTablesAssumption, FS_Subset
<1>3. PICK p \in names : \A q \in names : q <= p
  <2> HIDE DEF names
  <2>1. QED
    BY <1>2, HasMax
<1>4. \E r \in from : \A q \in from : q.path <= r.path
  BY <1>3
<1>5. (CHOOSE r \in from : \A q \in from : q.path <= r.path) \in from
  BY <1>4
<1>6. RenamedFrom(members) = (CHOOSE r \in from : \A q \in from : q.path <= r.path).rename_from
  BY <1>1 DEF RenamedFrom
<1>7. QED
  BY <1>5, <1>6

\* The grouped table has the primary key of `changes`, and two groups never
\* share a source.
LEMMA GroupedRows ==
    ASSUME OnePerSource(changes), \A r \in changes : r.path \in Paths,
           NEW groups, NEW strict
    PROVE  LET G == Grouped(groups, strict) IN
           /\ \A x \in G : \E r \in changes : x.rev = r.rev
           /\ \A r \in changes : Effective(groups, strict, r.path) # NoPath =>
                 \E x \in G : x.rev = r.rev /\ x.path = Effective(groups, strict, r.path)
           /\ OnePerPath(G) /\ OnePerSource(G)
<1> DEFINE G == Grouped(groups, strict)
           E(p) == Effective(groups, strict, p)
           kept == {r \in changes : E(r.path) # NoPath}
           Ms(k) == {r \in kept : r.rev = k[1] /\ E(r.path) = k[2]}
           Key(r) == <<r.rev, E(r.path)>>
<1>1. G = {Merged(k, Ms(k)) : k \in {Key(r) : r \in kept}}
  BY DEF Grouped
<1>2. \A k, ms : Merged(k, ms).rev = k[1] /\ Merged(k, ms).path = k[2]
                /\ Merged(k, ms).rename_from = RenamedFrom(ms)
  BY DEF Merged
<1>3. \A r : Key(r) = <<r.rev, E(r.path)>> /\ Key(r)[1] = r.rev /\ Key(r)[2] = E(r.path)
  OBVIOUS
<1>4. \A k : Ms(k) \subseteq changes /\ \A r \in Ms(k) : Key(r) = k \/ (r.rev = k[1] /\ E(r.path) = k[2])
  OBVIOUS
<1>5. \A k : RenamedFrom(Ms(k)) # NoPath =>
        \E r \in changes : r.rev = k[1] /\ E(r.path) = k[2] /\ r.rename_from = RenamedFrom(Ms(k))
  <2> SUFFICES ASSUME NEW k, RenamedFrom(Ms(k)) # NoPath
               PROVE  \E r \in changes : r.rev = k[1] /\ E(r.path) = k[2]
                                        /\ r.rename_from = RenamedFrom(Ms(k))
    OBVIOUS
  <2>1. \A r \in Ms(k) : r.path \in Paths /\ r \in changes /\ r.rev = k[1] /\ E(r.path) = k[2]
    OBVIOUS
  <2> HIDE DEF Ms, E
  <2>2. \E r \in Ms(k) : r.rename_from = RenamedFrom(Ms(k))
    BY <2>1, SourceOfAMember
  <2>3. QED
    BY <2>1, <2>2
<1> HIDE DEF G, Ms, Key, E
<1>6. \A x \in G : \E r \in kept : x = Merged(Key(r), Ms(Key(r))) /\ x.rev = r.rev /\ x.path = E(r.path)
  BY <1>1, <1>2, <1>3
<1>7. ASSUME NEW r \in kept PROVE \E x \in G : x.rev = r.rev /\ x.path = E(r.path)
  <2>1. Merged(Key(r), Ms(Key(r))) \in G
    BY <1>1
  <2>2. QED
    BY <2>1, <1>2, <1>3
<1>8. \A q, r \in kept : q.rev = r.rev /\ E(q.path) = E(r.path) => Key(q) = Key(r)
  BY <1>3
<1>9. OnePerPath(G)
  BY <1>6, <1>8 DEF OnePerPath
<1>10. ASSUME NEW x \in G, NEW y \in G, x.rev = y.rev,
              x.rename_from = y.rename_from, x.rename_from # NoPath
       PROVE  x = y
  <2>1. PICK q \in kept : x = Merged(Key(q), Ms(Key(q))) /\ x.rev = q.rev
    BY <1>6
  <2>2. PICK r \in kept : y = Merged(Key(r), Ms(Key(r))) /\ y.rev = r.rev
    BY <1>6
  <2>3. PICK s \in changes : s.rev = q.rev /\ E(s.path) = E(q.path) /\ s.rename_from = x.rename_from
    BY <1>2, <1>3, <1>5, <1>10, <2>1
  <2>4. PICK t \in changes : t.rev = r.rev /\ E(t.path) = E(r.path) /\ t.rename_from = y.rename_from
    BY <1>2, <1>3, <1>5, <1>10, <2>2
  <2>5. s = t
    BY <1>10, <2>1, <2>2, <2>3, <2>4 DEF OnePerSource
  <2>6. Key(q) = Key(r)
    BY <1>8, <1>10, <2>1, <2>2, <2>3, <2>4, <2>5
  <2>7. QED
    BY <2>1, <2>2, <2>6
<1>11. OnePerSource(G)
  BY <1>10 DEF OnePerSource
<1>12. QED
  BY <1>6, <1>7, <1>9, <1>11 DEF G, E

LEMMA ApplyGroupingKeepsInv == ASSUME Inv, ApplyGrouping PROVE Inv'
<1>1. PICK groups \in Groups, strict \in BOOLEAN :
         /\ changes' = Grouped(groups, strict)
         /\ hunks' = {h \in hunks : Survives(groups, strict, h)}
  BY DEF ApplyGrouping
<1>2. /\ phase = "ingested" /\ phase' = "grouped" /\ UNCHANGED history
      /\ lineage_built' = FALSE /\ bucketed_built' = NotBuilt
  BY DEF ApplyGrouping, invalidate_changes_derived
<1>3. HistoryInv' /\ dates' = dates
  BY <1>2, HistoryStays DEF Inv, history
<1>4. \A r \in changes : r.path \in Paths /\ r.path # NoPath /\ r.rev \in 1 .. Len(dates)
  BY <1>2, ChangeTablesAssumption DEF Inv, HistoryInv, TablesInv, NoPath
<1>5. /\ \A x \in changes' : \E r \in changes : x.rev = r.rev
      /\ \A r \in changes : Effective(groups, strict, r.path) # NoPath =>
            \E x \in changes' : x.rev = r.rev /\ x.path = Effective(groups, strict, r.path)
      /\ OnePerPath(changes') /\ OnePerSource(changes')
  BY <1>1, <1>4, GroupedRows DEF Inv, TablesInv
<1>6. ASSUME NEW h \in hunks'
      PROVE  h.rev \in 1 .. Len(dates) /\ \E x \in changes' : x.rev = h.rev /\ x.path = h.path
  <2>1. h \in hunks /\ Effective(groups, strict, h.path) = h.path
    BY <1>1, <1>6 DEF Survives
  <2>2. PICK r \in changes : r.rev = h.rev /\ r.path = h.path
    BY <2>1 DEF Inv, TablesInv, HunksKeepTheirChange
  <2>3. QED
    BY <1>4, <1>5, <2>1, <2>2
<1>7. TablesInv'
  <2>1. \A x \in changes' : x.rev \in 1 .. Len(dates')
    BY <1>3, <1>4, <1>5
  <2>2. (\A h \in hunks' : h.rev \in 1 .. Len(dates')) /\ HunksKeepTheirChange'
    BY <1>3, <1>6 DEF HunksKeepTheirChange
  <2>3. OnePerPath(changes)' /\ OnePerSource(changes)'
    BY <1>5 DEF OnePerPath, OnePerSource
  <2>4. QED
    BY <1>2, <2>1, <2>2, <2>3 DEF TablesInv
<1>8. GuardsInv'
  BY <1>2 DEF GuardsInv, DerivedTablesAreFresh
<1>9. QED
  BY <1>3, <1>7, <1>8 DEF Inv

LEMMA InvHolds == Spec => []Inv
<1>1. Inv /\ [Next]_vars => Inv'
  BY StutterKeepsInv, CommitKeepsInv, IngestKeepsInv, KameiKeepsInv, AnalyseKeepsInv,
     ApplyGroupingKeepsInv DEF Next
<1>2. QED
  BY InitInv, <1>1, PTL DEF Spec

-----------------------------------------------------------------------------
(* The theorems.                                                           *)

\* Types, and the primary keys of `changes` and `hunks`, after the grouping too
\* (schema.rs; grouping.rs, _changes_grouped).
THEOREM TypeCorrect == Spec => []TypeOK
<1>1. Inv => TypeOK
  BY DEF Inv, HistoryInv, TablesInv, GuardsInv, OnePerPath, TypeOK
<1>2. QED
  BY <1>1, InvHolds, PTL

\* The restore of the hunks cannot violate the foreign key (swap_grouped_tables).
THEOREM HunksKept == Spec => []HunksKeepTheirChange
<1>1. Inv => HunksKeepTheirChange
  BY DEF Inv, TablesInv
<1>2. QED
  BY <1>1, InvHolds, PTL

\* A derived table taken for built is that of the current changes (the guards of
\* FactsDb and their reset by apply_grouping).
THEOREM DerivedTablesFresh == Spec => []DerivedTablesAreFresh
<1>1. Inv => DerivedTablesAreFresh
  BY DEF Inv, GuardsInv
<1>2. QED
  BY <1>1, InvHolds, PTL

\* The walk's order is total, also where two commits have one date.
LEMMA NewerIsAnOrder ==
    ASSUME NEW commits \in Seq(Nat), NEW i \in 1 .. Len(commits), NEW j \in 1 .. Len(commits)
    PROVE  /\ Newer(commits, i, j) => ~ Newer(commits, j, i)
           /\ i # j => Newer(commits, i, j) \/ Newer(commits, j, i)
<1>1. commits[i] \in Nat /\ commits[j] \in Nat /\ i \in Int /\ j \in Int
  OBVIOUS
<1>2. QED
  BY <1>1 DEF Newer

\* A change falls within one retirement of its name at most: of two, the older one's
\* end is in the other's `before`.
LEMMA OneRetirement ==
    ASSUME NEW commits \in Seq(Nat), NEW rows,
           \A r \in rows : r.rev \in 1 .. Len(commits), OnePerSource(rows), NEW row \in rows,
           NEW q \in Renames(rows), Within(commits, row, Epoch(commits, rows, q)),
           NEW r \in Renames(rows), Within(commits, row, Epoch(commits, rows, r))
    PROVE  q = r
<1>1. /\ q.rename_from = row.path /\ Newer(commits, q.rev, row.rev)
      /\ \A p \in Renames(rows) : p.rename_from = q.rename_from /\ Newer(commits, q.rev, p.rev)
                                    => Newer(commits, row.rev, p.rev)
  BY DEF Within, Epoch
<1>2. /\ r.rename_from = row.path /\ Newer(commits, r.rev, row.rev)
      /\ \A p \in Renames(rows) : p.rename_from = r.rename_from /\ Newer(commits, r.rev, p.rev)
                                    => Newer(commits, row.rev, p.rev)
  BY DEF Within, Epoch
<1>3. q \in rows /\ r \in rows /\ q.rename_from # NoPath
  BY DEF Renames
<1>4. q.rev = r.rev
  <2>1. ~ Newer(commits, q.rev, r.rev)
    BY <1>1, <1>2, <1>3, NewerIsAnOrder
  <2>2. ~ Newer(commits, r.rev, q.rev)
    BY <1>1, <1>2, <1>3, NewerIsAnOrder
  <2>3. QED
    BY <1>3, <2>1, <2>2, NewerIsAnOrder
<1>5. QED
  BY <1>1, <1>2, <1>3, <1>4 DEF OnePerSource

\* The epochs of a name are disjoint.
LEMMA EpochsAreDisjoint ==
    ASSUME NEW commits \in Seq(Nat), NEW rows,
           \A r \in rows : r.rev \in 1 .. Len(commits), OnePerSource(rows),
           NEW row \in rows,
           NEW d \in path_lineage(commits, rows), Within(commits, row, d),
           NEW e \in path_lineage(commits, rows), Within(commits, row, e)
    PROVE  d = e
<1>1. PICK q \in Renames(rows) : d = Epoch(commits, rows, q)
  BY DEF path_lineage
<1>2. PICK r \in Renames(rows) : e = Epoch(commits, rows, r)
  BY DEF path_lineage
<1>3. q = r
  BY <1>1, <1>2, OneRetirement
<1>4. QED
  BY <1>1, <1>2, <1>3

\* A change is in changes_lineage once, whatever was renamed, re-used or grouped
\* and however dates go (the join of materialize_changes_lineage).
THEOREM OneImage == Spec => []OneImagePerRow
<1>1. ASSUME Inv, NEW row \in changes PROVE Cardinality(Canonical(dates, changes, row)) = 1
  <2> DEFINE epochs == {e \in path_lineage(dates, changes) : Within(dates, row, e)}
             names == {e.canonical : e \in epochs}
  <2>1. dates \in Seq(Nat)
    BY <1>1, ChangeTablesAssumption DEF Inv, HistoryInv
  <2>2. (\A r \in changes : r.rev \in 1 .. Len(dates)) /\ OnePerSource(changes)
    BY <1>1 DEF Inv, TablesInv
  <2>3. \A d, e \in epochs : d = e
    BY <2>1, <2>2, EpochsAreDisjoint
  <2>4. Canonical(dates, changes, row) = IF names = {} THEN {row.path} ELSE names
    BY DEF Canonical
  <2> HIDE DEF epochs
  <2>5. \E p : Canonical(dates, changes, row) = {p}
    <3>1. CASE names = {}
      BY <2>4, <3>1
    <3>2. CASE names # {}
      <4>1. PICK e \in epochs : TRUE
        BY <3>2
      <4>2. names = {e.canonical}
        BY <2>3, <4>1
      <4>3. QED
        BY <2>4, <3>2, <4>2
    <3>3. QED
      BY <3>1, <3>2
  <2>6. QED
    BY <2>5, FS_Singleton
<1>2. Inv => OneImagePerRow
  BY <1>1 DEF OneImagePerRow
<1>3. QED
  BY <1>2, InvHolds, PTL

-------------------------------------------------------------------------------
(* The lineage.  What became of the file of each change: it is where the    *)
(* change left it, or the first change to take it away is in the log; and a *)
(* file's name changes by its renames only.                                 *)

Departs(d) == d.row.type \in {"renamed", "deleted"}

\* The file of change c is where that change left it, ...
Current(c) ==
    /\ c.row.path \in DOMAIN tree /\ tree[c.row.path] = c.file
    /\ \A e \in log : e.file = c.file /\ e.row.rev > c.row.rev => ~Departs(e)
    /\ \A e \in log : e.row.rev >= c.row.rev => e.row.rename_from # c.row.path

\* ... or change d is the first to take it away.
Leaves(c, d) ==
    /\ d.file = c.file /\ d.row.rev > c.row.rev
    /\ d.row.type = "deleted" \/ d.row.rename_from = c.row.path
    /\ \A e \in log : e.file = c.file /\ e.row.rev > c.row.rev /\ e.row.rev < d.row.rev => ~Departs(e)
    /\ \A e \in log : e.row.rev >= c.row.rev /\ e.row.rev < d.row.rev
                         => e.row.rename_from # c.row.path

TreeInv ==
    /\ \A p \in DOMAIN tree : tree[p][1] \in 1 .. Len(dates)
    /\ \A p, q \in DOMAIN tree : tree[p] = tree[q] => p = q
    /\ \A p \in DOMAIN tree : \E c \in log : c.file = tree[p] /\ c.row.path = p

RowsInv ==
    /\ \A c \in log : c.file[1] \in 1 .. Len(dates)
    /\ \A c \in log : c.row.type = "renamed" <=> c.row.rename_from # NoPath
    /\ \A c, d \in log : c.file = d.file /\ c.row.rev = d.row.rev => c = d
    /\ \A r \in log : r.row.rename_from # NoPath =>
          \E c \in log : c.file = r.file /\ c.row.path = r.row.rename_from

\* A deleted file is gone.
DeletedInv ==
    \A c \in log : c.row.type = "deleted" =>
        /\ \A p \in DOMAIN tree : tree[p] # c.file
        /\ \A e \in log : e.file = c.file => e.row.rev <= c.row.rev

LeavesInv == \A c \in log : c.row.type # "deleted" => Current(c) \/ \E d \in log : Leaves(c, d)

\* A name changes by a rename.
NamesInv ==
    /\ \A p \in DOMAIN tree, c \in log : c.file = tree[p] /\ c.row.path # p =>
          \E t \in log : t.file = c.file /\ t.row.type = "renamed" /\ t.row.rev > c.row.rev
    /\ \A c, e \in log : c.file = e.file /\ c.row.rev < e.row.rev /\ c.row.path # e.row.path =>
          \E t \in log : /\ t.file = c.file /\ t.row.type = "renamed"
                         /\ t.row.rev > c.row.rev /\ t.row.rev <= e.row.rev

LineageInv == TreeInv /\ RowsInv /\ DeletedInv /\ LeavesInv /\ NamesInv

IsChange(c) == c = Change(c.file, c.row.rev, c.row.path, c.row.type, c.row.rename_from)

\* The four kinds of change of a commit to the tree of paths `new`.
Adds(c, new, moved) ==
    /\ c.row.type = "added" /\ c.row.rename_from = NoPath
    /\ c.row.path \in new \ DOMAIN tree /\ \A m \in moved : m[2] # c.row.path
    /\ c.file = <<Len(dates) + 1, c.row.path>>
Moves(c, m) ==
    /\ c.row.type = "renamed" /\ c.row.rename_from = m[1] /\ c.row.path = m[2]
    /\ c.file = tree[m[1]]
Deletes(c, new, moved) ==
    /\ c.row.type = "deleted" /\ c.row.rename_from = NoPath
    /\ c.row.path \in DOMAIN tree \ new /\ \A m \in moved : m[1] # c.row.path
    /\ c.file = tree[c.row.path]
Modifies(c, new) ==
    /\ c.row.type = "modified" /\ c.row.rename_from = NoPath
    /\ c.row.path \in DOMAIN tree \cap new /\ c.file = tree[c.row.path]

LEMMA TouchedKinds ==
    ASSUME NEW new, NEW moved, NEW modified, modified \subseteq DOMAIN tree \cap new
    PROVE  LET T == Touched(new, moved, modified) IN
           /\ \A c \in T : /\ c.row.rev = Len(dates) + 1 /\ IsChange(c)
                          /\ \/ Adds(c, new, moved) \/ Deletes(c, new, moved) \/ Modifies(c, new)
                             \/ \E m \in moved : Moves(c, m)
           /\ \A p \in new \ DOMAIN tree : (\A m \in moved : m[2] # p) =>
                 \E c \in T : Adds(c, new, moved) /\ c.row.path = p
           /\ \A m \in moved : \E c \in T : Moves(c, m)
           /\ \A p \in DOMAIN tree \ new : (\A m \in moved : m[1] # p) =>
                 \E c \in T : Deletes(c, new, moved) /\ c.row.path = p
<1> DEFINE T == Touched(new, moved, modified)
           n == Len(dates) + 1
           A == new \ (DOMAIN tree \cup {m[2] : m \in moved})
           D == DOMAIN tree \ (new \cup {m[1] : m \in moved})
<1>1. T = {Change(<<n, p>>, n, p, "added", NoPath) : p \in A}
          \cup {Change(tree[m[1]], n, m[2], "renamed", m[1]) : m \in moved}
          \cup {Change(tree[p], n, p, "deleted", NoPath) : p \in D}
          \cup {Change(tree[p], n, p, "modified", NoPath) : p \in modified}
  BY DEF Touched
<1>2. \A f, r, p, t, g : LET c == Change(f, r, p, t, g) IN
        /\ c.file = f /\ c.row.rev = r /\ c.row.path = p /\ c.row.type = t /\ c.row.rename_from = g
  BY DEF Change
<1>3. \A p \in A : LET c == Change(<<n, p>>, n, p, "added", NoPath) IN
        Adds(c, new, moved) /\ c.row.rev = n /\ IsChange(c) /\ c.row.path = p
  BY <1>2 DEF Adds, IsChange
<1>4. \A m \in moved : LET c == Change(tree[m[1]], n, m[2], "renamed", m[1]) IN
        Moves(c, m) /\ c.row.rev = n /\ IsChange(c)
  BY <1>2 DEF Moves, IsChange
<1>5. \A p \in D : LET c == Change(tree[p], n, p, "deleted", NoPath) IN
        Deletes(c, new, moved) /\ c.row.rev = n /\ IsChange(c) /\ c.row.path = p
  BY <1>2 DEF Deletes, IsChange
<1>6. \A p \in modified : LET c == Change(tree[p], n, p, "modified", NoPath) IN
        Modifies(c, new) /\ c.row.rev = n /\ IsChange(c)
  BY <1>2 DEF Modifies, IsChange
<1> HIDE DEF T
<1>7. ASSUME NEW c \in T
      PROVE  /\ c.row.rev = n /\ IsChange(c)
             /\ \/ Adds(c, new, moved) \/ Deletes(c, new, moved) \/ Modifies(c, new)
                \/ \E m \in moved : Moves(c, m)
  <2>1. CASE \E p \in A : c = Change(<<n, p>>, n, p, "added", NoPath)
    BY <1>3, <2>1
  <2>2. CASE \E m \in moved : c = Change(tree[m[1]], n, m[2], "renamed", m[1])
    BY <1>4, <2>2
  <2>3. CASE \E p \in D : c = Change(tree[p], n, p, "deleted", NoPath)
    BY <1>5, <2>3
  <2>4. CASE \E p \in modified : c = Change(tree[p], n, p, "modified", NoPath)
    BY <1>6, <2>4
  <2>5. QED
    BY <1>1, <2>1, <2>2, <2>3, <2>4
<1>8. ASSUME NEW p \in A PROVE \E c \in T : Adds(c, new, moved) /\ c.row.path = p
  BY <1>1, <1>3
<1>9. ASSUME NEW m \in moved PROVE \E c \in T : Moves(c, m)
  BY <1>1, <1>4
<1>10. ASSUME NEW p \in D PROVE \E c \in T : Deletes(c, new, moved) /\ c.row.path = p
  BY <1>1, <1>5
<1>11. QED
  BY <1>7, <1>8, <1>9, <1>10 DEF T

\* What a commit does to the log and to the tree.
CommitsTo(T, new, moved) ==
    /\ log' = log \cup T
    /\ Len(dates) \in Nat /\ Len(dates') = Len(dates) + 1 /\ DOMAIN tree' = new
    /\ \A m \in moved : m[1] \in DOMAIN tree \ new /\ m[2] \in new \ DOMAIN tree
    /\ \A m, k \in moved : (m[1] = k[1] \/ m[2] = k[2]) => m = k
    /\ \A c \in T : /\ c.row.rev = Len(dates) + 1 /\ IsChange(c)
                   /\ \/ Adds(c, new, moved) \/ Deletes(c, new, moved) \/ Modifies(c, new)
                      \/ \E m \in moved : Moves(c, m)
    /\ \A p \in new \cap DOMAIN tree : tree'[p] = tree[p]
    /\ \A m \in moved : tree'[m[2]] = tree[m[1]] /\ \E c \in T : Moves(c, m)
    /\ \A p \in new \ DOMAIN tree : (\A m \in moved : m[2] # p) =>
          tree'[p] = <<Len(dates) + 1, p>> /\ \E c \in T : Adds(c, new, moved) /\ c.row.path = p
    /\ \A p \in DOMAIN tree \ new : (\A m \in moved : m[1] # p) =>
          \E c \in T : Deletes(c, new, moved) /\ c.row.path = p
    /\ \A p \in DOMAIN tree \cup new : p # NoPath

LEMMA CommitEffect ==
    ASSUME HistoryInv, Commit PROVE \E T, new, moved : CommitsTo(T, new, moved)
<1>0. PICK date \in Dates, new \in SUBSET Paths :
         \E moved \in Pairings(new), modified \in SUBSET (DOMAIN tree \cap new) :
            /\ log' = log \cup Touched(new, moved, modified)
            /\ tree' = [p \in new |-> FileAt(moved, p)]
            /\ dates' = Append(dates, date)
  BY DEF Commit
<1>1. PICK moved \in Pairings(new), modified \in SUBSET (DOMAIN tree \cap new) :
         /\ log' = log \cup Touched(new, moved, modified)
         /\ tree' = [p \in new |-> FileAt(moved, p)]
         /\ dates' = Append(dates, date)
  BY <1>0
<1> DEFINE T == Touched(new, moved, modified)
<1>2. /\ \A m \in moved : m[1] \in DOMAIN tree \ new /\ m[2] \in new \ DOMAIN tree
      /\ \A m, k \in moved : (m[1] = k[1] \/ m[2] = k[2]) => m = k
  BY DEF Pairings
<1>3. Len(dates) \in Nat /\ Len(dates') = Len(dates) + 1 /\ DOMAIN tree' = new
  BY <1>1 DEF HistoryInv
<1>4. \A p \in DOMAIN tree \cup new : p # NoPath
  BY ChangeTablesAssumption DEF HistoryInv, NoPath
<1>5. \A p \in new \cap DOMAIN tree : tree'[p] = tree[p]
  BY <1>1 DEF FileAt
<1>6. ASSUME NEW m \in moved PROVE tree'[m[2]] = tree[m[1]]
  <2>1. (CHOOSE k \in moved : k[2] = m[2]) = m
    BY <1>2
  <2>2. QED
    BY <1>1, <1>2, <2>1 DEF FileAt
<1>7. \A p \in new \ DOMAIN tree : (\A m \in moved : m[2] # p) => tree'[p] = <<Len(dates) + 1, p>>
  BY <1>1 DEF FileAt
<1>8. /\ \A c \in T : /\ c.row.rev = Len(dates) + 1 /\ IsChange(c)
                     /\ \/ Adds(c, new, moved) \/ Deletes(c, new, moved) \/ Modifies(c, new)
                        \/ \E m \in moved : Moves(c, m)
      /\ \A p \in new \ DOMAIN tree : (\A m \in moved : m[2] # p) =>
            \E c \in T : Adds(c, new, moved) /\ c.row.path = p
      /\ \A m \in moved : \E c \in T : Moves(c, m)
      /\ \A p \in DOMAIN tree \ new : (\A m \in moved : m[1] # p) =>
            \E c \in T : Deletes(c, new, moved) /\ c.row.path = p
  BY TouchedKinds
<1>9. log' = log \cup T
  BY <1>1
<1> HIDE DEF T
<1>10. CommitsTo(T, new, moved)
  BY <1>2, <1>3, <1>4, <1>5, <1>6, <1>7, <1>8, <1>9 DEF CommitsTo
<1>11. QED
  BY <1>10

LEMMA OldRows == ASSUME HistoryInv PROVE \A c \in log : c.row.rev \in 1 .. Len(dates)
  BY DEF HistoryInv, LogRows

\* A change is of a new file, or of one of the tree.
LEMMA FilesTouched ==
    ASSUME NEW T, NEW new, NEW moved, CommitsTo(T, new, moved), NEW c \in T
    PROVE  \/ Adds(c, new, moved)
           \/ \E p \in DOMAIN tree :
                 /\ c.file = tree[p]
                 /\ \/ p \notin new /\ c.row.type = "renamed" /\ c.row.rename_from = p
                    \/ p \notin new /\ c.row.type = "deleted" /\ c.row.path = p
                    \/ p \in new /\ c.row.type = "modified" /\ c.row.path = p
  BY DEF CommitsTo, Moves, Deletes, Modifies

\* A file of the new tree is new, or was in the old one.
LEMMA FilesLeft ==
    ASSUME NEW T, NEW new, NEW moved, CommitsTo(T, new, moved), NEW q \in new
    PROVE  \/ q \notin DOMAIN tree /\ (\A m \in moved : m[2] # q) /\ tree'[q] = <<Len(dates) + 1, q>>
           \/ q \in DOMAIN tree /\ tree'[q] = tree[q]
           \/ \E m \in moved : m[2] = q /\ tree'[q] = tree[m[1]]
  BY DEF CommitsTo

LEMMA TreeStep ==
    ASSUME HistoryInv, TreeInv, NEW T, NEW new, NEW moved, CommitsTo(T, new, moved)
    PROVE  TreeInv'
<1> DEFINE n == Len(dates) + 1
<1>0. DOMAIN tree' = new /\ Len(dates') = n /\ Len(dates) \in Nat /\ log' = log \cup T
  BY DEF CommitsTo
<1>1. \A m \in moved : m[1] \in DOMAIN tree \ new /\ m[2] \in new \ DOMAIN tree
  BY DEF CommitsTo
<1>2. \A m, k \in moved : m[1] = k[1] => m = k
  BY DEF CommitsTo
<1>3. ASSUME NEW q \in new PROVE tree'[q][1] \in 1 .. n
  BY <1>0, <1>1, <1>3, FilesLeft DEF TreeInv
<1>4. ASSUME NEW p \in new, NEW q \in new, tree'[p] = tree'[q] PROVE p = q
  <2>1. \A r \in DOMAIN tree : tree[r][1] # n
    BY <1>0 DEF TreeInv
  <2>2. \A r : <<n, r>>[1] = n /\ <<n, r>>[2] = r
    OBVIOUS
  <2>3. \/ tree'[p] = <<n, p>>
        \/ p \in DOMAIN tree /\ tree'[p] = tree[p]
        \/ \E m \in moved : m[2] = p /\ tree'[p] = tree[m[1]]
    BY FilesLeft
  <2>4. \/ tree'[q] = <<n, q>>
        \/ q \in DOMAIN tree /\ tree'[q] = tree[q]
        \/ \E m \in moved : m[2] = q /\ tree'[q] = tree[m[1]]
    BY FilesLeft
  <2> HIDE DEF n
  <2>5. CASE tree'[p] = <<n, p>>
    BY <1>1, <1>4, <2>1, <2>2, <2>4, <2>5
  <2>6. CASE p \in DOMAIN tree /\ tree'[p] = tree[p]
    BY <1>1, <1>4, <2>1, <2>2, <2>4, <2>6 DEF TreeInv
  <2>7. CASE \E m \in moved : m[2] = p /\ tree'[p] = tree[m[1]]
    <3>1. PICK m \in moved : m[2] = p /\ tree'[p] = tree[m[1]]
      BY <2>7
    <3>2. CASE \E k \in moved : k[2] = q /\ tree'[q] = tree[k[1]]
      <4>1. PICK k \in moved : k[2] = q /\ tree'[q] = tree[k[1]]
        BY <3>2
      <4>2. m[1] = k[1]
        BY ZenonT(40), <1>1, <1>4, <3>1, <4>1 DEF TreeInv
      <4>3. QED
        BY <1>2, <3>1, <4>1, <4>2
    <3>3. CASE ~ \E k \in moved : k[2] = q /\ tree'[q] = tree[k[1]]
      BY <1>1, <1>4, <2>1, <2>2, <2>4, <3>1, <3>3 DEF TreeInv
    <3>4. QED
      BY <3>2, <3>3
  <2>8. QED
    BY <2>3, <2>5, <2>6, <2>7
<1>5. ASSUME NEW q \in new PROVE \E c \in log' : c.file = tree'[q] /\ c.row.path = q
  <2>1. CASE q \in DOMAIN tree /\ tree'[q] = tree[q]
    BY <1>0, <2>1 DEF TreeInv
  <2>2. CASE \E m \in moved : m[2] = q /\ tree'[q] = tree[m[1]]
    BY <1>0, <2>2 DEF CommitsTo, Moves
  <2>3. CASE q \notin DOMAIN tree /\ \A m \in moved : m[2] # q
    <3>1. tree'[q] = <<n, q>> /\ \E c \in T : Adds(c, new, moved) /\ c.row.path = q
      BY <2>3 DEF CommitsTo
    <3>2. QED
      BY <1>0, <3>1 DEF Adds
  <2>4. QED
    BY <2>1, <2>2, <2>3, FilesLeft
<1>6. QED
  BY <1>0, <1>3, <1>4, <1>5 DEF TreeInv

LEMMA RowsStep ==
    ASSUME HistoryInv, TreeInv, RowsInv, NEW T, NEW new, NEW moved, CommitsTo(T, new, moved)
    PROVE  RowsInv'
<1> DEFINE n == Len(dates) + 1
<1>0. Len(dates') = n /\ Len(dates) \in Nat /\ log' = log \cup T
  BY DEF CommitsTo
<1>1. \A c \in T : c.row.rev = n /\ IsChange(c)
  BY DEF CommitsTo
<1>2. \A p \in DOMAIN tree : p # NoPath /\ tree[p][1] \in 1 .. Len(dates)
  BY DEF CommitsTo, TreeInv
<1>3. ASSUME NEW c \in T PROVE c.file[1] \in 1 .. n
  BY <1>0, <1>2, FilesTouched DEF Adds
<1>4. ASSUME NEW c \in T PROVE c.row.type = "renamed" <=> c.row.rename_from # NoPath
  BY <1>2 DEF CommitsTo, Adds, Moves, Deletes, Modifies
<1>5. ASSUME NEW c \in T, NEW d \in T, c.file = d.file PROVE c = d
  <2>1. \A p : <<n, p>>[1] = n /\ <<n, p>>[2] = p
    OBVIOUS
  <2>2. \/ Adds(c, new, moved) /\ Adds(d, new, moved)
        \/ \E p \in DOMAIN tree : c.file = tree[p] /\ d.file = tree[p]
    BY <1>0, <1>2, <1>5, <2>1, FilesTouched DEF Adds
  <2>3. CASE Adds(c, new, moved) /\ Adds(d, new, moved)
    <3>1. c.row.path = d.row.path
      BY ZenonT(40), <1>5, <2>1, <2>3 DEF Adds
    <3>2. QED
      BY <1>1, <1>5, <2>3, <3>1 DEF Adds, IsChange
  <2>4. ASSUME NEW p \in DOMAIN tree, c.file = tree[p], d.file = tree[p] PROVE c = d
    <3>0. ~Adds(c, new, moved) /\ ~Adds(d, new, moved)
      BY <1>0, <1>2, <2>1, <2>4 DEF Adds
    <3>1. \A q \in DOMAIN tree : tree[q] = tree[p] => q = p
      BY DEF TreeInv
    <3>2. \/ p \notin new /\ c.row.type = "renamed" /\ c.row.rename_from = p
          \/ p \notin new /\ c.row.type = "deleted" /\ c.row.path = p
          \/ p \in new /\ c.row.type = "modified" /\ c.row.path = p
      BY <2>4, <3>0, <3>1, FilesTouched
    <3>3. \/ p \notin new /\ d.row.type = "renamed" /\ d.row.rename_from = p
          \/ p \notin new /\ d.row.type = "deleted" /\ d.row.path = p
          \/ p \in new /\ d.row.type = "modified" /\ d.row.path = p
      BY <2>4, <3>0, <3>1, FilesTouched
    <3>4. /\ \A e \in T : e.row.type = "renamed" => \E m \in moved : Moves(e, m)
          /\ \A e \in T : e.row.type = "deleted" => Deletes(e, new, moved)
          /\ \A e \in T : e.row.type = "modified" => Modifies(e, new)
      BY DEF CommitsTo, Adds, Moves, Deletes, Modifies
    <3>5. \A m, k \in moved : m[1] = k[1] => m = k
      BY DEF CommitsTo
    <3>6. ASSUME c.row.type = "deleted", d.row.type = "renamed" PROVE FALSE
      BY <3>2, <3>3, <3>4, <3>6 DEF Deletes, Moves
    <3>7. ASSUME d.row.type = "deleted", c.row.type = "renamed" PROVE FALSE
      BY <3>2, <3>3, <3>4, <3>7 DEF Deletes, Moves
    <3>8. c.row.type = d.row.type
      BY <3>2, <3>3, <3>6, <3>7
    <3>9. CASE c.row.type = "renamed"
      <4>1. PICK m \in moved, k \in moved : Moves(c, m) /\ Moves(d, k)
        BY <3>4, <3>8, <3>9
      <4>2. m = k
        BY <3>2, <3>3, <3>5, <3>8, <3>9, <4>1 DEF Moves
      <4>3. QED
        BY <1>1, <1>5, <4>1, <4>2 DEF Moves, IsChange
    <3>10. CASE c.row.type # "renamed"
      <4>1. c.row.path = d.row.path /\ c.row.rename_from = d.row.rename_from
        BY <3>2, <3>3, <3>4, <3>8, <3>10 DEF Deletes, Modifies
      <4>2. QED
        BY <1>1, <1>5, <3>8, <4>1 DEF IsChange
    <3>11. QED
      BY <3>9, <3>10
  <2>5. QED
    BY <2>2, <2>3, <2>4
<1>6. ASSUME NEW c \in log, NEW d \in T PROVE c.row.rev # d.row.rev
  BY <1>0, <1>1, OldRows
<1>7. ASSUME NEW r \in T, r.row.rename_from # NoPath
      PROVE  \E c \in log' : c.file = r.file /\ c.row.path = r.row.rename_from
  <2>1. PICK p \in DOMAIN tree : r.file = tree[p] /\ r.row.rename_from = p
    BY <1>7 DEF CommitsTo, Adds, Moves, Deletes, Modifies
  <2>2. QED
    BY <1>0, <2>1 DEF TreeInv
<1> HIDE DEF n
<1>8. \A c \in log' : c.file[1] \in 1 .. n
  BY <1>0, <1>3 DEF RowsInv, n
<1>9. \A c, d \in log' : c.file = d.file /\ c.row.rev = d.row.rev => c = d
  BY <1>0, <1>5, <1>6 DEF RowsInv
<1>10. QED
  BY <1>0, <1>4, <1>7, <1>8, <1>9 DEF RowsInv

LEMMA DeletedStep ==
    ASSUME HistoryInv, TreeInv, RowsInv, DeletedInv,
           NEW T, NEW new, NEW moved, CommitsTo(T, new, moved)
    PROVE  DeletedInv'
<1> DEFINE n == Len(dates) + 1
<1>0. Len(dates') = n /\ Len(dates) \in Nat /\ log' = log \cup T /\ DOMAIN tree' = new
  BY DEF CommitsTo
<1>1. \A c \in T : c.row.rev = n
  BY DEF CommitsTo
<1>2. \A m \in moved : m[1] \in DOMAIN tree \ new /\ m[2] \in new \ DOMAIN tree
  BY DEF CommitsTo
<1>3. \A p : <<n, p>>[1] = n
  OBVIOUS
<1>4. \A c \in log : c.file[1] # n /\ c.row.rev < n
  BY <1>0, OldRows DEF RowsInv
<1>5. \A p \in DOMAIN tree : tree[p][1] # n
  BY <1>0 DEF TreeInv
<1>6. ASSUME NEW c \in log, c.row.type = "deleted", NEW q \in new PROVE tree'[q] # c.file
  BY <1>2, <1>3, <1>4, <1>6, FilesLeft DEF DeletedInv
<1>7. ASSUME NEW c \in log, c.row.type = "deleted", NEW e \in T PROVE e.file # c.file
  BY <1>3, <1>4, <1>7, FilesTouched DEF DeletedInv, Adds
<1>8. ASSUME NEW c \in T, c.row.type = "deleted", NEW q \in new PROVE tree'[q] # c.file
  <2>1. Deletes(c, new, moved)
    BY <1>8 DEF CommitsTo, Adds, Moves, Modifies
  <2>2. /\ c.file = tree[c.row.path] /\ c.row.path \in DOMAIN tree \ new
        /\ \A m \in moved : m[1] # c.row.path
    BY <2>1 DEF Deletes
  <2>3. \A p \in DOMAIN tree : tree[p] = c.file => p = c.row.path
    BY <2>2 DEF TreeInv
  <2>4. QED
    BY <1>2, <1>3, <1>5, <2>2, <2>3, FilesLeft
<1>9. \A e \in log' : e.row.rev \in Int /\ e.row.rev <= n
  BY <1>0, <1>1, <1>4, OldRows
<1>10. \A c \in log' : c.row.type = "deleted" => \A q \in new : tree'[q] # c.file
  BY <1>0, <1>6, <1>8
<1>11. ASSUME NEW c \in log', c.row.type = "deleted", NEW e \in log', e.file = c.file
       PROVE  e.row.rev <= c.row.rev
  <2>1. CASE c \in T
    BY <1>1, <1>9, <2>1
  <2>2. CASE c \notin T
    BY <1>0, <1>7, <1>11, <2>2 DEF DeletedInv
  <2>3. QED
    BY <2>1, <2>2
<1>12. QED
  BY <1>0, <1>10, <1>11 DEF DeletedInv

\* A commit leaves a file whose change it makes, and does not delete, at the name
\* in that change.
LEMMA LeftThere ==
    ASSUME NEW T, NEW new, NEW moved, CommitsTo(T, new, moved), NEW c \in T,
           c.row.type # "deleted"
    PROVE  c.row.path \in new /\ tree'[c.row.path] = c.file
  BY DEF CommitsTo, Adds, Moves, Deletes, Modifies

LEMMA LeavesStep ==
    ASSUME HistoryInv, TreeInv, RowsInv, LeavesInv,
           NEW T, NEW new, NEW moved, CommitsTo(T, new, moved)
    PROVE  LeavesInv'
<1> DEFINE n == Len(dates) + 1
<1>0. Len(dates) \in Nat /\ log' = log \cup T /\ DOMAIN tree' = new
  BY DEF CommitsTo
<1>1. \A c \in T : c.row.rev = n
  BY DEF CommitsTo
<1>2. \A e \in T, p \in new : e.row.rename_from # p
  BY DEF CommitsTo, Adds, Moves, Deletes, Modifies
<1>3. \A c \in log : c.file[1] # n /\ c.row.rev < n /\ c.row.rev \in Int
  BY <1>0, OldRows DEF RowsInv
<1>4. n \in Int /\ ~ (n < n) /\ ~ (n > n)
  BY <1>0
<1>5. \A p : <<n, p>>[1] = n
  OBVIOUS
<1>6. ASSUME NEW c \in log, NEW d \in log, Leaves(c, d) PROVE Leaves(c, d)'
  <2>1. \A e \in T : ~ (e.row.rev < d.row.rev)
    BY <1>1, <1>3, <1>4
  <2>2. QED
    BY <1>0, <1>6, <2>1 DEF Leaves, Departs
<1>7. ASSUME NEW c \in log, Current(c), c.row.path \in new PROVE Current(c)'
  <2>1. tree'[c.row.path] = c.file
    BY <1>7 DEF Current, CommitsTo
  <2>2. ASSUME NEW e \in T, e.file = c.file PROVE ~Departs(e)
    <3>1. ~Adds(e, new, moved)
      BY <1>3, <1>5, <2>2 DEF Adds
    <3>2. PICK p \in DOMAIN tree : e.file = tree[p] /\ (p \in new => e.row.type = "modified")
      BY <3>1, FilesTouched
    <3>3. p = c.row.path
      BY <1>7, <2>2, <3>2 DEF Current, TreeInv
    <3>4. QED
      BY <1>7, <3>2, <3>3 DEF Departs
  <2>3. QED
    BY <1>0, <1>2, <1>7, <2>1, <2>2 DEF Current, Departs
<1>8. ASSUME NEW c \in log, Current(c), c.row.path \notin new PROVE \E d \in T : Leaves(c, d)'
  <2>1. c.row.path \in DOMAIN tree \ new /\ tree[c.row.path] = c.file
    BY <1>8 DEF Current
  <2>2. PICK d \in T : d.file = c.file /\ (d.row.type = "deleted" \/ d.row.rename_from = c.row.path)
    <3>1. CASE \E m \in moved : m[1] = c.row.path
      BY <2>1, <3>1 DEF CommitsTo, Moves
    <3>2. CASE ~ \E m \in moved : m[1] = c.row.path
      BY <2>1, <3>2 DEF CommitsTo, Deletes
    <3>3. QED
      BY <3>1, <3>2
  <2>3. d.row.rev > c.row.rev
    BY <1>1, <1>3, <1>4
  <2>4. \A e \in T : ~ (e.row.rev < d.row.rev)
    BY <1>1, <1>4
  <2>5. QED
    BY <1>0, <1>8, <2>2, <2>3, <2>4 DEF Current, Leaves, Departs
<1>9. ASSUME NEW c \in T, c.row.type # "deleted" PROVE Current(c)'
  <2>1. c.row.path \in new /\ tree'[c.row.path] = c.file
    BY <1>9, LeftThere
  <2>2. \A e \in log' : ~ (e.row.rev > c.row.rev)
    BY <1>0, <1>1, <1>3, <1>4
  <2>3. \A e \in log' : e.row.rev >= c.row.rev => e \in T
    BY <1>0, <1>1, <1>3, <1>4
  <2>4. QED
    BY <1>0, <1>2, <2>1, <2>2, <2>3 DEF Current
<1>10. QED
  BY <1>0, <1>6, <1>7, <1>8, <1>9 DEF LeavesInv

LEMMA NamesStep ==
    ASSUME HistoryInv, TreeInv, RowsInv, NamesInv, TreeInv', DeletedInv',
           NEW T, NEW new, NEW moved, CommitsTo(T, new, moved)
    PROVE  NamesInv'
<1> DEFINE n == Len(dates) + 1
<1>0. Len(dates) \in Nat /\ log' = log \cup T /\ DOMAIN tree' = new
  BY DEF CommitsTo
<1>1. \A c \in T : c.row.rev = n
  BY DEF CommitsTo
<1>2. \A c \in log : c.file[1] # n /\ c.row.rev < n /\ c.row.rev \in Int
  BY <1>0, OldRows DEF RowsInv
<1>3. n \in Int /\ ~ (n < n)
  BY <1>0
<1>4. \A p : <<n, p>>[1] = n
  OBVIOUS
<1>5. ASSUME NEW p \in new, NEW c \in log', c.file = tree'[p], c.row.path # p
      PROVE  \E t \in log' : t.file = c.file /\ t.row.type = "renamed" /\ t.row.rev > c.row.rev
  <2>1. CASE c \in T
    <3>1. c.row.type # "deleted"
      BY <1>0, <1>5 DEF DeletedInv
    <3>2. c.row.path \in new /\ tree'[c.row.path] = c.file
      BY <2>1, <3>1, LeftThere
    <3>3. QED
      BY <1>0, <1>5, <3>2 DEF TreeInv
  <2>2. CASE c \in log
    <3>1. CASE p \in DOMAIN tree /\ tree'[p] = tree[p]
      BY <1>0, <1>5, <2>2, <3>1 DEF NamesInv
    <3>2. CASE \E m \in moved : m[2] = p /\ tree'[p] = tree[m[1]]
      <4>1. PICK t \in T : t.file = c.file /\ t.row.type = "renamed"
        BY <1>5, <3>2 DEF CommitsTo, Moves
      <4>2. t.row.rev > c.row.rev
        BY <1>1, <1>2, <1>3, <2>2
      <4>3. QED
        BY <1>0, <4>1, <4>2
    <3>3. QED
      BY <1>2, <1>4, <1>5, <2>2, <3>1, <3>2, FilesLeft
  <2>3. QED
    BY <1>0, <2>1, <2>2
<1>6. ASSUME NEW c \in log', NEW e \in log', c.file = e.file, c.row.rev < e.row.rev,
             c.row.path # e.row.path
      PROVE  \E t \in log' : /\ t.file = c.file /\ t.row.type = "renamed"
                             /\ t.row.rev > c.row.rev /\ t.row.rev <= e.row.rev
  <2>1. c \in log
    BY <1>0, <1>1, <1>2, <1>3, <1>6
  <2>2. CASE e \in log
    BY <1>0, <1>6, <2>1, <2>2 DEF NamesInv
  <2>3. CASE e \in T
    <3>1. ~Adds(e, new, moved)
      BY <1>2, <1>4, <1>6, <2>1 DEF Adds
    <3>2. PICK p \in DOMAIN tree : e.file = tree[p] /\ (e.row.type = "renamed" \/ e.row.path = p)
      BY <2>3, <3>1, FilesTouched
    <3>3. CASE e.row.type = "renamed"
      <4>1. e.row.rev > c.row.rev /\ e.row.rev <= e.row.rev
        BY <1>1, <1>2, <1>3, <2>1, <2>3
      <4>2. QED
        BY <1>0, <1>6, <2>3, <3>3, <4>1
    <3>4. CASE e.row.path = p
      <4>1. PICK t \in log : t.file = c.file /\ t.row.type = "renamed" /\ t.row.rev > c.row.rev
        BY <1>6, <2>1, <3>2, <3>4 DEF NamesInv
      <4>2. t.row.rev <= e.row.rev
        BY <1>1, <1>2, <1>3, <2>3
      <4>3. QED
        BY <1>0, <4>1, <4>2
    <3>5. QED
      BY <3>2, <3>3, <3>4
  <2>4. QED
    BY <1>0, <2>2, <2>3
<1>7. QED
  BY <1>0, <1>5, <1>6 DEF NamesInv

LEMMA LineageStep == ASSUME Inv, LineageInv, [Next]_vars PROVE LineageInv'
<1>1. CASE Commit
  <2>0. HistoryInv
    BY DEF Inv
  <2>1. PICK T, new, moved : CommitsTo(T, new, moved)
    BY <1>1, <2>0, CommitEffect
  <2>2. TreeInv' /\ RowsInv' /\ DeletedInv' /\ LeavesInv'
    BY <2>0, <2>1, TreeStep, RowsStep, DeletedStep, LeavesStep DEF LineageInv
  <2>3. QED
    BY <2>0, <2>1, <2>2, NamesStep DEF LineageInv
<1>2. CASE UNCHANGED history
  BY <1>2 DEF history, LineageInv, TreeInv, RowsInv, DeletedInv, LeavesInv, NamesInv, Current,
              Leaves, Departs
<1>3. QED
  BY <1>1, <1>2 DEF Next, Ingest, Kamei, Analyse, ApplyGrouping, vars

LEMMA LineageInvHolds == Spec => []LineageInv
<1>1. Init => LineageInv
  BY DEF Init, EmptyTree, LineageInv, TreeInv, RowsInv, DeletedInv, LeavesInv, NamesInv
<1>2. Inv /\ LineageInv /\ [Next]_vars => LineageInv'
  BY LineageStep
<1>3. QED
  BY <1>1, <1>2, InvHolds, PTL DEF Spec

-----------------------------------------------------------------------------
(* Chains.                                                                  *)

LEMMA LeastOf ==
    ASSUME NEW T \in SUBSET Nat, T # {}
    PROVE  \E n \in T : \A m \in T : n <= m
<1> DEFINE R == OpToRel(<, Nat)
<1>1. \E n \in T : \A m \in T : ~ (<<m, n>> \in R)
  <2>1. IsWellFoundedOn(R, Nat)
    BY NatLessThanWellFounded
  <2> HIDE DEF R
  <2>2. QED
    BY <2>1, WFMin
<1>2. \A m, n \in Nat : m < n => <<m, n>> \in R
  BY DEF OpToRel
<1> HIDE DEF R
<1>3. PICK n \in T : \A m \in T : ~ (<<m, n>> \in R)
  BY <1>1
<1>4. \A m \in T : m \in Nat /\ n \in Nat /\ ~ (m < n)
  BY <1>2, <1>3
<1>5. QED
  BY <1>4

\* One step of a chain.
Hop(commits, rows, last) ==
    {r \in Renames(rows) : \E s \in last : r.rename_from = s.path /\ Newer(commits, r.rev, s.rev)}

\* The recursion has a solution at every depth, hence at the deepest.
LEMMA LineageSteps ==
    ASSUME NEW commits, NEW rows, NEW seed
    PROVE  LET steps == Lineage(commits, rows, seed) IN
           /\ steps[1] = {seed}
           /\ \A d \in 1 .. MaxDepth : d # 1 => steps[d] = Hop(commits, rows, steps[d - 1])
<1> DEFINE H(last) == Hop(commits, rows, last)
           Solves(g, k) == g[1] = {seed} /\ \A d \in 1 .. k : d # 1 => g[d] = H(g[d - 1])
           Bad == {k \in Nat : k # 0 /\ ~ \E g : Solves(g, k)}
<1>0. MaxDepth \in Nat /\ MaxDepth # 0
  BY ChangeTablesAssumption
<1>1. Bad = {}
  <2> SUFFICES ASSUME Bad # {} PROVE FALSE
    OBVIOUS
  <2>1. PICK k \in Bad : \A j \in Bad : k <= j
    <3>1. Bad \in SUBSET Nat
      OBVIOUS
    <3> HIDE DEF Bad
    <3>2. QED
      BY <3>1, LeastOf
  <2> HIDE DEF H
  <2>2. CASE k = 1
    <3>1. Solves([d \in {1} |-> {seed}], 1)
      OBVIOUS
    <3>2. QED
      BY <2>1, <2>2, <3>1
  <2>3. CASE k # 1
    <3>1. k - 1 \in Nat /\ k - 1 # 0 /\ ~ (k <= k - 1) /\ k \in Nat
      BY <2>1, <2>3
    <3>2. PICK g : Solves(g, k - 1)
      BY <2>1, <3>1
    <3> DEFINE f == [d \in 1 .. k |-> IF d = k THEN H(g[k - 1]) ELSE g[d]]
    <3>3. f[1] = {seed}
      BY <2>3, <3>1, <3>2
    <3>4. ASSUME NEW d \in 1 .. k, d # 1 PROVE f[d] = H(f[d - 1])
      <4>1. d - 1 \in 1 .. k /\ d - 1 # k
        BY <3>1, <3>4
      <4>2. f[d - 1] = g[d - 1]
        BY <4>1
      <4>3. CASE d = k
        BY <4>2, <4>3
      <4>4. CASE d # k
        <5>1. d \in 1 .. (k - 1)
          BY <3>1, <4>4
        <5>2. g[d] = H(g[d - 1])
          BY <3>2, <3>4, <5>1
        <5>3. f[d] = g[d]
          BY <4>4
        <5>4. QED
          BY <4>2, <5>2, <5>3
      <4>5. QED
        BY <4>3, <4>4
    <3>5. Solves(f, k)
      BY <3>3, <3>4
    <3>6. QED
      BY <2>1, <3>5
  <2>4. QED
    BY <2>2, <2>3
<1>2. PICK g : Solves(g, MaxDepth)
  BY <1>0, <1>1
<1> DEFINE Body(s) == [d \in 1 .. MaxDepth |-> IF d = 1 THEN {seed} ELSE H(s[d - 1])]
           f == [d \in 1 .. MaxDepth |-> g[d]]
<1>3. f = Body(f)
  <2>1. ASSUME NEW d \in 1 .. MaxDepth PROVE f[d] = IF d = 1 THEN {seed} ELSE H(f[d - 1])
    <3>1. CASE d = 1
      BY <1>2, <3>1
    <3>2. CASE d # 1
      <4>1. d - 1 \in 1 .. MaxDepth
        BY <1>0, <3>2
      <4>2. g[d] = H(g[d - 1])
        BY <1>2, <3>2
      <4> HIDE DEF H
      <4>3. QED
        BY <3>2, <4>1, <4>2
    <3>3. QED
      BY <3>1, <3>2
  <2> HIDE DEF H
  <2>2. QED
    BY <2>1
<1> DEFINE steps == CHOOSE s : s = Body(s)
<1>4. steps = Body(steps)
  <2> HIDE DEF Body, f
  <2>1. QED
    BY <1>3
<1>5. Lineage(commits, rows, seed) = steps
  BY DEF Lineage, Hop
<1> HIDE DEF steps
<1>6. steps[1] = {seed} /\ \A d \in 1 .. MaxDepth : d # 1 => steps[d] = H(steps[d - 1])
  <2>1. 1 \in 1 .. MaxDepth
    BY <1>0
  <2> HIDE DEF H
  <2>2. QED
    BY <1>4, <2>1
<1>7. QED
  BY <1>5, <1>6

RenamesOf(file) == {c \in log : c.file = file /\ c.row.type = "renamed"}

\* Where dates never go back, newer is later in the walk of the history.
LEMMA NewerIsLater ==
    ASSUME HistoryInv, InOrder, NEW i \in 1 .. Len(dates), NEW j \in 1 .. Len(dates)
    PROVE  Newer(dates, j, i) <=> j > i
<1>1. dates[i] \in Nat /\ dates[j] \in Nat /\ i \in Int /\ j \in Int
  <2>1. dates \in Seq(Nat)
    BY ChangeTablesAssumption DEF HistoryInv
  <2>2. QED
    BY <2>1
<1>2. (i < j => dates[i] <= dates[j]) /\ (j < i => dates[j] <= dates[i])
  BY DEF InOrder
<1>3. QED
  BY <1>1, <1>2 DEF Newer

\* A file that is renamed again is renamed from the name it has.
LEMMA RenamedOn ==
    ASSUME Inv, LineageInv, NEW f, NEW s \in log, s.file = f, s.row.type # "deleted",
           NEW t \in RenamesOf(f), t.row.rev > s.row.rev
    PROVE  \E u \in RenamesOf(f) : u.row.rename_from = s.row.path /\ Leaves(s, u)
<1>1. t \in log /\ t.file = f /\ t.row.type = "renamed" /\ Departs(t)
  BY DEF RenamesOf, Departs
<1>2. PICK d \in log : Leaves(s, d)
  BY <1>1 DEF LineageInv, LeavesInv, Current
<1>3. d.row.type # "deleted"
  <2> SUFFICES ASSUME d.row.type = "deleted" PROVE FALSE
    OBVIOUS
  <2>1. t.row.rev <= d.row.rev
    BY <1>1, <1>2 DEF LineageInv, DeletedInv, Leaves
  <2>2. t.row.rev # d.row.rev
    BY <1>1, <1>2 DEF LineageInv, RowsInv, Leaves
  <2>3. t.row.rev \in Int /\ d.row.rev \in Int
    BY <1>1, OldRows DEF Inv
  <2>4. t.row.rev < d.row.rev
    BY <2>1, <2>2, <2>3
  <2>5. QED
    BY <1>1, <1>2, <2>4 DEF Leaves
<1>4. d.row.rename_from = s.row.path /\ d.file = f
  BY <1>2, <1>3 DEF Leaves
<1>5. s.row.path \in Paths /\ s.row.path # NoPath
  BY ChangeTablesAssumption DEF Inv, HistoryInv, LogRows, NoPath
<1>6. d \in RenamesOf(f)
  BY <1>4, <1>5 DEF LineageInv, RowsInv, RenamesOf
<1>7. QED
  BY <1>2, <1>4, <1>6

\* A rename away from a name that a file took, and owns, is of that file.
LEMMA OwnedNames ==
    ASSUME Inv, LineageInv, NEW f, OwnsItsNames(f), NEW s \in RenamesOf(f),
           NEW r \in log, r.row.rename_from = s.row.path
    PROVE  r \in RenamesOf(f)
<1>1. s \in log /\ s.file = f /\ s.row.type = "renamed"
  BY DEF RenamesOf
<1>2. s.row.path # NoPath
  BY <1>1, ChangeTablesAssumption DEF Inv, HistoryInv, LogRows, NoPath
<1>3. PICK c \in log : c.file = r.file /\ c.row.path = s.row.path
  BY <1>2 DEF LineageInv, RowsInv
<1>4. c.file = f
  BY <1>1, <1>3 DEF OwnsItsNames
<1>5. QED
  BY <1>2, <1>3, <1>4 DEF LineageInv, RowsInv, RenamesOf

\* A file has its latest name from its latest rename.
LEMMA LastRenameNames ==
    ASSUME Inv, LineageInv, NEW f, NEW s \in RenamesOf(f),
           \A t \in RenamesOf(f) : ~ (t.row.rev > s.row.rev)
    PROVE  s.row.path = LastName(f)
<1> DEFINE Latest(c) == c.file = f /\ \A d \in log : d.file = f => d.row.rev <= c.row.rev
           revs == {c.row.rev : c \in {c \in log : c.file = f}}
<1>0. s \in log /\ s.file = f
  BY DEF RenamesOf
<1>1. \A c \in log : c.row.rev \in 1 .. Len(dates)
  BY OldRows DEF Inv
<1>2. revs \in SUBSET Int /\ IsFiniteSet(revs) /\ revs # {}
  <2>1. IsFiniteSet(1 .. Len(dates))
    BY FS_Interval DEF Inv, HistoryInv
  <2>2. revs \subseteq 1 .. Len(dates) /\ revs # {}
    BY <1>0, <1>1
  <2> DEFINE T == 1 .. Len(dates)
  <2>3. T \subseteq Int /\ IsFiniteSet(T) /\ revs \in SUBSET T
    BY <2>1, <2>2
  <2> HIDE DEF revs, T
  <2>4. QED
    BY <2>2, <2>3, FS_Subset
<1>3. PICK v \in revs : \A w \in revs : w <= v
  <2> HIDE DEF revs
  <2>1. QED
    BY <1>2, HasMax
<1>4. \E c \in log : Latest(c)
  BY <1>3
<1>5. PICK c \in log : Latest(c) /\ LastName(f) = c.row.path
  BY <1>4 DEF LastName
<1>6. s.row.rev <= c.row.rev /\ s.row.rev \in Int /\ c.row.rev \in Int
  BY <1>0, <1>1, <1>5
<1>7. CASE s.row.rev = c.row.rev
  BY <1>0, <1>5, <1>7 DEF LineageInv, RowsInv
<1>8. CASE s.row.rev # c.row.rev
  <2> SUFFICES ASSUME s.row.path # c.row.path PROVE FALSE
    BY <1>5
  <2>1. s.row.rev < c.row.rev
    BY <1>6, <1>8
  <2>2. PICK t \in log : t.file = f /\ t.row.type = "renamed" /\ t.row.rev > s.row.rev
    BY <1>0, <1>5, <2>1 DEF LineageInv, NamesInv
  <2>3. QED
    BY <2>2 DEF RenamesOf
<1>9. QED
  BY <1>7, <1>8

\* The renames of a file up to a commit.
UpToCommit(f, v) == {c \in RenamesOf(f) : c.row.rev <= v}

LEMMA RenamesFinite ==
    ASSUME Inv, LineageInv, NEW f, NEW v
    PROVE  IsFiniteSet(RenamesOf(f)) /\ IsFiniteSet(UpToCommit(f, v))
<1> DEFINE S == RenamesOf(f)
           T == 1 .. Len(dates)
           rev == [c \in S |-> c.row.rev]
<1>1. \A c \in S : c.row.rev \in T
  BY OldRows DEF Inv, RenamesOf
<1>2. \A c, d \in S : c.row.rev = d.row.rev => c = d
  BY DEF LineageInv, RowsInv, RenamesOf
<1>3. rev \in Injection(S, T)
  <2> HIDE DEF S, T
  <2>1. QED
    BY <1>1, <1>2 DEF Injection, IsInjective
<1>4. IsFiniteSet(T)
  BY FS_Interval DEF Inv, HistoryInv
<1>5. IsFiniteSet(S)
  <2> HIDE DEF S, T, rev
  <2>1. QED
    BY <1>3, <1>4, FS_Injection
<1>6. UpToCommit(f, v) \in SUBSET S
  BY DEF UpToCommit
<1>7. QED
  BY <1>5, <1>6, FS_Subset

\* A chain that begins with a rename of a file that owns its names goes through
\* renames of that file, one of them at least for each step.
LEMMA ChainIsOfTheFile ==
    ASSUME Inv, LineageInv, InOrder, changes = LogRows, NEW f, OwnsItsNames(f),
           NEW a \in RenamesOf(f), NEW d \in 1 .. MaxDepth,
           NEW r \in Lineage(dates, changes, a.row)[d]
    PROVE  \E c \in RenamesOf(f) : c.row = r /\ d <= Cardinality(UpToCommit(f, r.rev))
<1> DEFINE steps == Lineage(dates, changes, a.row)
           Of(q, k) == \E c \in RenamesOf(f) : c.row = q /\ k <= Cardinality(UpToCommit(f, q.rev))
           Bad == {k \in 1 .. MaxDepth : \E q \in steps[k] : ~Of(q, k)}
<1>0. /\ steps[1] = {a.row}
      /\ \A k \in 1 .. MaxDepth : k # 1 => steps[k] = Hop(dates, changes, steps[k - 1])
  BY LineageSteps
<1> HIDE DEF steps
<1>1. \A c \in RenamesOf(f) : c \in log /\ c.row.rev \in 1 .. Len(dates)
  BY OldRows DEF Inv, RenamesOf
<1>2. ASSUME NEW c \in RenamesOf(f) PROVE 1 <= Cardinality(UpToCommit(f, c.row.rev))
  <2> DEFINE S == UpToCommit(f, c.row.rev)
  <2>1. c \in S /\ IsFiniteSet(S)
    <3>1. c.row.rev <= c.row.rev
      <4>1. c.row.rev \in Int
        BY <1>1, <1>2
      <4>2. QED
        BY <4>1
    <3>2. c \in S
      BY <3>1, <1>2 DEF UpToCommit
    <3>3. S \in SUBSET RenamesOf(f)
      BY DEF UpToCommit
    <3>4. IsFiniteSet(RenamesOf(f))
      BY RenamesFinite
    <3>5. IsFiniteSet(S)
      BY <3>3, <3>4, FS_Subset
    <3>6. QED
      BY <3>2, <3>5
  <2> HIDE DEF S
  <2>2. Cardinality(S) \in Nat /\ Cardinality(S) # 0
    BY <2>1, FS_EmptySet, FS_CardinalityType
  <2>3. 1 <= Cardinality(S)
    BY <2>2
  <2>4. QED
    BY <2>3 DEF S
<1>3. Bad = {}
  <2> SUFFICES ASSUME Bad # {} PROVE FALSE
    OBVIOUS
  <2>1. PICK k \in Bad : \A j \in Bad : k <= j
    <3>1. Bad \in SUBSET Nat
      OBVIOUS
    <3> HIDE DEF Bad
    <3>2. QED
      BY <3>1, LeastOf
  <2>2. PICK q \in steps[k] : ~Of(q, k)
    BY <2>1
  <2>3. k \in 1 .. MaxDepth /\ MaxDepth \in Nat
    BY <2>1, ChangeTablesAssumption
  <2>4. CASE k = 1
    <3>1. q = a.row
      BY <1>0, <2>2, <2>4
    <3>2. Of(a.row, 1)
      BY <1>2
    <3>3. QED
      BY <2>2, <2>4, <3>1, <3>2
  <2>5. CASE k # 1
    <3>1. k - 1 \in 1 .. MaxDepth /\ ~ (k <= k - 1)
      BY <2>3, <2>5
    <3>2. k - 1 \notin Bad
      BY <2>1, <3>1
    <3>3. \A p \in steps[k - 1] : Of(p, k - 1)
      BY <3>1, <3>2
    <3>4. q \in Renames(changes) /\ \E p \in steps[k - 1] :
                q.rename_from = p.path /\ Newer(dates, q.rev, p.rev)
      BY <1>0, <2>2, <2>3, <2>5 DEF Hop
    <3>5. PICK p \in steps[k - 1] : q.rename_from = p.path /\ Newer(dates, q.rev, p.rev)
      BY <3>4
    <3>6. PICK b \in RenamesOf(f) : b.row = p /\ k - 1 <= Cardinality(UpToCommit(f, p.rev))
      BY <3>3
    <3>7. PICK c \in log : c.row = q
      BY <3>4 DEF Renames, LogRows
    <3>8. c \in RenamesOf(f)
      BY <3>5, <3>6, <3>7, OwnedNames
    <3>9. q.rev > p.rev /\ q.rev \in Int /\ p.rev \in Int
      <4>1. q.rev \in 1 .. Len(dates) /\ p.rev \in 1 .. Len(dates)
        BY <1>1, <3>6, <3>7, <3>8
      <4>2. QED
        BY <3>5, <4>1, NewerIsLater DEF Inv
    <3> DEFINE S == UpToCommit(f, p.rev)
               U == UpToCommit(f, q.rev)
    <3>10. c \notin S /\ S \cup {c} \in SUBSET U
      <4>1. \A v, w, x \in Int : v <= w /\ x > w => v <= x
        OBVIOUS
      <4>2. \A e \in S : e \in RenamesOf(f) /\ e.row.rev \in Int /\ e.row.rev <= p.rev
        BY <1>1 DEF UpToCommit
      <4>3. S \subseteq U
        BY <3>9, <4>1, <4>2 DEF UpToCommit
      <4>4. c \notin S
        BY <3>7, <3>9, <4>2
      <4>5. c \in U
        BY <3>7, <3>8, <3>9 DEF UpToCommit
      <4>6. QED
        BY <4>3, <4>4, <4>5
    <3>11. IsFiniteSet(S) /\ IsFiniteSet(U)
      BY RenamesFinite
    <3> HIDE DEF S, U, Bad, Of
    <3>12. Cardinality(S \cup {c}) = Cardinality(S) + 1 /\ Cardinality(S \cup {c}) <= Cardinality(U)
      BY <3>10, <3>11, FS_AddElement, FS_Subset
    <3>13. Cardinality(S) \in Nat /\ Cardinality(U) \in Nat
      BY <3>11, FS_CardinalityType
    <3>14. k <= Cardinality(U)
      BY <2>3, <3>6, <3>12, <3>13 DEF S
    <3>15. QED
      BY <2>2, <3>7, <3>8, <3>14 DEF Of, U
  <2>6. QED
    BY <2>4, <2>5
<1>4. QED
  BY <1>3 DEF steps

\* Such a chain ends with the name the file has in the end.
LEMMA ChainEndsAtLastName ==
    ASSUME Inv, LineageInv, InOrder, changes = LogRows, NEW f, OwnsItsNames(f),
           Hops(f) <= MaxDepth, NEW a \in RenamesOf(f)
    PROVE  Resolved(dates, changes, a.row) = LastName(f)
<1> DEFINE steps == Lineage(dates, changes, a.row)
           End(d) == steps[d] # {} /\ (d = MaxDepth \/ steps[d + 1] = {})
<1>0. /\ steps[1] = {a.row}
      /\ \A k \in 1 .. MaxDepth : k # 1 => steps[k] = Hop(dates, changes, steps[k - 1])
  BY LineageSteps
<1>1. MaxDepth \in Nat /\ MaxDepth # 0
  BY ChangeTablesAssumption
<1> DEFINE depth == CHOOSE d \in 1 .. MaxDepth : End(d)
<1>2. Resolved(dates, changes, a.row) = Min({r.path : r \in steps[depth]})
  BY DEF Resolved
<1>3. \A d \in 1 .. MaxDepth : \A r \in steps[d] :
        \E c \in RenamesOf(f) : c.row = r /\ d <= Cardinality(UpToCommit(f, r.rev))
  BY ChainIsOfTheFile
<1> HIDE DEF steps
<1>4. \E d \in 1 .. MaxDepth : End(d)
  <2> DEFINE Empty == {d \in 1 .. MaxDepth : steps[d] = {}}
  <2>1. CASE Empty = {}
    <3>1. MaxDepth \in 1 .. MaxDepth /\ MaxDepth \notin Empty
      BY <1>1, <2>1
    <3>2. QED
      BY <3>1
  <2>2. CASE Empty # {}
    <3>1. PICK d \in Empty : \A e \in Empty : d <= e
      <4>1. Empty \in SUBSET Nat
        OBVIOUS
      <4> HIDE DEF Empty
      <4>2. QED
        BY <2>2, <4>1, LeastOf
    <3>2. d # 1
      BY <1>0, <3>1
    <3>3. d - 1 \in 1 .. MaxDepth /\ ~ (d <= d - 1) /\ (d - 1) + 1 = d
      BY <1>1, <3>1, <3>2
    <3>4. d - 1 \notin Empty
      BY <3>1, <3>3
    <3>5. End(d - 1)
      BY <3>1, <3>3, <3>4
    <3>6. QED
      BY <3>3, <3>5
  <2>3. QED
    BY <2>1, <2>2
<1>5. depth \in 1 .. MaxDepth /\ End(depth)
  BY <1>4
<1> HIDE DEF depth
<1>6. ASSUME NEW r \in steps[depth] PROVE r.path = LastName(f)
  <2>1. PICK c \in RenamesOf(f) : c.row = r /\ depth <= Cardinality(UpToCommit(f, r.rev))
    BY <1>3, <1>5
  <2>2. ASSUME NEW t \in RenamesOf(f), t.row.rev > c.row.rev PROVE FALSE
    <3>1. PICK u \in RenamesOf(f) : u.row.rename_from = c.row.path /\ Leaves(c, u)
      <4>1. c \in log /\ c.file = f /\ c.row.type # "deleted"
        BY DEF RenamesOf
      <4>2. QED
        BY <2>2, <4>1, RenamedOn
    <3>2. u.row.rev > c.row.rev /\ u.row.rev \in 1 .. Len(dates) /\ c.row.rev \in 1 .. Len(dates)
      BY <3>1, OldRows DEF Leaves, Inv, RenamesOf
    <3>3. u.row \in Hop(dates, changes, steps[depth])
      <4>1. u.row \in changes /\ u.row.type = "renamed" /\ u.row.rename_from # NoPath
        BY DEF RenamesOf, LogRows, LineageInv, RowsInv
      <4>2. Newer(dates, u.row.rev, c.row.rev)
        BY <3>2, NewerIsLater DEF Inv
      <4>3. QED
        BY <2>1, <3>1, <4>1, <4>2 DEF Hop, Renames
    <3>4. CASE depth # MaxDepth
      <4>1. depth + 1 \in 1 .. MaxDepth /\ depth + 1 # 1 /\ (depth + 1) - 1 = depth
        BY <1>1, <1>5, <3>4
      <4>2. steps[depth + 1] = Hop(dates, changes, steps[depth])
        BY <1>0, <4>1
      <4>3. QED
        BY <1>5, <3>3, <3>4, <4>2
    <3>5. CASE depth = MaxDepth
      <4> DEFINE S == UpToCommit(f, r.rev)
                 R == RenamesOf(f)
      <4>1. u \notin S /\ S \cup {u} \in SUBSET R
        BY <2>1, <3>2 DEF UpToCommit
      <4>2. IsFiniteSet(S) /\ IsFiniteSet(R) /\ Cardinality(R) <= MaxDepth /\ MaxDepth <= Cardinality(S)
        BY <2>1, <3>5, RenamesFinite DEF Hops, RenamesOf
      <4> HIDE DEF S, R
      <4>3. Cardinality(S \cup {u}) = Cardinality(S) + 1 /\ Cardinality(S \cup {u}) <= Cardinality(R)
        BY <4>1, <4>2, FS_AddElement, FS_Subset
      <4>4. Cardinality(S) \in Nat /\ Cardinality(R) \in Nat
        BY <4>2, FS_CardinalityType
      <4>5. QED
        BY <1>1, <4>2, <4>3, <4>4
    <3>6. QED
      BY <3>4, <3>5
  <2>3. QED
    BY <2>1, <2>2, LastRenameNames
<1>7. {r.path : r \in steps[depth]} = {LastName(f)}
  BY <1>5, <1>6
<1>8. LastName(f) \in Nat
  <2>1. PICK r \in steps[depth] : TRUE
    BY <1>5
  <2>2. r.path = LastName(f) /\ r \in LogRows
    BY <1>3, <1>5, <1>6, <2>1 DEF RenamesOf, LogRows
  <2>3. QED
    BY <2>2, ChangeTablesAssumption DEF Inv, HistoryInv
<1>9. QED
  BY <1>2, <1>7, <1>8 DEF Min

\* A change under a name that its file was renamed away from is in the epoch which
\* the file's next rename ends.
LEMMA RetiredRowsEpoch ==
    ASSUME Inv, LineageInv, InOrder, changes = LogRows, NEW c \in log, Retired(c)
    PROVE  \E a \in RenamesOf(c.file) : Within(dates, c.row, Epoch(dates, changes, a.row))
<1>0. c.row.path # NoPath
  BY ChangeTablesAssumption DEF Inv, HistoryInv, LogRows, NoPath
<1>1. PICK d \in log : d.file = c.file /\ d.row.rev > c.row.rev /\ d.row.rename_from = c.row.path
  BY DEF Retired
<1>2. d \in RenamesOf(c.file)
  BY <1>0, <1>1 DEF LineageInv, RowsInv, RenamesOf
<1>3. c.row.type # "deleted"
  <2> SUFFICES ASSUME c.row.type = "deleted" PROVE FALSE
    OBVIOUS
  <2>1. d.row.rev <= c.row.rev
    BY <1>1 DEF LineageInv, DeletedInv
  <2>2. d.row.rev \in Int /\ c.row.rev \in Int
    BY OldRows DEF Inv
  <2>3. QED
    BY <1>1, <2>1, <2>2
<1>4. PICK a \in RenamesOf(c.file) : a.row.rename_from = c.row.path /\ Leaves(c, a)
  BY <1>1, <1>2, <1>3, RenamedOn
<1> DEFINE E == Epoch(dates, changes, a.row)
<1>5. a \in log /\ \A e \in log : e.row.rev \in 1 .. Len(dates) /\ e.row.rev \in Int
  BY OldRows DEF RenamesOf, Inv
<1>6. Newer(dates, a.row.rev, c.row.rev)
  BY <1>4, <1>5, NewerIsLater DEF Leaves, Inv
<1>7. ASSUME NEW prev \in E.before PROVE Newer(dates, c.row.rev, prev)
  <2>1. PICK e \in log : /\ prev = e.row.rev /\ e.row.rename_from = c.row.path
                         /\ Newer(dates, a.row.rev, e.row.rev)
    BY <1>4, <1>7 DEF Epoch, Renames, LogRows
  <2>2. e.row.rev < a.row.rev
    BY <1>5, <2>1, NewerIsLater DEF Inv
  <2>3. ~ (e.row.rev >= c.row.rev)
    BY <1>4, <2>1, <2>2 DEF Leaves
  <2>4. c.row.rev > e.row.rev
    BY <1>5, <2>3
  <2>5. QED
    BY <1>5, <2>1, <2>4, NewerIsLater DEF Inv
<1>8. E.old = c.row.path /\ E.retired = a.row.rev
  BY <1>4 DEF Epoch
<1>9. Within(dates, c.row, E)
  BY <1>6, <1>7, <1>8 DEF Within
<1>10. QED
  BY <1>9

\* The history of a file that owns its names, and is not renamed more often than
\* is followed, is counted under the name it has in the end, however many other
\* files had its first name before or after (path_lineage, retirement epochs).
THEOREM LineageFollows == Spec => []LineageFollowsTheFile
<1>1. ASSUME Inv, LineageInv, phase = "ingested", InOrder, NEW c \in log, Retired(c),
             OwnsItsNames(c.file), Hops(c.file) <= MaxDepth
      PROVE  Followed(c)
  <2> DEFINE f == c.file
             epochs == {e \in path_lineage(dates, changes) : Within(dates, c.row, e)}
             names == {e.canonical : e \in epochs}
  <2>1. changes = LogRows
    BY <1>1 DEF Inv, TablesInv
  <2>2. PICK a \in RenamesOf(f) : Within(dates, c.row, Epoch(dates, changes, a.row))
    BY <1>1, <2>1, RetiredRowsEpoch
  <2> DEFINE E == Epoch(dates, changes, a.row)
  <2>3. E.old = c.row.path /\ E.canonical = LastName(f)
    BY <1>1, <2>1, <2>2, ChainEndsAtLastName DEF Within, Epoch
  <2>4. a.row \in Renames(changes)
    BY <1>1, <2>1 DEF RenamesOf, Renames, LogRows, LineageInv, RowsInv
  <2>5. \A e \in epochs : e = E
    <3>1. dates \in Seq(Nat)
      BY <1>1, ChangeTablesAssumption DEF Inv, HistoryInv
    <3>2. (\A r \in changes : r.rev \in 1 .. Len(dates)) /\ OnePerSource(changes) /\ c.row \in changes
      BY <1>1, <2>1 DEF Inv, TablesInv, LogRows
    <3>3. ASSUME NEW e \in epochs PROVE e = E
      <4>1. PICK r \in Renames(changes) : e = Epoch(dates, changes, r)
        BY DEF path_lineage
      <4>2. Within(dates, c.row, Epoch(dates, changes, r))
        BY <4>1
      <4>3. r = a.row
        BY <2>2, <2>4, <3>1, <3>2, <4>2, OneRetirement
      <4>4. QED
        BY <4>1, <4>3
    <3>4. QED
      BY <3>3
  <2>6. E.old # E.canonical => E \in epochs
    BY <2>2, <2>4 DEF path_lineage
  <2>7. \A e \in epochs : e.old # e.canonical
    BY DEF path_lineage
  <2>8. Canonical(dates, changes, c.row) = IF names = {} THEN {c.row.path} ELSE names
    BY DEF Canonical
  <2> HIDE DEF epochs, E
  <2>9. CASE E.old # E.canonical
    <3>1. names = {LastName(f)}
      BY <2>3, <2>5, <2>6, <2>9
    <3>2. QED
      BY <2>8, <3>1 DEF Followed
  <2>10. CASE E.old = E.canonical
    <3>1. epochs = {}
      BY <2>5, <2>7, <2>10
    <3>2. names = {}
      BY <3>1
    <3>3. QED
      BY <2>3, <2>8, <2>10, <3>2 DEF Followed
  <2>11. QED
    BY <2>9, <2>10
<1>2. Inv /\ LineageInv => LineageFollowsTheFile
  BY <1>1 DEF LineageFollowsTheFile
<1>3. QED
  BY <1>2, InvHolds, LineageInvHolds, PTL
===============================================================================
