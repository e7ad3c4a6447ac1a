----------------------------- MODULE SidecarsProofs -----------------------------
(***************************************************************************)
(* What holds of the two sidecars for any number of ingests, readers,      *)
(* narrators and askers, in every scene, and all inputs whose batches are  *)
(* what BatchAssumption says.                                              *)
(***************************************************************************)
EXTENDS Sidecars, FiniteSetTheorems, SequenceTheorems, WellFoundedInduction, TLAPS

\* Each of the two stores behaves as by itself, whatever the processes of a
\* scene do to the other one.
THEOREM Components == SidecarsSpec => Spec /\ NarrativesSpec
<1>1. SidecarsInit => Init /\ NarrativesInit
  BY DEF SidecarsInit
<1>2. [SidecarsNext]_<<scene, findings, narratives>> => [Next]_vars /\ [NarrativesNext]_narratives
  BY DEF SidecarsNext, IngestStep, ReadStep, NarrateStep, ExplainStep, WorldStep, findings, Next, NarrativesNext
<1>3. QED
  BY <1>1, <1>2, PTL DEF SidecarsSpec, Spec, NarrativesSpec

-----------------------------------------------------------------------------
(* The findings.                                                           *)

OnePerKey(rs) == \A a, b \in rs : SameKey(a, b) => a = b

IngestStages == WriterStages \cup {"idle", "done", "failed"}
ReadStages == ReaderStages \cup {"idle", "exists", "done", "none", "failed"}

TypeInv ==
    /\ TypeOK
    /\ \A w \in Ingests : pc[w] \in IngestStages
    /\ \A r \in Readers : pc[r] \in ReadStages
    /\ IsFiniteSet(rows) /\ \A w \in Ingests : IsFiniteSet(tx[w]) /\ OnePerKey(tx[w])
    /\ \A w \in Ingests :
          /\ pc[w] \in {"ingest", "insert"} =>
                /\ input[w] \in Inputs /\ Readable(input[w]) /\ left[w] \subseteq EnginesOf(input[w])
          /\ pc[w] \in {"schema", "parse"} => input[w] \in Inputs
          /\ pc[w] = "insert" => /\ engine[w] \in left[w]
                                 /\ at[w] <= Len(Batch(input[w], engine[w]))

\* The locks: whoever writes is alone.
Exclusive ==
    \A p, q \in Procs : Writing(p) /\ (Writing(q) \/ Reading(q)) => p = q

-----------------------------------------------------------------------------
(* A batch in the table.                                                   *)

\* What the first n findings of a batch come to.
StoredTo(batch, n) ==
    {batch[i] : i \in {i \in 1 .. n : \A j \in 1 .. n : j > i => ~SameKey(batch[i], batch[j])}}

LEMMA StoredAtEnd ==
    ASSUME NEW S, NEW batch \in Seq(S) PROVE Stored(batch) = StoredTo(batch, Len(batch))
  BY DEF Stored, StoredTo

LEMMA StoredNext ==
    ASSUME NEW S, NEW batch \in Seq(S), NEW n \in Nat, n < Len(batch)
    PROVE  StoredTo(batch, n + 1) = Upsert(StoredTo(batch, n), batch[n + 1])
<1>1. ASSUME NEW x \in StoredTo(batch, n + 1) PROVE x \in Upsert(StoredTo(batch, n), batch[n + 1])
  <2>1. PICK i \in 1 .. n + 1 : x = batch[i] /\ \A j \in 1 .. n + 1 : j > i => ~SameKey(batch[i], batch[j])
    BY <1>1 DEF StoredTo
  <2>2. CASE i = n + 1
    BY <2>1, <2>2 DEF Upsert
  <2>3. CASE i \in 1 .. n
    <3>1. \A j \in 1 .. n : j > i => ~SameKey(batch[i], batch[j])
      BY <2>1
    <3>2. x \in StoredTo(batch, n)
      BY <2>1, <2>3, <3>1 DEF StoredTo
    <3>3. ~SameKey(x, batch[n + 1])
      BY <2>1, <2>3
    <3>4. QED
      BY <3>2, <3>3 DEF Upsert
  <2>4. QED
    BY <2>2, <2>3
<1>2. ASSUME NEW x \in Upsert(StoredTo(batch, n), batch[n + 1]) PROVE x \in StoredTo(batch, n + 1)
  <2>1. CASE x = batch[n + 1]
    <3>1. n + 1 \in 1 .. n + 1 /\ \A j \in 1 .. n + 1 : ~(j > n + 1)
      OBVIOUS
    <3>2. QED
      BY <2>1, <3>1 DEF StoredTo
  <2>2. CASE x \in StoredTo(batch, n) /\ ~SameKey(x, batch[n + 1])
    <3>1. PICK i \in 1 .. n : x = batch[i] /\ \A j \in 1 .. n : j > i => ~SameKey(batch[i], batch[j])
      BY <2>2 DEF StoredTo
    <3>2. i \in 1 .. n + 1 /\ \A j \in 1 .. n + 1 : j > i => ~SameKey(batch[i], batch[j])
      BY <2>2, <3>1
    <3>3. QED
      BY <3>1, <3>2 DEF StoredTo
  <2>3. QED
    BY <1>2, <2>1, <2>2 DEF Upsert
<1>3. QED
  BY <1>1, <1>2

\* An upsert touches its own engine's rows and keeps the primary key.
LEMMA UpsertRows ==
    ASSUME NEW rs, NEW row
    PROVE  /\ EngineRows(Upsert(rs, row), row.engine) = Upsert(EngineRows(rs, row.engine), row)
           /\ \A e : e # row.engine => EngineRows(Upsert(rs, row), e) = EngineRows(rs, e)
           /\ OnePerKey(rs) => OnePerKey(Upsert(rs, row))
<1>1. EngineRows(Upsert(rs, row), row.engine) = Upsert(EngineRows(rs, row.engine), row)
  BY DEF EngineRows, Upsert
<1>2. ASSUME NEW e, e # row.engine PROVE EngineRows(Upsert(rs, row), e) = EngineRows(rs, e)
  BY <1>2 DEF EngineRows, Upsert, SameKey
<1>3. OnePerKey(rs) => OnePerKey(Upsert(rs, row))
  BY DEF OnePerKey, Upsert, SameKey
<1>4. QED
  BY <1>1, <1>2, <1>3

LEMMA UpsertFinite == ASSUME NEW rs, IsFiniteSet(rs), NEW row PROVE IsFiniteSet(Upsert(rs, row))
<1>1. IsFiniteSet({r \in rs : ~SameKey(r, row)})
  BY FS_Subset
<1>2. QED
  BY <1>1, FS_AddElement DEF Upsert

LEMMA BatchType ==
    ASSUME TypeInv, NEW w \in Ingests, pc[w] = "insert"
    PROVE  /\ Batch(input[w], engine[w]) \in Seq({row \in Rows : row.engine = engine[w]})
           /\ engine[w] \in Engines /\ engine[w] \in EnginesOf(input[w])
           /\ Len(Batch(input[w], engine[w])) \in Nat
           /\ at[w] \in Nat /\ at[w] <= Len(Batch(input[w], engine[w]))
<1>1. input[w] \in Inputs /\ engine[w] \in EnginesOf(input[w])
  BY DEF TypeInv
<1>2. /\ engine[w] \in Engines
      /\ Batch(input[w], engine[w]) \in Seq({row \in Rows : row.engine = engine[w]})
  BY <1>1, BatchAssumption
<1>3. Len(Batch(input[w], engine[w])) \in Nat
  BY <1>2
<1>4. QED
  BY <1>1, <1>2, <1>3 DEF TypeInv, TypeOK

-----------------------------------------------------------------------------
(* Types.                                                                  *)

LEMMA InitType == Init => TypeInv
<1>1. SUFFICES ASSUME Init PROVE TypeInv
  OBVIOUS
<1>2. IsFiniteSet({})
  BY FS_EmptySet
<1>3. \A p \in Procs : pc[p] = "idle"
  BY <1>1 DEF Init
<1>4. \A w \in Ingests : tx[w] = {}
  BY <1>1 DEF Init
<1>5. TypeOK
  BY <1>1 DEF Init, TypeOK, Stages
<1>6. \A w \in Ingests : pc[w] = "idle"
  BY <1>3 DEF Procs
<1>7. \A r \in Readers : pc[r] = "idle"
  BY <1>3 DEF Procs
<1>8. QED
  BY <1>1, <1>2, <1>4, <1>5, <1>6, <1>7 DEF Init, TypeInv, IngestStages, ReadStages, OnePerKey

\* Closing a connection leaves the rows and the readers alone.
LEMMA CloseType ==
    ASSUME TypeInv, NEW w \in Ingests, NEW place \in {"done", "failed"}, Close(w, place),
           UNCHANGED <<file, rows, reader>>
    PROVE  TypeInv'
<1>1. /\ input' = [input EXCEPT ![w] = <<>>] /\ left' = [left EXCEPT ![w] = {}]
      /\ engine' = [engine EXCEPT ![w] = NoEngine] /\ at' = [at EXCEPT ![w] = 0]
      /\ tx' = [tx EXCEPT ![w] = {}] /\ pc' = [pc EXCEPT ![w] = place]
      /\ file' = file /\ rows' = rows /\ counted' = counted
  BY DEF Close, Goto, reader
<1>2. IsFiniteSet({})
  BY FS_EmptySet
<1>3. TypeOK'
  BY <1>1 DEF TypeInv, TypeOK, Stages, Procs
<1>4. \A v \in Ingests : pc'[v] \in IngestStages
  BY <1>1 DEF TypeInv, TypeOK, IngestStages, Procs
<1>5. \A r \in Readers : pc'[r] \in ReadStages
  BY <1>1, StoreAssumption DEF TypeInv, TypeOK, Procs
<1>6. IsFiniteSet(rows)' /\ \A v \in Ingests : IsFiniteSet(tx'[v]) /\ OnePerKey(tx'[v])
  BY <1>1, <1>2 DEF TypeInv, TypeOK, OnePerKey
<1>7. \A v \in Ingests : v # w => /\ pc'[v] = pc[v] /\ input'[v] = input[v] /\ left'[v] = left[v]
                                  /\ engine'[v] = engine[v] /\ at'[v] = at[v]
  BY <1>1 DEF TypeInv, TypeOK, Procs
<1>8. pc'[w] = place
  BY <1>1 DEF TypeInv, TypeOK, Procs
<1>9. QED
  BY <1>3, <1>4, <1>5, <1>6, <1>7, <1>8 DEF TypeInv

LEMMA IngestType ==
    ASSUME TypeInv, NEW w \in Ingests, Ingest(w) \/ IngestAgain(w) PROVE TypeInv'
<1>1. /\ pc \in [Procs -> Stages] /\ w \in Procs
      /\ \A r \in Readers : r \in Procs /\ r # w
      /\ \A v \in Ingests : v \in Procs
  BY StoreAssumption DEF TypeInv, TypeOK, Procs
<1>2. CASE OpenOrCreate(w)
  <2>1. PICK files \in Inputs : input' = [input EXCEPT ![w] = files]
    BY <1>2 DEF OpenOrCreate
  <2>2. /\ pc' = [pc EXCEPT ![w] = "schema"] /\ UNCHANGED <<rows, left, engine, at, tx, counted>>
        /\ file' \in {"absent", "tableless", "table"}
    BY <1>2 DEF OpenOrCreate, Goto, TypeInv, TypeOK, reader
  <2>3. TypeOK'
    BY <1>1, <2>1, <2>2 DEF TypeInv, TypeOK, Stages, WriterStages
  <2>4. QED
    BY <1>1, <2>1, <2>2, <2>3 DEF TypeInv, TypeOK, IngestStages, WriterStages
<1>3. CASE OpenFails(w)
  <2>1. pc' = [pc EXCEPT ![w] = "failed"] /\ UNCHANGED <<file, rows, input, left, engine, at, tx, counted>>
    BY <1>3 DEF OpenFails, Goto, writer, reader
  <2>2. TypeOK'
    BY <1>1, <2>1 DEF TypeInv, TypeOK, Stages
  <2>3. QED
    BY <1>1, <2>1, <2>2 DEF TypeInv, IngestStages
<1>4. CASE CreateTable(w)
  <2>1. /\ pc[w] = "schema" /\ pc' = [pc EXCEPT ![w] = "parse"] /\ file' = "table"
        /\ UNCHANGED <<rows, input, left, engine, at, tx, counted>>
    BY <1>4 DEF CreateTable, Goto, writer, reader
  <2>2. TypeOK'
    BY <1>1, <2>1 DEF TypeInv, TypeOK, Stages, WriterStages
  <2>3. QED
    BY <1>1, <2>1, <2>2 DEF TypeInv, IngestStages, WriterStages
<1>5. CASE Parse(w)
  <2>1. CASE Readable(input[w])
    <3>1. /\ pc[w] = "parse" /\ left' = [left EXCEPT ![w] = EnginesOf(input[w])]
          /\ pc' = [pc EXCEPT ![w] = "ingest"]
          /\ UNCHANGED <<file, rows, input, engine, at, tx, counted>>
      BY <1>5, <2>1 DEF Parse, Goto, reader
    <3>2. input[w] \in Inputs
      BY <3>1 DEF TypeInv
    <3>3. EnginesOf(input[w]) \subseteq Engines
      BY <3>2, BatchAssumption
    <3>4. TypeOK'
      BY <1>1, <3>1, <3>3 DEF TypeInv, TypeOK, Stages, WriterStages
    <3>5. QED
      BY <1>1, <2>1, <3>1, <3>2, <3>4 DEF TypeInv, TypeOK, IngestStages, WriterStages
  <2>2. CASE ~Readable(input[w])
    BY <1>5, <2>2, CloseType DEF Parse
  <2>3. QED
    BY <2>1, <2>2
<1>6. CASE Delete(w)
  <2>1. PICK e \in left[w] : /\ engine' = [engine EXCEPT ![w] = e]
                             /\ tx' = [tx EXCEPT ![w] = {r \in rows : r.engine # e}]
                             /\ at' = [at EXCEPT ![w] = 0]
    BY <1>6 DEF Delete
  <2>2. /\ pc[w] = "ingest" /\ pc' = [pc EXCEPT ![w] = "insert"]
        /\ UNCHANGED <<file, rows, input, left, counted>>
    BY <1>6 DEF Delete, Goto, reader
  <2>3. /\ {r \in rows : r.engine # e} \subseteq Rows /\ OnePerKey({r \in rows : r.engine # e})
        /\ IsFiniteSet({r \in rows : r.engine # e})
    BY FS_Subset DEF TypeInv, TypeOK, OnePerKey
  <2>4. TypeOK'
    BY <1>1, <2>1, <2>2, <2>3 DEF TypeInv, TypeOK, Stages, WriterStages
  <2>5. input[w] \in Inputs /\ Readable(input[w]) /\ left[w] \subseteq EnginesOf(input[w])
    BY <2>2 DEF TypeInv
  <2>6. Batch(input[w], e) \in Seq({row \in Rows : row.engine = e})
    BY <2>1, <2>5, BatchAssumption
  <2>7. 0 <= Len(Batch(input[w], e))
    BY <2>6
  <2>8. /\ pc'[w] = "insert" /\ engine'[w] = e /\ at'[w] = 0 /\ tx'[w] = {r \in rows : r.engine # e}
        /\ \A v \in Ingests : v # w => /\ pc'[v] = pc[v] /\ engine'[v] = engine[v] /\ at'[v] = at[v]
                                       /\ tx'[v] = tx[v]
        /\ \A r \in Readers : pc'[r] = pc[r]
    BY <1>1, <2>1, <2>2 DEF TypeInv, TypeOK
  <2>9. QED
    BY <2>2, <2>3, <2>4, <2>5, <2>7, <2>8 DEF TypeInv, IngestStages, WriterStages
<1>7. CASE Insert(w)
  <2>1. /\ pc[w] = "insert" /\ at[w] < Len(Batch(input[w], engine[w]))
        /\ at' = [at EXCEPT ![w] = @ + 1]
        /\ tx' = [tx EXCEPT ![w] = Upsert(@, Batch(input[w], engine[w])[at[w] + 1])]
        /\ UNCHANGED <<file, rows, pc, input, left, engine, counted>>
    BY <1>7 DEF Insert, reader
  <2> DEFINE batch == Batch(input[w], engine[w])
             row == batch[at[w] + 1]
  <2>2. batch \in Seq({r \in Rows : r.engine = engine[w]}) /\ at[w] \in Nat /\ Len(batch) \in Nat
    BY <2>1, BatchType
  <2>3. row \in Rows
    BY <2>1, <2>2
  <2>4. /\ Upsert(tx[w], row) \subseteq Rows /\ IsFiniteSet(Upsert(tx[w], row))
        /\ OnePerKey(Upsert(tx[w], row))
    BY <2>3, UpsertRows, UpsertFinite DEF TypeInv, TypeOK, Upsert
  <2>5. /\ at'[w] = at[w] + 1 /\ tx'[w] = Upsert(tx[w], row)
        /\ \A v \in Ingests : v # w => at'[v] = at[v] /\ tx'[v] = tx[v]
    BY <2>1 DEF TypeInv, TypeOK
  <2>6. at'[w] \in Nat /\ at'[w] <= Len(batch)
    BY <2>1, <2>2, <2>5
  <2> HIDE DEF batch, row
  <2>7. TypeOK'
    <3>1. tx' \in [Ingests -> SUBSET Rows]
      BY <2>1, <2>4 DEF TypeInv, TypeOK, row, batch
    <3>2. at' \in [Ingests -> Nat]
      BY <2>1, <2>2 DEF TypeInv, TypeOK
    <3>3. QED
      BY <2>1, <3>1, <3>2 DEF TypeInv, TypeOK
  <2>8. QED
    BY <2>1, <2>4, <2>5, <2>6, <2>7 DEF TypeInv, batch
<1>8. CASE Commit(w)
  <2>1. /\ pc[w] = "insert" /\ rows' = tx[w] /\ left' = [left EXCEPT ![w] = @ \ {engine[w]}]
        /\ tx' = [tx EXCEPT ![w] = {}] /\ at' = [at EXCEPT ![w] = 0]
        /\ engine' = [engine EXCEPT ![w] = NoEngine] /\ pc' = [pc EXCEPT ![w] = "ingest"]
        /\ UNCHANGED <<file, input, counted>>
    BY <1>8 DEF Commit, Goto, reader
  <2>2. IsFiniteSet({})
    BY FS_EmptySet
  <2>3. rows' \subseteq Rows /\ OnePerKey(rows') /\ IsFiniteSet(rows')
    BY <2>1 DEF TypeInv, TypeOK
  <2>4. TypeOK'
    BY <1>1, <2>1, <2>3 DEF TypeInv, TypeOK, Stages, WriterStages, OnePerKey
  <2>5. /\ pc'[w] = "ingest" /\ left'[w] \subseteq left[w] /\ tx'[w] = {}
        /\ \A v \in Ingests : v # w => /\ pc'[v] = pc[v] /\ engine'[v] = engine[v] /\ at'[v] = at[v]
                                       /\ tx'[v] = tx[v] /\ left'[v] = left[v]
        /\ \A r \in Readers : pc'[r] = pc[r]
    BY <1>1, <2>1 DEF TypeInv, TypeOK
  <2>6. input[w] \in Inputs /\ Readable(input[w]) /\ left[w] \subseteq EnginesOf(input[w])
    BY <2>1 DEF TypeInv
  <2>7. QED
    BY <2>1, <2>2, <2>3, <2>4, <2>5, <2>6 DEF TypeInv, IngestStages, WriterStages, OnePerKey
<1>9. CASE Finish(w)
  BY <1>9, CloseType DEF Finish
<1>10. CASE Break(w)
  BY <1>10, CloseType DEF Break
<1>11. CASE IngestAgain(w)
  <2>1. pc' = [pc EXCEPT ![w] = "idle"] /\ UNCHANGED <<file, rows, input, left, engine, at, tx, counted>>
    BY <1>11 DEF IngestAgain, Goto, writer, reader
  <2>2. TypeOK'
    BY <1>1, <2>1 DEF TypeInv, TypeOK, Stages
  <2>3. QED
    BY <1>1, <2>1, <2>2 DEF TypeInv, IngestStages
<1>12. QED
  BY <1>2, <1>3, <1>4, <1>5, <1>6, <1>7, <1>8, <1>9, <1>10, <1>11 DEF Ingest

LEMMA ReadType ==
    ASSUME TypeInv, NEW r \in Readers, Read(r) \/ ReadAgain(r) PROVE TypeInv'
<1>1. Cardinality(rows) \in Nat
  BY FS_CardinalityType DEF TypeInv
<1>2. /\ pc \in [Procs -> Stages] /\ r \in Procs
      /\ \A w \in Ingests : w \in Procs /\ w # r
      /\ \A q \in Readers : q \in Procs
  BY StoreAssumption DEF TypeInv, TypeOK, Procs
<1>3. UNCHANGED <<file, rows, input, left, engine, at, tx>>
  BY DEF Read, ReadAgain, Exists, OpenReadOnly, ReadFails, Count, FindingsByPath, writer
<1>4. PICK place \in ReadStages : pc' = [pc EXCEPT ![r] = place]
  BY DEF Read, ReadAgain, Exists, OpenReadOnly, ReadFails, Count, FindingsByPath, Goto,
         ReadStages, ReaderStages
<1>5. counted' \in [Readers -> Nat]
  BY <1>1 DEF Read, ReadAgain, Exists, OpenReadOnly, ReadFails, Count, FindingsByPath,
              reader, TypeInv, TypeOK
<1>6. /\ \A w \in Ingests : pc'[w] = pc[w]
      /\ \A q \in Readers : pc'[q] \in ReadStages
      /\ pc' \in [Procs -> Stages]
  BY <1>2, <1>4 DEF TypeInv, ReadStages, Stages
<1>7. TypeOK'
  BY <1>3, <1>5, <1>6 DEF TypeInv, TypeOK
<1>8. QED
  BY <1>3, <1>6, <1>7 DEF TypeInv

LEMMA TypeStep == TypeInv /\ [Next]_vars => TypeInv'
<1>1. SUFFICES ASSUME TypeInv, [Next]_vars PROVE TypeInv'
  OBVIOUS
<1>2. CASE UNCHANGED vars
  BY <1>1, <1>2 DEF TypeInv, TypeOK, vars, writer, reader
<1>3. CASE \E w \in Ingests : Ingest(w) \/ IngestAgain(w)
  BY <1>1, <1>3, IngestType
<1>4. CASE \E r \in Readers : Read(r) \/ ReadAgain(r)
  BY <1>1, <1>4, ReadType
<1>5. QED
  BY <1>1, <1>2, <1>3, <1>4 DEF Next

LEMMA TypeInvariant == Spec => []TypeInv
  BY InitType, TypeStep, PTL DEF Spec

-----------------------------------------------------------------------------
(* The locks.                                                              *)

LEMMA InitExclusive == Init => Exclusive
  BY DEF Init, Exclusive, Writing, Reading, WriterStages, ReaderStages

\* Nobody else's connection changes in a step, and one is only opened for
\* writing alone, and for reading beside no writer.
LEMMA ExclusiveStep == TypeInv /\ Exclusive /\ [Next]_vars => Exclusive'
<1>1. SUFFICES ASSUME TypeInv, Exclusive, [Next]_vars PROVE Exclusive'
  OBVIOUS
<1>2. CASE UNCHANGED vars
  BY <1>1, <1>2 DEF Exclusive, Writing, Reading, vars
<1>3. ASSUME NEW p \in Procs, NEW place \in Stages, pc' = [pc EXCEPT ![p] = place],
             \/ /\ place \in WriterStages
                /\ Writing(p) \/ (\A q \in Procs : ~Writing(q) /\ ~Reading(q))
             \/ /\ place \in ReaderStages
                /\ Reading(p) \/ (\A q \in Procs : ~Writing(q))
             \/ place \notin WriterStages \cup ReaderStages
      PROVE  Exclusive'
  <2>1. pc \in [Procs -> Stages]
    BY <1>1 DEF TypeInv, TypeOK
  <2>2. pc'[p] = place /\ \A q \in Procs : q # p => pc'[q] = pc[q]
    BY <1>3, <2>1
  <2>3. WriterStages \cap ReaderStages = {}
    BY DEF WriterStages, ReaderStages
  <2>4. /\ \A q \in Procs : q # p => (Writing(q)' <=> Writing(q)) /\ (Reading(q)' <=> Reading(q))
        /\ Writing(p)' <=> place \in WriterStages
        /\ Reading(p)' <=> place \in ReaderStages
    BY <2>2 DEF Writing, Reading
  <2>5. QED
    BY <1>1, <1>3, <2>3, <2>4 DEF Exclusive
<1>4. ASSUME NEW w \in Ingests, Ingest(w) \/ IngestAgain(w) PROVE Exclusive'
  <2>1. w \in Procs
    BY DEF Procs
  <2>2. CASE OpenOrCreate(w)
    BY <1>3, <2>1, <2>2 DEF OpenOrCreate, Goto, Stages, WriterStages
  <2>3. CASE OpenFails(w)
    BY <1>3, <2>1, <2>3 DEF OpenFails, Goto, Stages, WriterStages, ReaderStages
  <2>4. CASE CreateTable(w)
    BY <1>3, <2>1, <2>4 DEF CreateTable, Goto, Stages, WriterStages, Writing
  <2>5. CASE Parse(w)
    <3>1. CASE Readable(input[w])
      BY <1>3, <2>1, <2>5, <3>1 DEF Parse, Goto, Stages, WriterStages, Writing
    <3>2. CASE ~Readable(input[w])
      BY <1>3, <2>1, <2>5, <3>2 DEF Parse, Close, Goto, Stages, WriterStages, ReaderStages
    <3>3. QED
      BY <3>1, <3>2
  <2>6. CASE Delete(w)
    BY <1>3, <2>1, <2>6 DEF Delete, Goto, Stages, WriterStages, Writing
  <2>7. CASE Insert(w)
    BY <1>1, <2>7 DEF Insert, Exclusive, Writing, Reading
  <2>8. CASE Commit(w)
    BY <1>3, <2>1, <2>8 DEF Commit, Goto, Stages, WriterStages, Writing
  <2>9. CASE Finish(w)
    BY <1>3, <2>1, <2>9 DEF Finish, Close, Goto, Stages, WriterStages, ReaderStages
  <2>10. CASE Break(w)
    BY <1>3, <2>1, <2>10 DEF Break, Close, Goto, Stages, WriterStages, ReaderStages
  <2>11. CASE IngestAgain(w)
    BY <1>3, <2>1, <2>11 DEF IngestAgain, Goto, Stages, WriterStages, ReaderStages
  <2>12. QED
    BY <1>4, <2>2, <2>3, <2>4, <2>5, <2>6, <2>7, <2>8, <2>9, <2>10, <2>11 DEF Ingest
<1>5. ASSUME NEW r \in Readers, Read(r) \/ ReadAgain(r) PROVE Exclusive'
  <2>1. r \in Procs
    BY DEF Procs
  <2>2. CASE Exists(r)
    BY <1>3, <2>1, <2>2 DEF Exists, Goto, Stages, WriterStages, ReaderStages
  <2>3. CASE OpenReadOnly(r)
    BY <1>3, <2>1, <2>3 DEF OpenReadOnly, Goto, Stages, ReaderStages
  <2>4. CASE ReadFails(r)
    BY <1>3, <2>1, <2>4 DEF ReadFails, Goto, Stages, WriterStages, ReaderStages
  <2>5. CASE Count(r)
    BY <1>3, <2>1, <2>5 DEF Count, Goto, Stages, WriterStages, ReaderStages, Reading
  <2>6. CASE FindingsByPath(r)
    BY <1>3, <2>1, <2>6 DEF FindingsByPath, Goto, Stages, WriterStages, ReaderStages
  <2>7. CASE ReadAgain(r)
    BY <1>3, <2>1, <2>7 DEF ReadAgain, Goto, Stages, WriterStages, ReaderStages
  <2>8. QED
    BY <1>5, <2>2, <2>3, <2>4, <2>5, <2>6, <2>7 DEF Read
<1>6. QED
  BY <1>1, <1>2, <1>4, <1>5 DEF Next

-----------------------------------------------------------------------------
(* What the transactions store.                                            *)

\* The open transaction holds the findings inserted so far of its engine, and
\* every other engine's rows as they are.
TransactionOK ==
    \A w \in Ingests : pc[w] = "insert" =>
        /\ EngineRows(tx[w], engine[w]) = StoredTo(Batch(input[w], engine[w]), at[w])
        /\ \A e : e # engine[w] => EngineRows(tx[w], e) = EngineRows(rows, e)

StoreInv == TypeInv /\ Exclusive /\ TransactionOK /\ IngestedMeansStored

\* A step that keeps the rows, and of an ingest at work all that it works with.
LEMMA StoreKept ==
    ASSUME StoreInv, rows' = rows,
           \A w \in Ingests : pc'[w] \in {"ingest", "insert"} =>
               /\ pc'[w] = pc[w] /\ input'[w] = input[w] /\ left'[w] = left[w]
               /\ engine'[w] = engine[w] /\ at'[w] = at[w] /\ tx'[w] = tx[w]
    PROVE  TransactionOK' /\ IngestedMeansStored'
<1>1. TransactionOK'
  BY DEF StoreInv, TransactionOK
<1>2. IngestedMeansStored'
  BY DEF StoreInv, IngestedMeansStored
<1>3. QED
  BY <1>1, <1>2

\* The ingest that commits makes the rows of its engine its batch.
LEMMA CommitStores ==
    ASSUME StoreInv, NEW w \in Ingests, Commit(w)
    PROVE  /\ EngineRows(rows', engine[w]) = Stored(Batch(input[w], engine[w]))
           /\ \A e : e # engine[w] => EngineRows(rows', e) = EngineRows(rows, e)
           /\ Readable(input[w]) /\ engine[w] \in EnginesOf(input[w])
<1>1. pc[w] = "insert" /\ rows' = tx[w] /\ at[w] = Len(Batch(input[w], engine[w]))
  BY DEF Commit
<1>2. Batch(input[w], engine[w]) \in Seq({row \in Rows : row.engine = engine[w]})
  BY <1>1, BatchType DEF StoreInv
<1>3. Stored(Batch(input[w], engine[w])) = StoredTo(Batch(input[w], engine[w]), at[w])
  BY <1>1, <1>2, StoredAtEnd
<1>4. QED
  BY <1>1, <1>3 DEF StoreInv, TransactionOK, TypeInv

\* Beside an ingest at work there is no other.
LEMMA Alone ==
    ASSUME StoreInv, NEW w \in Ingests, Writing(w), NEW v \in Ingests, v # w
    PROVE  pc[v] \notin WriterStages
  BY DEF StoreInv, Exclusive, Writing, Procs

LEMMA InitStore == Init => StoreInv
<1>1. SUFFICES ASSUME Init PROVE StoreInv
  OBVIOUS
<1>2. \A w \in Ingests : pc[w] = "idle"
  BY <1>1 DEF Init, Procs
<1>3. TransactionOK /\ IngestedMeansStored
  BY <1>2 DEF TransactionOK, IngestedMeansStored
<1>4. QED
  BY <1>1, <1>3, InitType, InitExclusive DEF StoreInv

LEMMA StoreStep == StoreInv /\ [Next]_vars => StoreInv'
<1>1. SUFFICES ASSUME StoreInv, [Next]_vars PROVE TransactionOK' /\ IngestedMeansStored'
  BY TypeStep, ExclusiveStep DEF StoreInv
<1>2. CASE UNCHANGED vars
  BY <1>1, <1>2, StoreKept DEF vars, writer
<1>3. ASSUME NEW r \in Readers, Read(r) \/ ReadAgain(r) PROVE TransactionOK' /\ IngestedMeansStored'
  <2>1. UNCHANGED <<rows, input, left, engine, at, tx>>
    BY <1>3 DEF Read, ReadAgain, Exists, OpenReadOnly, ReadFails, Count, FindingsByPath, writer
  <2>2. \E place : pc' = [pc EXCEPT ![r] = place]
    BY <1>3 DEF Read, ReadAgain, Exists, OpenReadOnly, ReadFails, Count, FindingsByPath, Goto
  <2>3. \A w \in Ingests : w # r /\ w \in Procs
    BY StoreAssumption DEF Procs
  <2>4. \A w \in Ingests : pc'[w] = pc[w]
    BY <1>1, <2>2, <2>3 DEF StoreInv, TypeInv, TypeOK
  <2>5. QED
    BY <1>1, <2>1, <2>4, StoreKept
<1>4. ASSUME NEW w \in Ingests, Ingest(w) \/ IngestAgain(w) PROVE TransactionOK' /\ IngestedMeansStored'
  <2> DEFINE Others == \A v \in Ingests \ {w} :
                 /\ pc'[v] = pc[v] /\ input'[v] = input[v] /\ left'[v] = left[v]
                 /\ engine'[v] = engine[v] /\ at'[v] = at[v] /\ tx'[v] = tx[v]
  <2>1. /\ pc \in [Procs -> Stages] /\ w \in Procs /\ \A v \in Ingests : v \in Procs
        /\ input \in [Ingests -> Inputs \cup {<<>>}] /\ left \in [Ingests -> SUBSET Engines]
        /\ engine \in [Ingests -> Engines \cup {NoEngine}]
        /\ at \in [Ingests -> Nat] /\ tx \in [Ingests -> SUBSET Rows]
    BY <1>1 DEF StoreInv, TypeInv, TypeOK, Procs
  <2>2. CASE /\ UNCHANGED rows
             /\ OpenOrCreate(w) \/ OpenFails(w) \/ CreateTable(w) \/ Finish(w) \/ Break(w) \/ IngestAgain(w)
    <3>1. Others
      BY <2>1, <2>2 DEF OpenOrCreate, OpenFails, CreateTable, Finish, Break, IngestAgain, Close, Goto, writer
    <3>2. pc'[w] \notin {"ingest", "insert"}
      BY <2>1, <2>2 DEF OpenOrCreate, OpenFails, CreateTable, Finish, Break, IngestAgain, Close, Goto
    <3>3. QED
      BY <1>1, <2>2, <3>1, <3>2, StoreKept
  <2>3. CASE Parse(w)
    <3>1. UNCHANGED rows /\ Others
      BY <2>1, <2>3 DEF Parse, Close, Goto
    <3>2. CASE ~Readable(input[w])
      <4>1. pc'[w] = "failed"
        BY <2>1, <2>3, <3>2 DEF Parse, Close, Goto
      <4>2. QED
        BY <1>1, <3>1, <4>1, StoreKept
    <3>3. CASE Readable(input[w])
      <4>1. pc'[w] = "ingest" /\ input'[w] = input[w] /\ left'[w] = EnginesOf(input[w])
        BY <2>1, <2>3, <3>3 DEF Parse, Goto
      <4>2. TransactionOK'
        BY <1>1, <3>1, <4>1 DEF StoreInv, TransactionOK
      <4>3. IngestedMeansStored'
        BY <1>1, <3>1, <4>1 DEF StoreInv, IngestedMeansStored
      <4>4. QED
        BY <4>2, <4>3
    <3>4. QED
      BY <3>2, <3>3
  <2>4. CASE Delete(w)
    <3>1. PICK e \in left[w] : /\ engine' = [engine EXCEPT ![w] = e]
                               /\ tx' = [tx EXCEPT ![w] = {r \in rows : r.engine # e}]
                               /\ at' = [at EXCEPT ![w] = 0]
      BY <2>4 DEF Delete
    <3>2. /\ pc[w] = "ingest" /\ pc' = [pc EXCEPT ![w] = "insert"] /\ UNCHANGED <<rows, input, left>>
      BY <2>4 DEF Delete, Goto
    <3>3. /\ pc'[w] = "insert" /\ engine'[w] = e /\ at'[w] = 0
          /\ tx'[w] = {r \in rows : r.engine # e} /\ Others
      BY <2>1, <3>1, <3>2
    <3>4. /\ EngineRows(tx'[w], e) = {}
          /\ \A f : f # e => EngineRows(tx'[w], f) = EngineRows(rows, f)
      BY <3>3 DEF EngineRows
    <3>5. StoredTo(Batch(input[w], e), 0) = {}
      BY DEF StoredTo
    <3>6. TransactionOK'
      BY ZenonT(40), <1>1, <3>2, <3>3, <3>4, <3>5 DEF StoreInv, TransactionOK
    <3>7. IngestedMeansStored'
      BY <1>1, <3>2, <3>3 DEF StoreInv, IngestedMeansStored
    <3>8. QED
      BY <3>6, <3>7
  <2>5. CASE Insert(w)
    <3> DEFINE batch == Batch(input[w], engine[w])
               row == batch[at[w] + 1]
    <3>1. /\ pc[w] = "insert" /\ at[w] < Len(batch)
          /\ at'[w] = at[w] + 1 /\ tx'[w] = Upsert(tx[w], row) /\ Others
          /\ UNCHANGED <<rows, pc, input, left, engine>>
      BY <2>1, <2>5 DEF Insert
    <3>2. /\ batch \in Seq({r \in Rows : r.engine = engine[w]})
          /\ at[w] \in Nat /\ Len(batch) \in Nat
      BY <1>1, <3>1, BatchType DEF StoreInv
    <3>3. row.engine = engine[w]
      BY <3>1, <3>2
    <3>4. /\ EngineRows(tx'[w], engine[w]) = Upsert(EngineRows(tx[w], engine[w]), row)
          /\ \A e : e # engine[w] => EngineRows(tx'[w], e) = EngineRows(tx[w], e)
      BY <3>1, <3>3, UpsertRows
    <3>5. StoredTo(batch, at[w] + 1) = Upsert(StoredTo(batch, at[w]), batch[at[w] + 1])
      BY <3>1, <3>2, StoredNext
    <3> HIDE DEF batch, row
    <3>6. /\ EngineRows(tx[w], engine[w]) = StoredTo(batch, at[w])
          /\ \A e : e # engine[w] => EngineRows(tx[w], e) = EngineRows(rows, e)
      BY <1>1, <3>1 DEF StoreInv, TransactionOK, batch
    <3>7. TransactionOK'
      BY <1>1, <3>1, <3>4, <3>5, <3>6 DEF StoreInv, TransactionOK, batch, row
    <3>8. IngestedMeansStored'
      BY <1>1, <3>1 DEF StoreInv, IngestedMeansStored
    <3>9. QED
      BY <3>7, <3>8
  <2>6. CASE Commit(w)
    <3>1. /\ pc[w] = "insert" /\ pc'[w] = "ingest" /\ left'[w] = left[w] \ {engine[w]}
          /\ input'[w] = input[w] /\ Others
      BY <2>1, <2>6 DEF Commit, Goto
    <3>2. \A v \in Ingests \ {w} : pc'[v] \notin {"ingest", "insert"}
      BY <1>1, <3>1, Alone DEF Writing, WriterStages
    <3>3. TransactionOK'
      BY <3>1, <3>2 DEF TransactionOK
    <3>4. /\ EngineRows(rows', engine[w]) = Stored(Batch(input[w], engine[w]))
          /\ \A e : e # engine[w] => EngineRows(rows', e) = EngineRows(rows, e)
      BY <1>1, <2>6, CommitStores
    <3>5. \A e \in EnginesOf(input[w]) \ left'[w] : EngineRows(rows', e) = Stored(Batch(input[w], e))
      BY <1>1, <3>1, <3>4 DEF StoreInv, IngestedMeansStored
    <3>6. IngestedMeansStored'
      BY <3>1, <3>2, <3>5 DEF IngestedMeansStored
    <3>7. QED
      BY <3>3, <3>6
  <2>7. QED
    BY <1>4, <2>2, <2>3, <2>4, <2>5, <2>6
       DEF Ingest, OpenOrCreate, OpenFails, CreateTable, Finish, Break, IngestAgain
<1>5. QED
  BY <1>1, <1>2, <1>3, <1>4 DEF Next

LEMMA StoreInvariant == Spec => []StoreInv
  BY InitStore, StoreStep, PTL DEF Spec

\* An ingest has stored what it read of every engine it is done with.
THEOREM IngestedStored == SidecarsSpec => []IngestedMeansStored
<1>1. StoreInv => IngestedMeansStored
  BY DEF StoreInv
<1>2. QED
  BY <1>1, StoreInvariant, Components, PTL

\* An engine's rows change only into one whole ingest's readable findings.
THEOREM WholeEngines == SidecarsSpec => ReplacesWholeEngines
<1> DEFINE Whole == \A e \in Engines :
               EngineRows(rows', e) # EngineRows(rows, e) =>
                  \E w \in Ingests :
                      /\ Readable(input[w]) /\ e \in EnginesOf(input[w])
                      /\ EngineRows(rows', e) = Stored(Batch(input[w], e))
<1>1. ASSUME StoreInv, [Next]_vars PROVE [Whole]_vars
  <2>1. CASE UNCHANGED vars
    BY <2>1
  <2>2. CASE \E w \in Ingests : Commit(w)
    <3>1. PICK w \in Ingests : Commit(w)
      BY <2>2
    <3>2. /\ EngineRows(rows', engine[w]) = Stored(Batch(input[w], engine[w]))
          /\ \A e : e # engine[w] => EngineRows(rows', e) = EngineRows(rows, e)
          /\ Readable(input[w]) /\ engine[w] \in EnginesOf(input[w])
      BY <1>1, <3>1, CommitStores
    <3>3. QED
      BY <3>2
  <2>3. CASE Next /\ ~\E w \in Ingests : Commit(w)
    <3>1. rows' = rows
      BY <2>3 DEF Next, Ingest, Read, IngestAgain, ReadAgain, OpenOrCreate, OpenFails, CreateTable, Parse,
                  Delete, Insert, Finish, Break, Exists, OpenReadOnly, ReadFails, Count, FindingsByPath
    <3>2. QED
      BY <3>1
  <2>4. QED
    BY <1>1, <2>1, <2>2, <2>3
<1>2. QED
  BY <1>1, StoreInvariant, Components, PTL DEF Spec, ReplacesWholeEngines

-----------------------------------------------------------------------------
(* What a reader reports.                                                  *)

LEMMA LeastOf ==
    ASSUME NEW T \in SUBSET Nat, T # {}
    PROVE  \E n \in T : \A m \in T : n <= m
<1> DEFINE R == OpToRel(<, Nat)
<1>1. IsWellFoundedOn(R, Nat)
  BY NatLessThanWellFounded
<1>2. \E n \in T : \A m \in T : ~(<<m, n>> \in R)
  <2> HIDE DEF R
  <2> QED BY <1>1, WFMin
<1>3. \A m, n \in Nat : m < n => <<m, n>> \in R
  BY DEF OpToRel
<1>4. PICK n \in T : \A m \in T : ~(<<m, n>> \in R)
  BY <1>2
<1>5. \A m \in T : m \in Nat /\ n \in Nat /\ ~(m < n)
  <2> HIDE DEF R
  <2> QED BY <1>3, <1>4
<1>6. \A m \in T : n <= m
  <2> HIDE DEF R
  <2> QED BY <1>5
<1> QED BY <1>6

\* The recursion a fold over a set is defined by.
Summing(f, s, iter) ==
    IF s = {} THEN 0
    ELSE LET x == CHOOSE x \in s : TRUE IN f[x].count + iter[s \ {x}]

LEMMA SumIs ==
    ASSUME NEW f, NEW S, IsFiniteSet(S), NEW g, g = [s \in SUBSET S |-> Summing(f, s, g)]
    PROVE  MapThenSumSet(LAMBDA p : f[p].count, S) = g[S]
<1> DEFINE iter == CHOOSE iter : iter = [s \in SUBSET S |-> Summing(f, s, iter)]
<1>1. iter = [s \in SUBSET S |-> Summing(f, s, iter)]
  OBVIOUS
<1>2. MapThenSumSet(LAMBDA p : f[p].count, S) = iter[S]
  BY DEF MapThenSumSet, MapThenFoldSet, Summing
<1> HIDE DEF iter
<1>3. \A s \in SUBSET S : iter[s] = Summing(f, s, iter) /\ g[s] = Summing(f, s, g)
  BY <1>1
<1>4. \A s \in SUBSET S : IsFiniteSet(s) /\ Cardinality(s) \in Nat
  BY FS_Subset, FS_CardinalityType
<1> DEFINE Bad == {Cardinality(s) : s \in {s \in SUBSET S : iter[s] # g[s]}}
<1>5. Bad = {}
  <2>1. SUFFICES ASSUME Bad # {} PROVE FALSE
    OBVIOUS
  <2>2. PICK k \in Bad : \A j \in Bad : k <= j
    <3>1. Bad \in SUBSET Nat
      BY <1>4
    <3> HIDE DEF Bad
    <3> QED BY <2>1, <3>1, LeastOf
  <2>3. PICK s \in SUBSET S : iter[s] # g[s] /\ k = Cardinality(s)
    BY <2>2
  <2>4. CASE s = {}
    BY <1>3, <2>3, <2>4 DEF Summing
  <2>5. CASE s # {}
    <3> DEFINE x == CHOOSE x \in s : TRUE
               u == s \ {x}
    <3>1. x \in s
      BY <2>5
    <3> HIDE DEF x
    <3>2. u \in SUBSET S /\ Cardinality(u) = k - 1
      BY <1>4, <2>3, <3>1, FS_RemoveElement
    <3>3. k \in Nat
      BY <1>4, <2>3
    <3>4. iter[u] = g[u]
      <4>1. Cardinality(u) \notin Bad
        <5>1. ~(k <= k - 1)
          BY <3>3
        <5> HIDE DEF Bad
        <5> QED BY <2>2, <3>2, <5>1
      <4> HIDE DEF u
      <4> QED BY <3>2, <4>1
    <3>5. iter[s] = f[x].count + iter[u] /\ g[s] = f[x].count + g[u]
      BY <1>3, <2>5 DEF Summing, x
    <3> QED BY <2>3, <3>4, <3>5
  <2> QED BY <2>4, <2>5
<1>6. S \in SUBSET S
  OBVIOUS
<1> QED BY <1>2, <1>5, <1>6

\* The counts of the paths add up to the rows.
LEMMA CountsAddUp ==
    ASSUME NEW rs, IsFiniteSet(rs)
    PROVE  LET found == findings_by_path(rs) IN
           MapThenSumSet(LAMBDA p : found[p].count, DOMAIN found) = Cardinality(rs)
<1> DEFINE found == findings_by_path(rs)
           S == {r.path : r \in rs}
           Of(s) == {r \in rs : r.path \in s}
           g == [s \in SUBSET S |-> Cardinality(Of(s))]
<1>1. DOMAIN found = S /\ \A p \in S : found[p].count = Cardinality({r \in rs : r.path = p})
  BY DEF findings_by_path
<1>2. IsFiniteSet(S)
  <2> DEFINE path == [r \in rs |-> r.path]
  <2>1. path \in Surjection(rs, S)
    BY DEF Surjection
  <2> QED BY <2>1, FS_Surjection
<1>3. \A s : IsFiniteSet(Of(s)) /\ Cardinality(Of(s)) \in Nat
  BY FS_Subset, FS_CardinalityType
<1>4. g = [s \in SUBSET S |-> Summing(found, s, g)]
  <2>1. ASSUME NEW s \in SUBSET S PROVE Cardinality(Of(s)) = Summing(found, s, g)
    <3>1. CASE s = {}
      <4>1. Of(s) = {}
        BY <3>1
      <4>2. Cardinality({}) = 0
        BY FS_EmptySet
      <4> QED BY <3>1, <4>1, <4>2 DEF Summing
    <3>2. CASE s # {}
      <4> DEFINE x == CHOOSE x \in s : TRUE
                 At == {r \in rs : r.path = x}
                 u == s \ {x}
      <4>1. x \in s
        BY <3>2
      <4>2. Summing(found, s, g) = found[x].count + g[u]
        BY <3>2 DEF Summing
      <4> HIDE DEF x
      <4>3. u \in SUBSET S /\ x \in S
        BY <4>1
      <4>4. found[x].count = Cardinality(At) /\ g[u] = Cardinality(Of(u))
        BY <1>1, <4>3
      <4>5. Of(s) = At \cup Of(u) /\ At \cap Of(u) = {}
        BY <4>1
      <4>6. IsFiniteSet(At) /\ IsFiniteSet(Of(u)) /\ Cardinality(At) \in Nat /\ Cardinality(Of(u)) \in Nat
        BY FS_Subset, FS_CardinalityType
      <4> HIDE DEF At, Of, u
      <4>7. Cardinality(At \cup Of(u)) = Cardinality(At) + Cardinality(Of(u)) - Cardinality(At \cap Of(u))
        BY <4>6, FS_Union
      <4>8. Cardinality(At \cap Of(u)) = 0
        BY <4>5, FS_EmptySet
      <4> QED BY <4>2, <4>4, <4>5, <4>6, <4>7, <4>8
    <3> QED BY <3>1, <3>2
  <2> HIDE DEF Of
  <2> QED BY <2>1
<1>5. Of(S) = rs
  OBVIOUS
<1>6. g[S] = Cardinality(rs)
  BY <1>5
<1> HIDE DEF g, found
<1>7. MapThenSumSet(LAMBDA p : found[p].count, S) = g[S]
  BY ZenonT(40), <1>2, <1>4, SumIs
<1> QED BY <1>1, <1>6, <1>7 DEF found

\* The sum of a report's counts.
Total(found) == MapThenSumSet(LAMBDA p : found[p].count, DOMAIN found)

\* A reader keeps the count of the rows that it still reads, and its report adds
\* up to it.
ReportInv ==
    /\ report = [r \in Readers |-> report[r]]
    /\ \A r \in Readers :
          /\ pc[r] = "counted" => counted[r] = Cardinality(rows) /\ counted[r] > 0
          /\ pc[r] = "done" => counted[r] > 0 /\ counted[r] = Total(report[r])

LEMMA ReportStep == TypeInv /\ Exclusive /\ ReportInv /\ [Next]_vars => ReportInv'
<1>1. SUFFICES ASSUME TypeInv, Exclusive, ReportInv, [Next]_vars PROVE ReportInv'
  OBVIOUS
<1>2. CASE UNCHANGED vars
  BY <1>1, <1>2 DEF vars, reader, ReportInv
<1>3. /\ pc \in [Procs -> Stages] /\ counted \in [Readers -> Nat] /\ IsFiniteSet(rows)
      /\ \A r \in Readers : r \in Procs /\ r \notin Ingests
      /\ \A w \in Ingests : w \in Procs
  BY <1>1, StoreAssumption DEF TypeInv, TypeOK, Procs
<1>4. ASSUME NEW w \in Ingests, Ingest(w) \/ IngestAgain(w) PROVE ReportInv'
  <2>1. UNCHANGED <<counted, report>>
    BY <1>4 DEF Ingest, IngestAgain, OpenOrCreate, OpenFails, CreateTable, Parse, Delete, Insert,
                Commit, Finish, Break, reader
  <2>2. UNCHANGED pc \/ \E place : pc' = [pc EXCEPT ![w] = place]
    BY <1>4 DEF Ingest, IngestAgain, OpenOrCreate, OpenFails, CreateTable, Parse, Delete, Insert,
                Commit, Finish, Break, Close, Goto
  <2>3. \A r \in Readers : pc'[r] = pc[r]
    BY <1>3, <2>2
  <2>4. ASSUME NEW r \in Readers, pc[r] = "counted" PROVE UNCHANGED rows
    <3>1. ~Writing(w)
      BY <1>1, <1>3, <2>4 DEF Exclusive, Reading, ReaderStages
    <3> QED
      BY <1>4, <3>1 DEF Ingest, IngestAgain, OpenOrCreate, OpenFails, CreateTable, Parse, Delete, Insert,
                        Commit, Finish, Break, Writing, WriterStages
  <2> QED
    BY <1>1, <2>1, <2>3, <2>4 DEF ReportInv
<1>5. ASSUME NEW q \in Readers, Read(q) \/ ReadAgain(q) PROVE ReportInv'
  <2>1. UNCHANGED rows
    BY <1>5 DEF Read, ReadAgain, Exists, OpenReadOnly, ReadFails, Count, FindingsByPath
  <2>2. CASE Count(q)
    <3>1. /\ counted' = [counted EXCEPT ![q] = Cardinality(rows)] /\ report' = report
          /\ pc' = [pc EXCEPT ![q] = IF file # "table" \/ rows = {} THEN "none" ELSE "counted"]
      BY <2>2 DEF Count, Goto
    <3>2. rows # {} => Cardinality(rows) > 0
      BY <1>3, FS_EmptySet, FS_CardinalityType
    <3> QED
      BY <1>1, <1>3, <2>1, <3>1, <3>2 DEF ReportInv
  <2>3. CASE FindingsByPath(q)
    <3>1. /\ pc[q] = "counted" /\ pc' = [pc EXCEPT ![q] = "done"] /\ counted' = counted
          /\ report' = [report EXCEPT ![q] = findings_by_path(rows)]
      BY <2>3 DEF FindingsByPath, Goto
    <3>2. Total(findings_by_path(rows)) = Cardinality(rows)
      BY <1>3, CountsAddUp DEF Total
    <3> QED
      BY <1>1, <1>3, <2>1, <3>1, <3>2 DEF ReportInv
  <2>4. CASE Exists(q) \/ OpenReadOnly(q) \/ ReadFails(q) \/ ReadAgain(q)
    <3>1. \E place \in ReadStages \ {"counted", "done"} : pc' = [pc EXCEPT ![q] = place]
      BY <2>4 DEF Exists, OpenReadOnly, ReadFails, ReadAgain, Goto, ReadStages, ReaderStages
    <3>2. /\ counted' = counted \/ counted' = [counted EXCEPT ![q] = 0]
          /\ report' = report \/ report' = [report EXCEPT ![q] = NoReport]
      BY <2>4 DEF Exists, OpenReadOnly, ReadFails, ReadAgain, reader
    <3> QED
      BY <1>1, <1>3, <2>1, <3>1, <3>2 DEF ReportInv
  <2> QED
    BY <1>5, <2>2, <2>3, <2>4 DEF Read
<1> QED
  BY <1>1, <1>2, <1>4, <1>5 DEF Next

LEMMA InitReport == Init => ReportInv
<1>1. SUFFICES ASSUME Init PROVE ReportInv
  OBVIOUS
<1>2. \A r \in Readers : pc[r] = "idle"
  BY <1>1 DEF Init, Procs
<1> QED
  BY <1>1, <1>2 DEF Init, ReportInv

\* A reader's report adds up to what it had counted, and is not empty, though an
\* ingest wanted to begin between its two queries (open_nonempty,
\* findings_by_path).
THEOREM ReportWhole == SidecarsSpec => []ReportAddsUp
<1>1. ReportInv => ReportAddsUp
  BY DEF ReportInv, ReportAddsUp, Total
<1>2. Spec => []ReportInv
  BY InitReport, ReportStep, InitType, TypeStep, InitExclusive, ExclusiveStep, PTL DEF Spec
<1> QED
  BY <1>1, <1>2, Components, PTL

-----------------------------------------------------------------------------
(* The narratives.                                                         *)

NarratorStages == {"idle", "lookup", "write", "fill", "done", "failed"}

\* The state as far as the arguments need it: a narrator that has been called
\* has a call.
NarrativeShape ==
    /\ evidence \in [Subjects -> Sheets] /\ changes \in [Subjects -> Nat]
    /\ stage \in [Narrators -> NarratorStages]
    /\ call = [n \in Narrators |-> call[n]]
    /\ \A n \in Narrators : stage[n] # "idle" => call[n] \in Calls
    /\ answer = [n \in Narrators |-> answer[n]]
    /\ asked = [a \in Askers |-> asked[a]]
    /\ entries = [k \in Keys |-> entries[k]]

IsOf(entry, key) ==
    entry.digest = key.sheet /\ entry.model = key.model /\ entry.prompt = key.prompt

\* An entry that parses lies under the key of what it was made from.
Filed == \A k \in Keys : \A e \in entries[k].json : IsOf(e, k)

\* An answer is of its narrator's call, and a new one of its file too.
Answered ==
    \A n \in Narrators :
        /\ stage[n] \in {"write", "fill", "done"} =>
              /\ IsOf(answer[n].entry, cache_key(call[n]))
              /\ answer[n].grounded =
                    check_citations(call[n].checker, answer[n].entry.text, call[n].sheet)
        /\ stage[n] \in {"write", "fill"} =>
              answer[n].entry.subject = call[n].subject /\ answer[n].entry.text \in Texts

\* The sheet of a file is the one of its evidence as long as that never changed.
Describes(subject, sheet) ==
    subject \in Subjects /\ (changes[subject] = 0 => sheet = evidence[subject])

\* The sheet an asker holds and the newest entry it has found are of its file.
AskerInv(q) ==
    /\ q.step \in {"idle", "printed", "scan", "done"} /\ q.unread \subseteq Keys
    /\ q.step # "idle" => Describes(q.subject, q.sheet)
    /\ \A e \in q.newest : e.subject = q.subject /\ Describes(e.subject, e.digest)
    /\ q.stale => q.subject \in Subjects /\ changes[q.subject] > 0

Dated ==
    /\ \A n \in Narrators : stage[n] # "idle" => Describes(call[n].subject, call[n].sheet)
    /\ \A k \in Keys : \A e \in entries[k].json : Describes(e.subject, e.digest)
    /\ \A a \in Askers : AskerInv(asked[a])

NarrativeInv == NarrativeShape /\ Filed /\ Answered /\ Dated

-----------------------------------------------------------------------------
LEMMA InitNarratives == NarrativesInit => NarrativeInv
<1>1. SUFFICES ASSUME NarrativesInit PROVE NarrativeInv
  OBVIOUS
<1>2. NarrativeShape
  BY <1>1 DEF NarrativesInit, NarrativeShape, NarratorStages
<1>3. \A n \in Narrators : stage[n] = "idle"
  BY <1>1 DEF NarrativesInit
<1>4. \A k \in Keys : entries[k].json = {}
  BY <1>1 DEF NarrativesInit, Absent
<1>5. \A a \in Askers : AskerInv(asked[a])
  BY <1>1 DEF NarrativesInit, NotAsked, Asker, AskerInv
<1>6. QED
  BY <1>2, <1>3, <1>4, <1>5 DEF NarrativeInv, Filed, Answered, Dated

LEMMA KeyType == ASSUME NEW c \in Calls PROVE cache_key(c) \in Keys
  BY DEF Calls, Keys, cache_key

\* What was made for a call is of its key.
LEMMA EntryIsOf ==
    ASSUME NEW c \in Calls, NEW text, NEW time
    PROVE  /\ IsOf(Entry(c, text, time), cache_key(c))
           /\ Entry(c, text, time).subject = c.subject /\ Entry(c, text, time).text = text
           /\ Entry(c, text, time).grounded = check_citations(c.checker, text, c.sheet)
  BY DEF Entry, IsOf, cache_key

\* A narrator moves to another stage, with the answer it has, and writes at most
\* that answer's entry under its key.
LEMMA MoveKeeps ==
    ASSUME NarrativeInv, NEW n \in Narrators, stage[n] # "idle", NEW to \in NarratorStages, to # "idle",
           stage' = [stage EXCEPT ![n] = to], UNCHANGED <<evidence, changes, call, asked>>,
           answer' = [m \in Narrators |-> answer'[m]],
           \A m \in Narrators : m # n => answer'[m] = answer[m],
           entries' = [k \in Keys |-> entries'[k]],
           \A k \in Keys : \A e \in entries'[k].json :
               e \in entries[k].json \/ (stage[n] = "fill" /\ e = answer[n].entry /\ k = cache_key(call[n])),
           to \in {"write", "fill", "done"} =>
               /\ IsOf(answer'[n].entry, cache_key(call[n]))
               /\ answer'[n].grounded =
                     check_citations(call[n].checker, answer'[n].entry.text, call[n].sheet),
           to \in {"write", "fill"} =>
               answer'[n].entry.subject = call[n].subject /\ answer'[n].entry.text \in Texts
    PROVE  NarrativeInv'
<1>1. stage'[n] = to /\ \A m \in Narrators : m # n => stage'[m] = stage[m]
  BY DEF NarrativeInv, NarrativeShape
<1>2. call[n] \in Calls
  BY DEF NarrativeInv, NarrativeShape
<1>3. NarrativeShape'
  BY <1>1, <1>2 DEF NarrativeInv, NarrativeShape
<1>4. Filed'
  BY DEF NarrativeInv, Filed, Answered
<1>5. Answered'
  BY <1>1 DEF NarrativeInv, Answered
<1>6. Describes(call[n].subject, call[n].sheet)
  BY DEF NarrativeInv, Dated
<1>7. stage[n] = "fill" => Describes(answer[n].entry.subject, answer[n].entry.digest)
  BY <1>6 DEF NarrativeInv, Answered, IsOf, cache_key
<1>8. \A k \in Keys : \A e \in entries'[k].json : Describes(e.subject, e.digest)
  BY <1>7 DEF NarrativeInv, Dated
<1>9. \A m \in Narrators : stage'[m] # "idle" => Describes(call[m].subject, call[m].sheet)
  BY <1>1, <1>6 DEF NarrativeInv, Dated
<1>10. Dated'
  BY <1>8, <1>9 DEF NarrativeInv, Dated, Describes, AskerInv
<1>11. QED
  BY <1>3, <1>4, <1>5, <1>10 DEF NarrativeInv

LEMMA NarrateKeeps == ASSUME NarrativeInv, NEW n \in Narrators, Narrate(n) PROVE NarrativeInv'
<1>1. CASE Call(n)
  <2>1. PICK s \in Subjects, e \in Environments[n] :
            call' = [call EXCEPT ![n] =
                [subject |-> s, sheet |-> evidence[s], model |-> e.model, prompt |-> e.prompt,
                 checker |-> e.checker, refresh |-> e.refresh]]
    BY <1>1 DEF Call
  <2>2. /\ stage[n] = "idle" /\ stage' = [stage EXCEPT ![n] = "lookup"]
        /\ UNCHANGED <<evidence, changes, entries, answer, asked>>
    BY <1>1 DEF Call, Enter, world
  <2>3. /\ e.model \in Models /\ e.prompt \in Prompts /\ e.checker \in Checkers /\ e.refresh \in BOOLEAN
        /\ evidence[s] \in Sheets
    BY NarrativeBounds DEF NarrativeInv, NarrativeShape
  <2>4. call' = [m \in Narrators |-> call'[m]] /\ \A m \in Narrators : m # n => call'[m] = call[m]
    BY <2>1 DEF NarrativeInv, NarrativeShape
  <2>5. call'[n] \in Calls /\ call'[n].subject = s /\ call'[n].sheet = evidence[s]
    BY <2>1, <2>3 DEF NarrativeInv, NarrativeShape, Calls
  <2>6. stage'[n] = "lookup" /\ stage' \in [Narrators -> NarratorStages] /\ \A m \in Narrators : m # n => stage'[m] = stage[m]
    BY <2>2 DEF NarrativeInv, NarrativeShape, NarratorStages
  <2>7. NarrativeShape'
    BY <2>2, <2>4, <2>5, <2>6 DEF NarrativeInv, NarrativeShape
  <2>8. Filed' /\ Answered'
    BY <2>2, <2>4, <2>6 DEF NarrativeInv, Filed, Answered
  <2>9. Dated'
    BY <2>2, <2>4, <2>5, <2>6 DEF NarrativeInv, Dated, Describes, AskerInv
  <2>10. QED
    BY <2>7, <2>8, <2>9 DEF NarrativeInv
<1>2. CASE Hit(n)
  <2>1. PICK hit \in read(cache_key(call[n])) :
            answer' = [answer EXCEPT ![n] =
                [entry |-> hit, from_cache |-> TRUE,
                 grounded |-> check_citations(call[n].checker, hit.text, call[n].sheet)]]
    BY <1>2 DEF Hit
  <2>2. /\ stage[n] = "lookup" /\ stage' = [stage EXCEPT ![n] = "done"]
        /\ UNCHANGED <<evidence, changes, entries, call, asked>>
    BY <1>2 DEF Hit, Enter, world
  <2>3. call[n] \in Calls
    BY <2>2 DEF NarrativeInv, NarrativeShape
  <2>4. IsOf(hit, cache_key(call[n]))
    BY <2>3, KeyType DEF NarrativeInv, Filed, read
  <2>5. /\ answer'[n].entry = hit
        /\ answer'[n].grounded = check_citations(call[n].checker, hit.text, call[n].sheet)
        /\ answer' = [m \in Narrators |-> answer'[m]]
        /\ \A m \in Narrators : m # n => answer'[m] = answer[m]
    BY <2>1 DEF NarrativeInv, NarrativeShape
  <2>6. entries' = [k \in Keys |-> entries'[k]]
    BY <2>2 DEF NarrativeInv, NarrativeShape
  <2>7. QED
    BY <2>2, <2>4, <2>5, <2>6, MoveKeeps DEF NarratorStages
<1>3. CASE Complete(n)
  <2>1. PICK text \in Texts :
            answer' = [answer EXCEPT ![n] =
                [entry |-> Entry(call[n], text, now), grounded |-> Entry(call[n], text, now).grounded,
                 from_cache |-> FALSE]]
    BY <1>3 DEF Complete
  <2>2. /\ stage[n] = "lookup" /\ stage' = [stage EXCEPT ![n] = "write"]
        /\ UNCHANGED <<evidence, changes, entries, call, asked>>
    BY <1>3 DEF Complete, Enter, world
  <2>3. call[n] \in Calls
    BY <2>2 DEF NarrativeInv, NarrativeShape
  <2>4. /\ answer'[n].entry = Entry(call[n], text, now)
        /\ answer'[n].grounded = Entry(call[n], text, now).grounded
        /\ answer' = [m \in Narrators |-> answer'[m]]
        /\ \A m \in Narrators : m # n => answer'[m] = answer[m]
    BY <2>1 DEF NarrativeInv, NarrativeShape
  <2>5. entries' = [k \in Keys |-> entries'[k]]
    BY <2>2 DEF NarrativeInv, NarrativeShape
  <2>6. /\ IsOf(answer'[n].entry, cache_key(call[n]))
        /\ answer'[n].grounded =
              check_citations(call[n].checker, answer'[n].entry.text, call[n].sheet)
        /\ answer'[n].entry.subject = call[n].subject /\ answer'[n].entry.text \in Texts
    BY <2>3, <2>4, EntryIsOf
  <2>7. QED
    BY <2>2, <2>4, <2>5, <2>6, MoveKeeps DEF NarratorStages
<1>4. CASE CompleteFails(n) \/ Kill(n)
  <2>1. /\ stage[n] # "idle" /\ stage' = [stage EXCEPT ![n] = "failed"]
        /\ UNCHANGED <<evidence, changes, entries, call, answer, asked>>
    BY <1>4 DEF CompleteFails, Kill, Enter, world
  <2>2. /\ entries' = [k \in Keys |-> entries'[k]]
        /\ answer' = [m \in Narrators |-> answer'[m]]
    BY <2>1 DEF NarrativeInv, NarrativeShape
  <2>3. QED
    BY <2>1, <2>2, MoveKeeps DEF NarratorStages
<1>5. CASE Truncate(n) \/ Fill(n) \/ WriteFails(n)
  <2>1. PICK to \in {"fill", "done"} : stage' = [stage EXCEPT ![n] = to]
    BY <1>5 DEF Truncate, Fill, WriteFails, Enter
  <2>2. stage[n] \in {"write", "fill"} /\ UNCHANGED <<evidence, changes, call, answer, asked>>
    BY <1>5 DEF Truncate, Fill, WriteFails, world
  <2>3. \E held : /\ entries' = entries \/ entries' = [entries EXCEPT ![cache_key(call[n])] = held]
                  /\ \A e \in held.json : stage[n] = "fill" /\ e = answer[n].entry
    <3>1. CASE Truncate(n)
      <4>1. entries' = [entries EXCEPT ![cache_key(call[n])] = Empty]
        BY <3>1 DEF Truncate
      <4>2. Empty.json = {}
        BY DEF Empty, Holding
      <4>3. QED
        BY <4>1, <4>2
    <3>2. CASE Fill(n)
      <4> DEFINE held == Overwritten(entries[cache_key(call[n])], answer[n].entry)
      <4>1. entries' = [entries EXCEPT ![cache_key(call[n])] = held] /\ stage[n] = "fill"
        BY <3>2 DEF Fill
      <4>2. \A e \in held.json : e = answer[n].entry
        BY DEF Overwritten, Holding
      <4>3. QED
        BY <4>1, <4>2
    <3>3. CASE WriteFails(n)
      <4> DEFINE held == Holding(entries[cache_key(call[n])].size + 1, {})
      <4>1. entries' = entries \/ entries' = [entries EXCEPT ![cache_key(call[n])] = held]
        BY <3>3 DEF WriteFails
      <4>2. held.json = {}
        BY DEF Holding
      <4>3. QED
        BY <4>1, <4>2
    <3>4. QED
      BY <1>5, <3>1, <3>2, <3>3
  <2>4. PICK held : /\ entries' = entries \/ entries' = [entries EXCEPT ![cache_key(call[n])] = held]
                    /\ \A e \in held.json : stage[n] = "fill" /\ e = answer[n].entry
    BY <2>3
  <2>5. /\ entries' = [k \in Keys |-> entries'[k]]
        /\ \A k \in Keys : entries'[k] = entries[k] \/ (k = cache_key(call[n]) /\ entries'[k] = held)
    BY <2>4 DEF NarrativeInv, NarrativeShape
  <2>6. \A k \in Keys : \A e \in entries'[k].json :
            e \in entries[k].json \/ (stage[n] = "fill" /\ e = answer[n].entry /\ k = cache_key(call[n]))
    BY <2>4, <2>5
  <2>7. /\ IsOf(answer'[n].entry, cache_key(call[n]))
        /\ answer'[n].grounded =
              check_citations(call[n].checker, answer'[n].entry.text, call[n].sheet)
        /\ answer'[n].entry.subject = call[n].subject /\ answer'[n].entry.text \in Texts
    BY <2>2 DEF NarrativeInv, Answered
  <2>8. answer' = [m \in Narrators |-> answer'[m]]
    BY <2>2 DEF NarrativeInv, NarrativeShape
  <2>9. QED
    BY <2>1, <2>2, <2>5, <2>6, <2>7, <2>8, MoveKeeps DEF NarratorStages
<1>6. QED
  BY <1>1, <1>2, <1>3, <1>4, <1>5 DEF Narrate

\* An asker goes on, and holds what its invariant allows it to hold.
LEMMA AskerStep ==
    ASSUME NarrativeInv, NEW a \in Askers, NEW q, Keeps(a, q), AskerInv(q)
    PROVE  NarrativeInv'
<1>1. UNCHANGED <<evidence, changes, entries, stage, call, answer>> /\ asked' = [asked EXCEPT ![a] = q]
  BY DEF Keeps, world
<1>2. asked' = [b \in Askers |-> asked'[b]] /\ \A b \in Askers : AskerInv(asked'[b])
  BY <1>1 DEF NarrativeInv, NarrativeShape, Dated
<1>3. \A b \in Askers : AskerInv(asked[b])'
  BY <1>1, <1>2 DEF AskerInv, Describes
<1>4. QED
  BY <1>1, <1>2, <1>3 DEF NarrativeInv, NarrativeShape, Filed, Answered, Dated, Describes

LEMMA ExplainKeeps == ASSUME NarrativeInv, NEW a \in Askers, Explain(a) PROVE NarrativeInv'
<1> DEFINE q == asked[a]
<1>1. AskerInv(q)
  BY DEF NarrativeInv, Dated
<1>2. CASE PrintSheet(a)
  <2>1. PICK s \in Subjects : Keeps(a, Asker("printed", s, evidence[s], {}, {}, FALSE))
    BY <1>2 DEF PrintSheet
  <2>2. AskerInv(Asker("printed", s, evidence[s], {}, {}, FALSE))
    BY DEF AskerInv, Asker, Describes
  <2>3. QED
    BY <2>1, <2>2, AskerStep
<1>3. CASE ListEntries(a)
  <2> DEFINE listed == {k \in Keys : entries[k] # Absent}
             new == Asker("scan", q.subject, q.sheet, listed, {}, FALSE)
  <2>1. q.step = "printed" /\ Keeps(a, new)
    BY <1>3 DEF ListEntries
  <2>2. q.step # "idle" /\ listed \subseteq Keys
    BY <2>1
  <2>3. /\ new.step = "scan" /\ new.subject = q.subject /\ new.sheet = q.sheet
        /\ new.unread = listed /\ new.newest = {} /\ new.stale = FALSE
    BY DEF Asker
  <2> HIDE DEF listed, new
  <2>4. AskerInv(new)
    BY <1>1, <2>2, <2>3 DEF AskerInv
  <2>5. QED
    BY <2>1, <2>4, AskerStep
<1>4. CASE ReadEntry(a)
  <2>1. PICK k \in q.unread :
            Keeps(a, Asker("scan", q.subject, q.sheet, q.unread \ {k},
                           Newest(q.newest, read(k), q.subject), FALSE))
    BY <1>4 DEF ReadEntry
  <2> DEFINE kept == Newest(q.newest, read(k), q.subject)
             new == Asker("scan", q.subject, q.sheet, q.unread \ {k}, kept, FALSE)
  <2>2. q.step = "scan" /\ k \in Keys
    BY <1>1, <1>4 DEF ReadEntry, AskerInv
  <2>3. \A e \in kept : e \in q.newest \/ (e \in read(k) /\ e.subject = q.subject)
    BY DEF Newest
  <2>4. \A e \in read(k) : Describes(e.subject, e.digest)
    BY <2>2 DEF NarrativeInv, Dated, read
  <2> HIDE DEF kept
  <2>5. \A e \in kept : e.subject = q.subject /\ Describes(e.subject, e.digest)
    BY <1>1, <2>3, <2>4 DEF AskerInv
  <2>6. /\ new.step = "scan" /\ new.subject = q.subject /\ new.sheet = q.sheet
        /\ new.unread = q.unread \ {k} /\ new.newest = kept /\ new.stale = FALSE
    BY DEF Asker
  <2>7. Keeps(a, new)
    BY <2>1 DEF kept
  <2> HIDE DEF new
  <2>8. AskerInv(new)
    BY <1>1, <2>2, <2>5, <2>6 DEF AskerInv
  <2>9. QED
    BY <2>7, <2>8, AskerStep
<1>5. CASE Note(a)
  <2> DEFINE stale == \E e \in q.newest : e.digest # q.sheet
             new == Asker("done", q.subject, q.sheet, {}, {}, stale)
  <2>1. q.step = "scan" /\ Keeps(a, new)
    BY <1>5 DEF Note
  <2>2. q.subject \in Subjects /\ changes[q.subject] \in Nat /\ Describes(q.subject, q.sheet)
    BY <1>1, <2>1 DEF AskerInv, Describes, NarrativeInv, NarrativeShape
  <2>3. stale => changes[q.subject] > 0
    <3> SUFFICES ASSUME NEW e \in q.newest, e.digest # q.sheet PROVE changes[q.subject] > 0
      OBVIOUS
    <3>1. Describes(q.subject, e.digest)
      BY <1>1 DEF AskerInv
    <3>2. QED
      BY <2>2, <3>1 DEF Describes
  <2>4. /\ new.step = "done" /\ new.subject = q.subject /\ new.sheet = q.sheet
        /\ new.unread = {} /\ new.newest = {} /\ new.stale = stale
    BY DEF Asker
  <2> HIDE DEF stale, new
  <2>5. AskerInv(new)
    BY <2>2, <2>3, <2>4 DEF AskerInv
  <2>6. QED
    BY <2>1, <2>5, AskerStep
<1>6. QED
  BY <1>2, <1>3, <1>4, <1>5 DEF Explain

LEMMA ChangeKeeps == ASSUME NarrativeInv, Change PROVE NarrativeInv'
<1>1. PICK s \in Subjects, sheet \in Sheets :
        /\ evidence' = [evidence EXCEPT ![s] = sheet]
        /\ changes' = [changes EXCEPT ![s] = @ + 1]
  BY DEF Change
<1>2. UNCHANGED <<entries, stage, call, answer, asked>>
  BY DEF Change
<1>3. /\ changes'[s] = changes[s] + 1 /\ changes[s] \in Nat
      /\ \A u \in Subjects : u # s => changes'[u] = changes[u] /\ evidence'[u] = evidence[u]
      /\ evidence' \in [Subjects -> Sheets] /\ changes' \in [Subjects -> Nat]
  BY <1>1 DEF NarrativeInv, NarrativeShape
<1>4. \A u, d : Describes(u, d) => Describes(u, d)'
  BY <1>3 DEF Describes
<1>5. \A u \in Subjects : changes[u] > 0 => changes'[u] > 0
  BY <1>3
<1>6. Dated'
  BY <1>2, <1>4, <1>5 DEF NarrativeInv, Dated, AskerInv
<1>7. QED
  BY <1>2, <1>3, <1>6 DEF NarrativeInv, NarrativeShape, Filed, Answered

LEMMA NarrativesStep == NarrativeInv /\ [NarrativesNext]_narratives => NarrativeInv'
<1>1. SUFFICES ASSUME NarrativeInv, [NarrativesNext]_narratives PROVE NarrativeInv'
  OBVIOUS
<1>2. CASE UNCHANGED narratives
  BY <1>1, <1>2 DEF narratives, NarrativeInv, NarrativeShape, Filed, Answered, Dated, AskerInv, Describes
<1>3. CASE Tick
  BY <1>1, <1>3 DEF Tick, NarrativeInv, NarrativeShape, Filed, Answered, Dated, AskerInv, Describes
<1>4. QED
  BY <1>1, <1>2, <1>3, NarrateKeeps, ExplainKeeps, ChangeKeeps DEF NarrativesNext

LEMMA NarrativesInvariant == NarrativesSpec => []NarrativeInv
  BY InitNarratives, NarrativesStep, PTL DEF NarrativesSpec

\* A narrative that is shown is of its call, and stamped by this binary.
THEOREM Served == SidecarsSpec => []ServedIsOfTheCall
<1>1. NarrativeInv => ServedIsOfTheCall
  BY DEF NarrativeInv, Answered, ServedIsOfTheCall, IsOf, cache_key
<1>2. QED
  BY <1>1, NarrativesInvariant, Components, PTL

\* A file is never called stale while its evidence has not changed, whatever
\* narrators write and files change between the sheet and the reads.
THEOREM NoteReal == SidecarsSpec => []NoteNamesARealChange
<1>1. NarrativeInv => NoteNamesARealChange
  BY DEF NarrativeInv, Dated, AskerInv, NoteNamesARealChange
<1>2. QED
  BY <1>1, NarrativesInvariant, Components, PTL

\* The files keep sizes that are numbers, and parse to what their key says.
LEMMA NarrativesTypeStep ==
    NarrativeInv /\ NarrativesTypeOK /\ [NarrativesNext]_narratives => NarrativesTypeOK'
<1> DEFINE Typed == /\ evidence \in [Subjects -> Sheets]
                    /\ changes \in [Subjects -> 0 .. MaxChanges]
                    /\ now \in 0 .. MaxTime
                    /\ call \in [Narrators -> Calls \cup {NoCall}]
                    /\ \A k \in Keys : entries[k].size \in Nat
<1>1. SUFFICES ASSUME NarrativeInv, NarrativesTypeOK, [NarrativesNext]_narratives, NarrativeInv'
               PROVE  Typed'
  <2>1. NarrativeInv' => stage' \in [Narrators -> {"idle", "lookup", "write", "fill", "done", "failed"}]
    BY DEF NarrativeInv, NarrativeShape, NarratorStages
  <2>2. NarrativeInv' => \A k \in Keys : \A e \in entries'[k].json :
                            [sheet |-> e.digest, prompt |-> e.prompt, model |-> e.model] = k
    BY DEF NarrativeInv, Filed, IsOf, Keys
  <2>3. NarrativeInv' => \A a \in Askers : /\ asked'[a].step \in {"idle", "printed", "scan", "done"}
                                            /\ asked'[a].unread \subseteq Keys
    BY DEF NarrativeInv, Dated, AskerInv
  <2>4. QED
    BY <1>1, <2>1, <2>2, <2>3, NarrativesStep DEF NarrativesTypeOK
<1>2. \A n \in Narrators : stage[n] \in {"write", "fill"} => Size[answer[n].entry.text] \in Nat
  BY <1>1, NarrativeAssumption DEF NarrativeInv, Answered
<1>3. CASE UNCHANGED narratives
  BY <1>1, <1>3 DEF narratives, NarrativesTypeOK
<1>4. ASSUME NEW n \in Narrators, Narrate(n) PROVE Typed'
  <2>1. UNCHANGED <<evidence, changes, now>>
    BY <1>4 DEF Narrate, Call, Hit, Complete, CompleteFails, Truncate, Fill, WriteFails, Kill, world
  <2>2. call' \in [Narrators -> Calls \cup {NoCall}]
    <3>1. CASE Call(n)
      <4>1. PICK s \in Subjects, e \in Environments[n] :
                call' = [call EXCEPT ![n] =
                    [subject |-> s, sheet |-> evidence[s], model |-> e.model, prompt |-> e.prompt,
                     checker |-> e.checker, refresh |-> e.refresh]]
        BY <3>1 DEF Call
      <4>2. [subject |-> s, sheet |-> evidence[s], model |-> e.model, prompt |-> e.prompt,
             checker |-> e.checker, refresh |-> e.refresh] \in Calls
        BY <1>1, NarrativeBounds DEF NarrativesTypeOK, Calls
      <4>3. QED
        BY <1>1, <4>1, <4>2 DEF NarrativesTypeOK
    <3>2. CASE ~Call(n)
      <4>1. UNCHANGED call
        BY <1>4, <3>2 DEF Narrate, Hit, Complete, CompleteFails, Truncate, Fill, WriteFails, Kill
      <4>2. QED
        BY <1>1, <4>1 DEF NarrativesTypeOK
    <3>3. QED
      BY <3>1, <3>2
  <2>3. \A k \in Keys : entries'[k].size \in Nat
    <3>1. entries = [k \in Keys |-> entries[k]] /\ \A k \in Keys : entries[k].size \in Nat
      BY <1>1 DEF NarrativeInv, NarrativeShape, NarrativesTypeOK
    <3>2. CASE Truncate(n)
      BY <3>1, <3>2 DEF Truncate, Empty, Holding
    <3>3. CASE Fill(n)
      <4> DEFINE key == cache_key(call[n])
                 written == Overwritten(entries[key], answer[n].entry)
      <4>1. entries' = [entries EXCEPT ![key] = written] /\ stage[n] = "fill"
        BY <3>3 DEF Fill
      <4>2. key \in Keys => written.size \in Nat
        BY <1>2, <3>1, <4>1 DEF Overwritten, Holding
      <4> HIDE DEF key, written
      <4>3. QED
        BY <3>1, <4>1, <4>2
    <3>4. CASE WriteFails(n)
      BY <3>1, <3>4 DEF WriteFails, Holding
    <3>5. CASE UNCHANGED entries
      BY <3>1, <3>5
    <3>6. QED
      BY <1>4, <3>2, <3>3, <3>4, <3>5 DEF Narrate, Call, Hit, Complete, CompleteFails, Kill
  <2>4. QED
    BY <1>1, <2>1, <2>2, <2>3 DEF NarrativesTypeOK
<1>5. ASSUME NEW a \in Askers, Explain(a) PROVE Typed'
  BY <1>1, <1>5 DEF Explain, PrintSheet, ListEntries, ReadEntry, Note, Keeps, world, NarrativesTypeOK
<1>6. CASE Change
  <2>1. PICK s \in Subjects, sheet \in Sheets :
          /\ changes[s] < MaxChanges
          /\ evidence' = [evidence EXCEPT ![s] = sheet]
          /\ changes' = [changes EXCEPT ![s] = @ + 1]
    BY <1>6 DEF Change
  <2>2. UNCHANGED <<now, call, entries>>
    BY <1>6 DEF Change
  <2>3. changes[s] + 1 \in 0 .. MaxChanges
    BY <1>1, <2>1, NarrativeBounds DEF NarrativesTypeOK
  <2>4. QED
    BY <1>1, <2>1, <2>2, <2>3 DEF NarrativesTypeOK
<1>7. CASE Tick
  <2>1. now' = now + 1 /\ now < MaxTime /\ UNCHANGED <<evidence, changes, call, entries>>
    BY <1>7 DEF Tick
  <2>2. now' \in 0 .. MaxTime
    BY <1>1, <2>1, NarrativeBounds DEF NarrativesTypeOK
  <2>3. QED
    BY <1>1, <2>1, <2>2 DEF NarrativesTypeOK
<1>8. QED
  BY <1>1, <1>3, <1>4, <1>5, <1>6, <1>7 DEF NarrativesNext

LEMMA InitNarrativesType == NarrativesInit => NarrativesTypeOK
  BY NarrativeBounds DEF NarrativesInit, NarrativesTypeOK, Absent, NotAsked, Asker

\* The types of both stores, the findings' primary key, and that a narrative
\* that parses lies under the key of what it was made from.
THEOREM TypesCorrect == SidecarsSpec => []TypesOK
<1>1. TypeInv => TypeOK
  BY DEF TypeInv
<1>2. TypeOK /\ NarrativesTypeOK => TypesOK
  BY DEF TypesOK
<1>3. QED
  BY <1>1, <1>2, TypeInvariant, NarrativesInvariant, InitNarrativesType, NarrativesTypeStep, Components, PTL
     DEF NarrativesSpec
=================================================================================
