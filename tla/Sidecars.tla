-------------------------------- MODULE Sidecars --------------------------------
(***************************************************************************)
(* The two stores beside the fact store in a repository's cache directory: *)
(* the findings of external scanners and the advisory narratives.  The     *)
(* processes that run in an execution are those of its scene.              *)
(***************************************************************************)
EXTENDS FindingsStore, NarrativeCache

CONSTANT Scenes

VARIABLE scene

findings == vars

SidecarsInit == scene \in Scenes /\ Init /\ NarrativesInit

IngestStep == \E w \in scene \cap Ingests : Ingest(w) \/ IngestAgain(w)
ReadStep == \E r \in scene \cap Readers : Read(r) \/ ReadAgain(r)
NarrateStep == \E n \in scene \cap Narrators : Narrate(n)
ExplainStep == \E a \in scene \cap Askers : Explain(a)
WorldStep == scene \cap Narrators # {} /\ (Change \/ Tick)

SidecarsNext ==
    /\ scene' = scene
    /\ \/ (IngestStep \/ ReadStep) /\ UNCHANGED narratives
       \/ (NarrateStep \/ ExplainStep \/ WorldStep) /\ UNCHANGED findings

SidecarsSpec == SidecarsInit /\ [][SidecarsNext]_<<scene, findings, narratives>>

-----------------------------------------------------------------------------
\* Types of both stores, the primary key of the findings' table, and that an
\* entry that parses lies under the key of what it was made from.
TypesOK == TypeOK /\ NarrativesTypeOK
=================================================================================
