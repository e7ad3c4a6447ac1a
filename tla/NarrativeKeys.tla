----------------------------- MODULE NarrativeKeys -----------------------------
(***************************************************************************)
(* What a cached narrative is keyed by, and the check of its citations     *)
(* (enrichment/cache.rs, citation.rs).  A sheet stands for its canonical   *)
(* text, which does not name the file it is about.                         *)
(***************************************************************************)
EXTENDS Integers, FiniteSets

CONSTANTS Subjects, Sheets, Models,
          Prompts,      \* versions of schema and prompt
          Checkers,     \* versions of the citation check
          Texts,        \* what a model may answer
          Size,         \* of the entry written for a text
          Grounds       \* <<checker, text, sheet>>: every number is on the sheet

ASSUME NarrativeAssumption ==
    /\ Size \in [Texts -> Nat \ {0}]
    /\ Grounds \subseteq Checkers \X Texts \X Sheets

\* a call: the file, its evidence, and what the environment and the binary bring
Calls == [subject : Subjects, sheet : Sheets, model : Models, prompt : Prompts,
          checker : Checkers, refresh : BOOLEAN]

cache_key(call) == [sheet |-> call.sheet, prompt |-> call.prompt, model |-> call.model]

Keys == [sheet : Sheets, prompt : Prompts, model : Models]

check_citations(checker, text, sheet) == <<checker, text, sheet>> \in Grounds

\* what is written: the narrative, what it was made from, its verdict then, its time
Entry(call, text, now) ==
    [text |-> text, subject |-> call.subject, model |-> call.model, prompt |-> call.prompt,
     digest |-> call.sheet, grounded |-> check_citations(call.checker, text, call.sheet),
     at |-> now]
================================================================================
