----------------------------- MODULE NarrativeCache -----------------------------
(***************************************************************************)
(* Advisory narratives (enrichment/engine.rs, cache.rs): `explain --llm`   *)
(* and the MCP server's explain_file answer from a file per key or ask the *)
(* model and write that file, in place; `explain` without --llm notes when *)
(* the newest narrative of its file describes other evidence.              *)
(***************************************************************************)
EXTENDS NarrativeKeys

CONSTANTS Narrators, Askers,
          Environments,  \* of a narrator, what it may run with: a call without
                         \* subject and sheet
          MaxTime,       \* the seconds that may pass
          MaxChanges     \* changes of the evidence of one file

ASSUME NarrativeBounds ==
    /\ MaxTime \in Nat /\ MaxChanges \in Nat
    /\ Environments \in [Narrators -> SUBSET [model : Models, prompt : Prompts,
                                             checker : Checkers, refresh : BOOLEAN]]

VARIABLES evidence,   \* the sheet of each file at HEAD
          changes,    \* how often it changed
          entries,    \* the files: [key -> what it holds]
          now,        \* the clock, in seconds
          stage, call, answer,    \* of a narrator
          asked                \* of an asker: its file and the sheet it printed,
                               \* the files listed and not read, the newest
                               \* entry so far, and whether it printed the note

narratives == <<evidence, changes, entries, now, stage, call, answer, asked>>

\* a file: its size, and the entry it parses to, none when it is torn
Holding(size, json) == [exists |-> TRUE, size |-> size, json |-> json]
Absent == [exists |-> FALSE, size |-> 0, json |-> {}]
Empty == Holding(0, {})

\* of a narrator that has not been called
NoCall == CHOOSE c \in Calls : TRUE
NoAnswer == [entry |-> Entry(NoCall, CHOOSE t \in Texts : TRUE, 0),
             grounded |-> FALSE, from_cache |-> FALSE]

\* an asker, at a step and with the files it has listed and not read
Asker(step, subject, sheet, unread, newest, stale) ==
    [step |-> step, subject |-> subject, sheet |-> sheet, unread |-> unread,
     newest |-> newest, stale |-> stale]
NotAsked == Asker("idle", NoCall.subject, NoCall.sheet, {}, {}, FALSE)

NarrativesInit ==
    /\ evidence \in [Subjects -> Sheets]
    /\ changes = [s \in Subjects |-> 0]
    /\ entries = [k \in Keys |-> Absent]
    /\ now = 0
    /\ stage = [n \in Narrators |-> "idle"]
    /\ call = [n \in Narrators |-> NoCall]
    /\ answer = [n \in Narrators |-> NoAnswer]
    /\ asked = [a \in Askers |-> NotAsked]

Enter(n, next) == stage' = [stage EXCEPT ![n] = next]

world == <<evidence, changes, now>>

-----------------------------------------------------------------------------
(* narrate *)

Call(n) ==
    /\ stage[n] = "idle"
    /\ \E s \in Subjects, e \in Environments[n] :
          call' = [call EXCEPT ![n] =
              [subject |-> s, sheet |-> evidence[s], model |-> e.model, prompt |-> e.prompt,
               checker |-> e.checker, refresh |-> e.refresh]]
    /\ Enter(n, "lookup")
    /\ UNCHANGED <<world, entries, answer, asked>>

read(key) == entries[key].json

\* Mutant: the verdict is the one stored with the narrative
HitAsStored(n) ==
    /\ stage[n] = "lookup" /\ ~call[n].refresh
    /\ \E hit \in read(cache_key(call[n])) :
          answer' = [answer EXCEPT ![n] =
              [entry |-> hit, grounded |-> hit.grounded, from_cache |-> TRUE]]
    /\ Enter(n, "done")
    /\ UNCHANGED <<world, entries, call, asked>>

\* the verdict is computed again; the file is not written again
Hit(n) ==
    /\ stage[n] = "lookup" /\ ~call[n].refresh
    /\ \E hit \in read(cache_key(call[n])) :
          answer' = [answer EXCEPT ![n] =
                [entry |-> hit, from_cache |-> TRUE,
                 grounded |-> check_citations(call[n].checker, hit.text, call[n].sheet)]]
    /\ Enter(n, "done")
    /\ UNCHANGED <<world, entries, call, asked>>

\* absent, torn, or not looked for: the model answers
Complete(n) ==
    /\ stage[n] = "lookup"
    /\ call[n].refresh \/ read(cache_key(call[n])) = {}
    /\ \E text \in Texts :
          LET entry == Entry(call[n], text, now) IN
          answer' = [answer EXCEPT ![n] =
              [entry |-> entry, grounded |-> entry.grounded, from_cache |-> FALSE]]
    /\ Enter(n, "write")
    /\ UNCHANGED <<world, entries, call, asked>>

\* or fails, which `explain` reports and the server answers beside the evidence
CompleteFails(n) ==
    /\ stage[n] = "lookup"
    /\ call[n].refresh \/ read(cache_key(call[n])) = {}
    /\ Enter(n, "failed")
    /\ UNCHANGED <<world, entries, call, answer, asked>>

\* fs::write: truncate, then the bytes from the start
Truncate(n) ==
    /\ stage[n] = "write"
    /\ entries' = [entries EXCEPT ![cache_key(call[n])] = Empty]
    /\ Enter(n, "fill")
    /\ UNCHANGED <<world, call, answer, asked>>

\* over what another has written since: the tail of a longer entry stays
Overwritten(file, entry) ==
    IF file.size <= Size[entry.text] THEN Holding(Size[entry.text], {entry})
    ELSE Holding(file.size, {})

Fill(n) ==
    /\ stage[n] = "fill"
    /\ entries' = [entries EXCEPT ![cache_key(call[n])] = Overwritten(@, answer[n].entry)]
    /\ Enter(n, "done")
    /\ UNCHANGED <<world, call, answer, asked>>

\* a failing write is a warning; what it has written stays
WriteFails(n) ==
    /\ stage[n] \in {"write", "fill"}
    /\ entries' = IF stage[n] = "write" THEN entries
                  ELSE [entries EXCEPT ![cache_key(call[n])] = Holding(@.size + 1, {})]
    /\ Enter(n, "done")
    /\ UNCHANGED <<world, call, answer, asked>>

Kill(n) ==
    /\ stage[n] \in {"lookup", "write", "fill"}
    /\ Enter(n, "failed")
    /\ UNCHANGED <<world, entries, call, answer, asked>>

Narrate(n) ==
    \/ Call(n) \/ Hit(n) \/ Complete(n) \/ CompleteFails(n) \/ Truncate(n) \/ Fill(n)
    \/ WriteFails(n) \/ Kill(n)

-----------------------------------------------------------------------------
(* `explain` without --llm: the sheet is built and printed, then           *)
(* latest_for_subject lists the files and reads one after the other, while *)
(* narrators write them and the evidence changes.                          *)

Keeps(a, asker) ==
    /\ asked' = [asked EXCEPT ![a] = asker]
    /\ UNCHANGED <<world, entries, stage, call, answer>>

PrintSheet(a) ==
    /\ asked[a].step = "idle"
    /\ \E s \in Subjects : Keeps(a, Asker("printed", s, evidence[s], {}, {}, FALSE))

\* the files there are at that moment
ListEntries(a) ==
    LET q == asked[a] IN
    /\ q.step = "printed"
    /\ Keeps(a, Asker("scan", q.subject, q.sheet, {k \in Keys : entries[k] # Absent}, {}, FALSE))

\* Mutant: the newest narrative of any file
NewestOfAny(newest, file, subject) ==
    {e \in newest : \A parsed \in file : parsed.at <= e.at}
    \cup {parsed \in file : \A e \in newest : parsed.at > e.at}

\* the entry kept, of those so far and a file's; within a second the first read
Newest(newest, file, subject) ==
    LET of == {parsed \in file : parsed.subject = subject} IN
    {e \in newest : \A parsed \in of : parsed.at <= e.at}
    \cup {parsed \in of : \A e \in newest : parsed.at > e.at}

\* the directory's order is any
ReadEntry(a) ==
    LET q == asked[a] IN
    /\ q.step = "scan"
    /\ \E k \in q.unread :
          Keeps(a, Asker("scan", q.subject, q.sheet, q.unread \ {k},
                         Newest(q.newest, read(k), q.subject), FALSE))

Note(a) ==
    LET q == asked[a] IN
    /\ q.step = "scan" /\ q.unread = {}
    /\ Keeps(a, Asker("done", q.subject, q.sheet, {}, {}, \E e \in q.newest : e.digest # q.sheet))

Explain(a) == PrintSheet(a) \/ ListEntries(a) \/ ReadEntry(a) \/ Note(a)

-----------------------------------------------------------------------------
\* a commit, or another calibration: the evidence of a file is another
Change ==
    /\ \E s \in Subjects, sheet \in Sheets :
          /\ sheet # evidence[s] /\ changes[s] < MaxChanges
          /\ evidence' = [evidence EXCEPT ![s] = sheet]
          /\ changes' = [changes EXCEPT ![s] = @ + 1]
    /\ UNCHANGED <<entries, now, stage, call, answer, asked>>

Tick ==
    /\ now < MaxTime /\ now' = now + 1
    /\ UNCHANGED <<evidence, changes, entries, stage, call, answer, asked>>

NarrativesNext ==
    \/ \E n \in Narrators : Narrate(n)
    \/ \E a \in Askers : Explain(a)
    \/ Change \/ Tick

NarrativesSpec == NarrativesInit /\ [][NarrativesNext]_narratives

-----------------------------------------------------------------------------
(* Properties.                                                             *)

\* Types; an entry that parses lies under the key of what it was made from.
NarrativesTypeOK ==
    /\ evidence \in [Subjects -> Sheets]
    /\ changes \in [Subjects -> 0 .. MaxChanges]
    /\ now \in 0 .. MaxTime
    /\ stage \in [Narrators -> {"idle", "lookup", "write", "fill", "done", "failed"}]
    /\ call \in [Narrators -> Calls \cup {NoCall}]
    /\ \A a \in Askers : /\ asked[a].step \in {"idle", "printed", "scan", "done"}
                         /\ asked[a].unread \subseteq Keys
    /\ \A k \in Keys : /\ entries[k].size \in Nat
                       /\ \A e \in entries[k].json :
                             [sheet |-> e.digest, prompt |-> e.prompt, model |-> e.model] = k

\* A narrative that is shown was written for the evidence, the model and the
\* prompt of the call, and its stamp is this binary's own check of it, however
\* old, torn or contended the file was (engine.rs, narrate).
ServedIsOfTheCall ==
    \A n \in Narrators : stage[n] = "done" =>
        LET c == call[n]  e == answer[n].entry IN
        /\ e.digest = c.sheet /\ e.model = c.model /\ e.prompt = c.prompt
        /\ answer[n].grounded = check_citations(c.checker, e.text, c.sheet)

\* The staleness note is about the file's own evidence: it never appears for a
\* file whose evidence has not changed, though its siblings' have
\* and though narrators write between the sheet, the listing and the reads
\* (latest_for_subject: never reports a sibling as stale).
NoteNamesARealChange ==
    \A a \in Askers : asked[a].stale => changes[asked[a].subject] > 0
=================================================================================
