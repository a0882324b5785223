---------------------------- MODULE BenchmarkRun ----------------------------
(***************************************************************************)
(* Runs of the two offline benchmarks that ask language models for poker   *)
(* decisions and keep every completion in an append-only file of lines, so *)
(* that an interrupted run can be resumed: gto_oracle_benchmark.py         *)
(* (run_model, ModelResponseCache) and pokerbench_benchmark.py (run_cases, *)
(* JsonlCache).  A run is one process; runs follow one another.            *)
(*                                                                         *)
(* The decisions of a run are numbered in their order.  A completion is    *)
(* known by its version, the resolved response_model, and by its answer:   *)
(* an action of the menu, one the solved tree left out, an illegal one, or *)
(* a text that is no action.                                               *)
(***************************************************************************)
EXTENDS Naturals, Sequences, SequencesExt, FiniteSets

CONSTANTS
  Tools,           \* a subset of {"oracle", "pokerbench"}
  Models,          \* the requested models, in order
  Decisions,       \* the number of decisions of each model
  Completions,     \* what the provider may answer: [version, answer]
  MaxConsecutive,  \* max_consecutive_provider_errors
  MaxRuns,         \* bound: runs of the tool
  MaxFaults        \* bound: failed writes, crashes and power cuts

Blank == ""        \* a response_model that is missing
NoCompletion == [version |-> "none", answer |-> "none"]
Garbage == [key |-> <<0, "none">>, completion |-> NoCompletion]

VARIABLES
  tool,
  file,            \* the lines of the cache file
  unterminated,    \* the last line has no end yet
  synced,          \* lines that survive a power cut
  pc, calls,       \* whether provider calls are allowed
  entries,         \* the cache in memory
  model,           \* index of the model being run
  snapshot, pin,   \* the completions cached when its run began, the pinned version
  at, errors,      \* the decision it is at, consecutive provider errors
  rows,            \* the rows of the report under construction
  asked,           \* the completion just received
  kept,            \* history: keys whose put() returned
  reports,         \* history: the reports written
  runs, faults

disk == <<file, unterminated, synced>>
progress == <<model, snapshot, pin, at, errors, asked>>
process == <<pc, calls, entries, progress, rows>>
vars == <<tool, disk, process, kept, reports, runs, faults>>

Key(i) == <<i, Models[model]>>
Merge(f, k, v) == [x \in DOMAIN f \cup {k} |-> IF x = k THEN v ELSE f[x]]
NoEntries == [k \in {} |-> NoCompletion]

-----------------------------------------------------------------------------
(* The cache file.                                                         *)

\* Lines that do not parse are counted and skipped; the last of a key wins.
Load(lines) ==
  LET good == {i \in DOMAIN lines : lines[i] # Garbage}
      last(k) == CHOOSE i \in good : lines[i].key = k /\ \A j \in good : lines[j].key = k => j <= i
  IN  [k \in {lines[i].key : i \in good} |-> lines[last(k)].completion]

AppendedOver(line) == <<line>>

\* A new line continues one that was left unterminated, and both are lost.
Appended(line) ==
  IF unterminated THEN Append(Front(file), Garbage) ELSE Append(file, line)

-----------------------------------------------------------------------------
(* One run.                                                                *)

Stop ==
  /\ pc' = "stopped"
  /\ entries' = NoEntries /\ snapshot' = NoEntries /\ pin' = Blank /\ rows' = <<>>
  /\ model' = 1 /\ at' = 1 /\ errors' = 0 /\ asked' = NoCompletion /\ calls' = FALSE

Launch ==
  /\ pc = "stopped" /\ runs < MaxRuns
  /\ runs' = runs + 1
  /\ calls' \in BOOLEAN
  /\ entries' = Load(file)
  /\ pc' = "model"
  /\ UNCHANGED <<tool, disk, progress, rows, kept, reports, faults>>

Cached == [i \in {j \in 1..Decisions : Key(j) \in DOMAIN entries} |-> entries[Key(i)]]
CachedVersions == {Cached[i].version : i \in DOMAIN Cached}

Goto(i) ==
  /\ at' = i
  /\ pc' = IF i <= Decisions THEN "row" ELSE "next"

StartModelUnpinned ==
  /\ pc = "model" /\ tool = "oracle"
  /\ snapshot' = Cached /\ pin' = Blank /\ errors' = 0
  /\ Goto(1)
  /\ UNCHANGED <<calls, entries, model, rows, asked, tool, disk, kept, reports, runs, faults>>

\* The oracle benchmark pins the version of the completions it resumes from.
StartModel ==
  /\ pc = "model" /\ tool = "oracle"
  /\ IF Blank \in CachedVersions \/ Cardinality(CachedVersions) > 1
     THEN Stop
     ELSE /\ snapshot' = Cached
          /\ pin' = IF CachedVersions = {} THEN Blank ELSE CHOOSE v \in CachedVersions : TRUE
          /\ errors' = 0
          /\ Goto(1)
          /\ UNCHANGED <<calls, entries, model, rows, asked>>
  /\ UNCHANGED <<tool, disk, kept, reports, runs, faults>>

StartCases ==
  /\ pc = "model" /\ tool = "pokerbench"
  /\ snapshot' = Cached
  /\ errors' = 0
  /\ Goto(1)
  /\ UNCHANGED <<tool, disk, calls, entries, model, pin, rows, asked, kept, reports, runs, faults>>

Row(i, status, completion) ==
  [model |-> Models[model], decision |-> i, status |-> status, completion |-> completion]

\* score_completion(): an action is looked up in the menu, then in the rules.
ScoredDecision(i, completion) ==
  Row(i, CASE completion.answer = "in menu" -> "SCORED"
           [] completion.answer = "off tree" -> "OUT_OF_TREE"
           [] completion.answer = "illegal" -> "ILLEGAL"
           [] OTHER -> "PARSE_ERROR", completion)

\* The other benchmark compares any action with the labelled one.
ScoredCase(i, completion) ==
  Row(i, IF completion.answer = "none" THEN "PARSE_ERROR" ELSE "OK", completion)

Scored(i, completion) ==
  IF tool = "oracle" THEN ScoredDecision(i, completion) ELSE ScoredCase(i, completion)

IsCached == at \in DOMAIN snapshot

ScoreCached ==
  /\ pc = "row" /\ IsCached
  /\ rows' = Append(rows, Scored(at, snapshot[at]))
  /\ Goto(at + 1)
  /\ UNCHANGED <<tool, disk, calls, entries, model, snapshot, pin, errors, asked, kept, reports, runs, faults>>

CacheMiss ==
  /\ pc = "row" /\ ~IsCached /\ ~calls
  /\ rows' = Append(rows, Row(at, "CACHE_MISS", NoCompletion))
  /\ Goto(at + 1)
  /\ UNCHANGED <<tool, disk, calls, entries, model, snapshot, pin, errors, asked, kept, reports, runs, faults>>

AbortedAgain(from) ==
  [k \in 1..(Decisions + 2 - from) |-> Row(from + k - 2, "ABORTED_PROVIDER_ERRORS", NoCompletion)]

\* The circuit breaker gives the decisions that are left a row each.
Aborted(from) ==
  [k \in 1..(Decisions + 1 - from) |-> Row(from + k - 1, "ABORTED_PROVIDER_ERRORS", NoCompletion)]

ProviderError ==
  /\ errors' = errors + 1
  /\ asked' = NoCompletion
  /\ IF errors' >= MaxConsecutive
     THEN /\ rows' = rows \o <<Row(at, "PROVIDER_ERROR", NoCompletion)>> \o Aborted(at + 1)
          /\ Goto(Decisions + 1)
     ELSE /\ rows' = Append(rows, Row(at, "PROVIDER_ERROR", NoCompletion))
          /\ Goto(at + 1)
  /\ UNCHANGED <<calls, entries, model, snapshot, pin>>

AskFails ==
  /\ pc = "row" /\ ~IsCached /\ calls
  /\ ProviderError
  /\ UNCHANGED <<tool, disk, kept, reports, runs, faults>>

Answers(completion) ==
  /\ asked' = completion
  /\ pc' = "put"
  /\ UNCHANGED <<tool, disk, calls, entries, model, snapshot, at, errors, rows, kept, reports, runs, faults>>

\* A completion of no or another version than the pinned one ends the run
\* of the oracle benchmark.
Ask(completion) ==
  /\ pc = "row" /\ ~IsCached /\ calls /\ tool = "oracle"
  /\ IF completion.version # Blank /\ pin \in {Blank, completion.version}
     THEN Answers(completion) /\ pin' = completion.version
     ELSE Stop /\ UNCHANGED <<tool, disk, kept, reports, runs, faults>>

AskCase(completion) ==
  /\ pc = "row" /\ ~IsCached /\ calls /\ tool = "pokerbench"
  /\ Answers(completion)
  /\ UNCHANGED pin

Line == [key |-> Key(at), completion |-> asked]

\* put() of the oracle benchmark: the line is written, then synced.
Write ==
  /\ pc = "put" /\ tool = "oracle"
  /\ file' = Appended(Line) /\ unterminated' = FALSE
  /\ pc' = "sync"
  /\ UNCHANGED <<tool, synced, calls, entries, progress, rows, kept, reports, runs, faults>>

PutReturns ==
  /\ entries' = Merge(entries, Key(at), asked)
  /\ kept' = kept \cup {Key(at)}
  /\ errors' = 0
  /\ rows' = Append(rows, Scored(at, asked))
  /\ asked' = NoCompletion
  /\ Goto(at + 1)
  /\ UNCHANGED <<tool, calls, model, snapshot, pin, reports, runs, faults>>

Sync ==
  /\ pc = "sync"
  /\ synced' = Len(file)
  /\ PutReturns
  /\ UNCHANGED <<file, unterminated>>

\* put() of the other one leaves the line to the operating system.
PutCase ==
  /\ pc = "put" /\ tool = "pokerbench"
  /\ file' = Appended(Line) /\ unterminated' = FALSE
  /\ PutReturns
  /\ UNCHANGED synced

\* The disk is full: nothing of the line or a part of it is written, or it is
\* written but not synced.
WriteFails ==
  /\ pc = "put" /\ faults < MaxFaults
  /\ faults' = faults + 1
  /\ \/ UNCHANGED <<file, unterminated>>
     \/ tool = "oracle" /\ file' = Appended(Line) /\ unterminated' = FALSE
     \/ file' = Appended(Garbage) /\ unterminated' = TRUE
  /\ ProviderError
  /\ UNCHANGED <<tool, synced, kept, reports, runs>>

\* run_complete of the report: an answer counts whatever it is worth.
IsComplete(rs) ==
  \A i \in DOMAIN rs : rs[i].status \notin {"CACHE_MISS", "PROVIDER_ERROR", "ABORTED_PROVIDER_ERRORS"}

\* The exit status of the other benchmark insists on actions.
CasesAreComplete(rs) == \A i \in DOMAIN rs : rs[i].status = "OK"

NextModel ==
  /\ pc = "next" /\ tool = "oracle" /\ model < Len(Models)
  /\ model' = model + 1
  /\ pc' = "model"
  /\ UNCHANGED <<tool, disk, calls, entries, snapshot, pin, at, errors, rows, asked, kept, reports, runs, faults>>

\* The rows of all models make one report.
Report ==
  /\ pc = "next" /\ tool = "oracle" /\ model = Len(Models)
  /\ reports' = Append(reports, [models |-> Models, rows |-> rows, complete |-> IsComplete(rows),
                                 faults |-> faults])
  /\ Stop
  /\ UNCHANGED <<tool, disk, kept, runs, faults>>

\* The other benchmark reports on each model as soon as it is through.
Summarize ==
  /\ pc = "next" /\ tool = "pokerbench"
  /\ reports' = Append(reports, [models |-> <<Models[model]>>, rows |-> rows,
                                 complete |-> CasesAreComplete(rows), faults |-> faults])
  /\ IF model < Len(Models)
     THEN /\ model' = model + 1 /\ rows' = <<>>
          /\ pc' = "model"
          /\ UNCHANGED <<calls, entries, snapshot, pin, at, errors, asked>>
     ELSE Stop
  /\ UNCHANGED <<tool, disk, kept, runs, faults>>

-----------------------------------------------------------------------------
(* Interruptions.                                                          *)

Interrupt ==
  /\ pc # "stopped" /\ faults < MaxFaults
  /\ faults' = faults + 1
  /\ Stop
  /\ UNCHANGED <<tool, disk, kept, reports, runs>>

\* Lines that are not on disk are lost; the first of them may be there in part.
PowerCut ==
  /\ faults < MaxFaults
  /\ synced < Len(file)
  /\ faults' = faults + 1
  /\ \/ file' = SubSeq(file, 1, synced) /\ UNCHANGED unterminated
     \/ file' = Append(SubSeq(file, 1, synced), Garbage) /\ unterminated' = TRUE
  /\ synced' = Len(file')
  /\ Stop
  /\ UNCHANGED <<tool, kept, reports, runs>>

Init ==
  /\ tool \in Tools
  /\ file = <<>> /\ unterminated = FALSE /\ synced = 0
  /\ pc = "stopped" /\ calls = FALSE /\ entries = NoEntries
  /\ model = 1 /\ snapshot = NoEntries /\ pin = Blank /\ at = 1 /\ errors = 0
  /\ asked = NoCompletion /\ rows = <<>>
  /\ kept = {} /\ reports = <<>> /\ runs = 0 /\ faults = 0

Next ==
  \/ Launch \/ StartModel \/ StartCases \/ ScoreCached \/ CacheMiss \/ AskFails
  \/ \E completion \in Completions : Ask(completion) \/ AskCase(completion)
  \/ Write \/ Sync \/ PutCase \/ WriteFails
  \/ NextModel \/ Report \/ Summarize
  \/ Interrupt \/ PowerCut

Spec == Init /\ [][Next]_vars

-----------------------------------------------------------------------------
(* However a run was interrupted and resumed, every report has one row for *)
(* each model and decision, in order: nothing is scored twice or dropped,  *)
(* whichever way the circuit breaker ends a model.                         *)
EveryDecisionHasOneRow ==
  \A r \in ToSet(reports) :
    [i \in DOMAIN r.rows |-> <<r.rows[i].model, r.rows[i].decision>>] =
    FlattenSeq([m \in DOMAIN r.models |-> [d \in 1..Decisions |-> <<r.models[m], d>>]])

(* A report of the oracle benchmark never compares answers of two versions *)
(* of a model under one name, those it resumed from included.              *)
OneVersionPerModel ==
  tool = "oracle" =>
    \A r \in ToSet(reports) : \A i, j \in DOMAIN r.rows :
      r.rows[i].completion # NoCompletion /\ r.rows[j].completion # NoCompletion /\ r.rows[i].model = r.rows[j].model
        => r.rows[i].completion.version = r.rows[j].completion.version

(* A run that has answered everything is repeated from the cache: as long  *)
(* as nothing failed or was interrupted, the report stays the same.        *)
CompleteRunIsReproducible ==
  \A i, j \in DOMAIN reports :
    i < j /\ reports[i].models = reports[j].models /\ reports[i].complete /\ reports[j].faults = 0
      => reports[j] = reports[i]
=============================================================================
