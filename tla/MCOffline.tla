------------------------------ MODULE MCOffline ------------------------------
(* The cache of solved nodes and the runs of the benchmarks that ask       *)
(* models about them, which share no state: a behaviour is one of either.  *)
EXTENDS OracleCache
CONSTANTS Tools, Models, Decisions, Completions, MaxConsecutive, MaxRuns, MaxFaults
VARIABLES tool, file, unterminated, synced, place, calls, entries, model, snapshot,
          pinned, at, errors, rows, asked, kept, reports, runs, faults, part
Run == INSTANCE BenchmarkRun WITH pc <- place, pin <- pinned

\* The models are a list, of any length.
ASSUME RunAssumption == Decisions \in Nat /\ Models \in Seq(ToSet(Models))

runVars == <<tool, file, unterminated, synced, place, calls, entries, model, snapshot,
            pinned, at, errors, rows, asked, kept, reports, runs, faults>>
MCModels == <<"fast", "coach">>
MCCompletions == {[version |-> "v1", answer |-> "in menu"],
                  [version |-> "v2", answer |-> "off tree"],
                  [version |-> "", answer |-> "none"]}

OfflineInit ==
  /\ part \in {"cache", "run"}
  /\ Init /\ Run!Init
  /\ IF part = "cache" THEN tool = "oracle" ELSE operation = "solve_root" /\ ~cacheOnly
OfflineNext ==
  \/ part = "cache" /\ Next /\ UNCHANGED <<part, runVars>>
  \/ part = "run" /\ Run!Next /\ UNCHANGED <<part, vars>>
OfflineSpec == OfflineInit /\ [][OfflineNext]_<<vars, runVars, part>>

(* Every report has one row for each model and decision, in order.         *)
EveryDecisionHasOneRow == Run!EveryDecisionHasOneRow
(* A report never mixes two versions of a model.                           *)
OneVersionPerModel == Run!OneVersionPerModel
(* A complete run is repeated from the cache.                              *)
CompleteRunIsReproducible == Run!CompleteRunIsReproducible
=============================================================================
