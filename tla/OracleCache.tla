----------------------------- MODULE OracleCache -----------------------------
(***************************************************************************)
(* The cache of solved nodes (gto_oracle/cache.py) and the processes that  *)
(* share its database file: live routers (live_gto.py, LiveGTORouter) and  *)
(* benchmark runs (gto_oracle_benchmark.py, load_or_solve), each with a    *)
(* local engine (gto_oracle/engine_client.py) to run on a miss.            *)
(*                                                                         *)
(* One specification is modelled: every entry of it spans one row of       *)
(* oracle_results and the rows of its child tables.  A table is modelled   *)
(* by the solve whose rows it holds.  A write is one SQLite transaction; a *)
(* read is one statement for each table, outside of any transaction.       *)
(***************************************************************************)
EXTENDS EngineResponse

CONSTANTS
  Routers, Benchmarks,   \* the processes of either kind
  MaxBinary,             \* bound: engine executables installed one after the other
  MaxSolves              \* bound: solves that return a result

Clients == Routers \cup Benchmarks
NoClient == "none"
Empty == 0

ASSUME CacheAssumption == NoClient \notin Clients

\* A node has policies; a continuation also has conditional ranges.
ChildTables(kind) ==
  IF kind = "solve_path" THEN <<"policies", "actions", "ranges">> ELSE <<"policies", "actions">>

VARIABLES
  operation,      \* what the engine is asked: a root, a node, or a ContinuationSpec
  cacheOnly,      \* flop_cache_only of the routers
  stored,         \* the committed tables
  writer, draft,  \* the open write transaction and the tables it sees
  binary,         \* the installed engine executable
  solves,         \* history: the results the engine returned
  pc,
  pin,            \* the digest a client computed for its lookup
  seen,           \* the rows it has read so far
  digest, ran,    \* the digest before its solve, and what was executed
  result,         \* the solve it holds
  answer          \* what its last evaluation returned

database == <<stored, writer, draft>>
evaluation == <<pin, seen, digest, ran, result>>
vars == <<operation, cacheOnly, database, binary, solves, pc, evaluation, answer>>

Tables == <<"meta">> \o ChildTables(operation)
NoRows == [t \in ToSet(Tables) |-> Empty]
Context(c) == IF c \in Routers THEN "owned_simulator" ELSE "offline"

Goto(c, place) == pc' = [pc EXCEPT ![c] = place]

\* An evaluation ends; its locals go out of scope.
Answer(c, status, rows, fresh) ==
  /\ answer' = [answer EXCEPT ![c] = [status |-> status, rows |-> rows, fresh |-> fresh,
                                      pin |-> pin[c]]]
  /\ Goto(c, "idle")
  /\ pin' = [pin EXCEPT ![c] = 0] /\ seen' = [seen EXCEPT ![c] = NoRows]
  /\ digest' = [digest EXCEPT ![c] = 0] /\ ran' = [ran EXCEPT ![c] = 0]
  /\ result' = [result EXCEPT ![c] = Empty]

Fail(c) == Answer(c, "FAILED", NoRows, FALSE)

-----------------------------------------------------------------------------
(* Looking an entry up.                                                    *)

\* The executable is hashed to qualify cache hits; a benchmark has no
\* continuations.
Start(c) ==
  /\ pc[c] = "idle" /\ (c \in Benchmarks => operation # "solve_path")
  /\ pin' = [pin EXCEPT ![c] = binary]
  /\ answer' = [answer EXCEPT ![c] = [status |-> "none"]]
  /\ Goto(c, "meta")
  /\ UNCHANGED <<operation, cacheOnly, database, binary, solves, seen, digest, ran, result>>

\* The entry's provenance must be the caller's executable and context.
Qualifies(c, n) == solves[n].digest = pin[c] /\ solves[n].context = Context(c)

SelectMeta(c) ==
  /\ pc[c] = "meta"
  /\ IF stored["meta"] # Empty /\ Qualifies(c, stored["meta"])
     THEN /\ seen' = [seen EXCEPT ![c]["meta"] = stored["meta"]]
          /\ Goto(c, "policies")
     ELSE /\ Goto(c, "miss")
          /\ UNCHANGED seen
  /\ UNCHANGED <<operation, cacheOnly, database, binary, solves, pin, digest, ran, result, answer>>

TableAfter(t) == LET i == CHOOSE k \in DOMAIN Tables : Tables[k] = t
                 IN  IF i = Len(Tables) THEN "validate" ELSE Tables[i + 1]

SelectChildren(c, t) ==
  /\ pc[c] = t
  /\ seen' = [seen EXCEPT ![c][t] = stored[t]]
  /\ Goto(c, TableAfter(t))
  /\ UNCHANGED <<operation, cacheOnly, database, binary, solves, pin, digest, ran, result, answer>>

\* validate_result_for_spec() tells rows of two solves apart only if their
\* values happen to disagree.
IsTorn(rows) == \E t \in DOMAIN rows : rows[t] # rows["meta"]

Hit(c) ==
  /\ pc[c] = "validate"
  /\ \/ solves[seen[c]["meta"]].converged /\ Answer(c, "SOLVED", seen[c], FALSE)
     \/ (IsTorn(seen[c]) \/ ~solves[seen[c]["meta"]].converged) /\ Fail(c)
  /\ UNCHANGED <<operation, cacheOnly, database, binary, solves>>

Miss(c) ==
  /\ pc[c] = "miss"
  /\ IF c \in Routers /\ cacheOnly
     THEN Answer(c, "CACHE_MISS", NoRows, FALSE)
     ELSE Goto(c, "solve") /\ UNCHANGED <<evaluation, answer>>
  /\ UNCHANGED <<operation, cacheOnly, database, binary, solves>>

\* The file cannot be opened or is locked too long, in any statement.
LookupFails(c) ==
  /\ pc[c] \in ToSet(Tables)
  /\ Fail(c)
  /\ UNCHANGED <<operation, cacheOnly, database, binary, solves>>

-----------------------------------------------------------------------------
(* EngineClient.solve() and solve_continuation().                          *)

StartSolve(c) ==
  /\ pc[c] = "solve"
  /\ digest' = [digest EXCEPT ![c] = binary]
  /\ Goto(c, "spawn")
  /\ UNCHANGED <<operation, cacheOnly, database, binary, solves, pin, seen, ran, result, answer>>

SpawnEngine(c) ==
  /\ pc[c] = "spawn"
  /\ ran' = [ran EXCEPT ![c] = binary]
  /\ Goto(c, "engine")
  /\ UNCHANGED <<operation, cacheOnly, database, binary, solves, pin, seen, digest, result, answer>>

\* Deadline, output limit, exit status; or the executable changed meanwhile.
EngineFails(c) ==
  /\ pc[c] = "engine"
  /\ Fail(c)
  /\ UNCHANGED <<operation, cacheOnly, database, binary, solves>>

\* UNREACHABLE_NODE and its like tell a router that the node cannot be
\* solved; any other error, and any malformed response, is a failure.
ResponseRefused(c) ==
  /\ pc[c] = "engine" /\ binary = digest[c]
  /\ \E r \in Responses(operation, Context(c)) :
       /\ ~Accepted(r, operation, Context(c))
       /\ \/ Fail(c)
          \/ c \in Routers /\ r.status = "error" /\ Answer(c, "UNSUPPORTED", NoRows, FALSE)
  /\ UNCHANGED <<operation, cacheOnly, database, binary, solves>>

\* Of the response only what its readers go by is kept.
Returned(c, r) ==
  /\ solves' = Append(solves, [digest |-> digest[c], by |-> ran[c], context |-> Context(c),
                               converged |-> r.reached, met |-> r.exploitability <= Target,
                               answers |-> AnswersRequest(r)])
  /\ result' = [result EXCEPT ![c] = Len(solves')]
  /\ Goto(c, "solved")
  /\ UNCHANGED <<pin, seen, digest, ran, answer>>

AcceptedResponse(c) ==
  \E r \in Responses(operation, Context(c)) :
    Accepted(r, operation, Context(c)) /\ Returned(c, r)

EngineReturnsUnchecked(c) ==
  /\ pc[c] = "engine" /\ Len(solves) < MaxSolves
  /\ AcceptedResponse(c)
  /\ UNCHANGED <<operation, cacheOnly, database, binary>>

\* A valid response counts if the executable is still the one hashed before.
EngineReturns(c) ==
  /\ pc[c] = "engine" /\ Len(solves) < MaxSolves
  /\ IF binary = digest[c] THEN AcceptedResponse(c) ELSE Fail(c) /\ UNCHANGED solves
  /\ UNCHANGED <<operation, cacheOnly, database, binary>>

\* A result short of its target is never kept; a benchmark also insists on
\* the executable of its lookup, a router takes the newer one.
Judge(c) ==
  /\ pc[c] = "solved"
  /\ IF /\ solves[result[c]].converged
        /\ c \in Benchmarks => solves[result[c]].digest = pin[c]
     THEN Goto(c, "put") /\ UNCHANGED <<evaluation, answer>>
     ELSE Fail(c)
  /\ UNCHANGED <<operation, cacheOnly, database, binary, solves>>

-----------------------------------------------------------------------------
(* put() and put_continuation(): one transaction.                          *)

InWrite == <<operation, cacheOnly, stored, binary, solves, evaluation, answer>>

Begin(c) ==
  /\ pc[c] = "put" /\ writer = NoClient
  /\ writer' = c
  /\ draft' = stored
  /\ Goto(c, "upsert")
  /\ UNCHANGED InWrite

UpsertInAutocommit(c) ==
  /\ pc[c] = "upsert"
  /\ stored' = [stored EXCEPT !["meta"] = result[c]]
  /\ draft' = [draft EXCEPT !["meta"] = result[c]]
  /\ Goto(c, "delete")
  /\ UNCHANGED <<operation, cacheOnly, writer, binary, solves, evaluation, answer>>

Upsert(c) ==
  /\ pc[c] = "upsert"
  /\ draft' = [draft EXCEPT !["meta"] = result[c]]
  /\ Goto(c, "delete")
  /\ UNCHANGED <<writer, InWrite>>

\* Deleting the policies cascades to their action values.
DeleteChildren(c) ==
  /\ pc[c] = "delete"
  /\ draft' = [t \in DOMAIN draft |-> IF t = "meta" THEN draft[t] ELSE Empty]
  /\ Goto(c, "insert")
  /\ UNCHANGED <<writer, InWrite>>

\* Nobody else sees the child tables fill, one statement after the other.
InsertChildren(c) ==
  /\ pc[c] = "insert"
  /\ draft' = [t \in DOMAIN draft |-> result[c]]
  /\ Goto(c, "commit")
  /\ UNCHANGED <<writer, InWrite>>

EndTransaction == writer' = NoClient /\ draft' = NoRows

Commit(c) ==
  /\ pc[c] = "commit"
  /\ stored' = draft
  /\ EndTransaction
  /\ Answer(c, "SOLVED", [t \in DOMAIN draft |-> result[c]], TRUE)
  /\ UNCHANGED <<operation, cacheOnly, binary, solves>>

\* Any exception rolls the transaction back and reaches the caller.
Rollback(c) ==
  /\ pc[c] \in {"put", "upsert", "delete", "insert", "commit"}
  /\ IF writer = c THEN EndTransaction ELSE UNCHANGED <<writer, draft>>
  /\ Fail(c)
  /\ UNCHANGED <<operation, cacheOnly, stored, binary, solves>>

-----------------------------------------------------------------------------
\* The process dies: its locks and its uncommitted pages go with it.
Crash(c) ==
  /\ pc[c] # "idle"
  /\ IF writer = c THEN EndTransaction ELSE UNCHANGED <<writer, draft>>
  /\ Answer(c, "none", NoRows, FALSE)
  /\ UNCHANGED <<operation, cacheOnly, stored, binary, solves>>

\* An engine is rebuilt or updated; an older one is not brought back.
Install ==
  /\ binary < MaxBinary
  /\ binary' = binary + 1
  /\ UNCHANGED <<operation, cacheOnly, database, solves, pc, evaluation, answer>>

Init ==
  /\ operation \in Operations /\ cacheOnly \in BOOLEAN
  /\ stored = NoRows /\ draft = NoRows /\ writer = NoClient
  /\ binary = 1
  /\ solves = <<>>
  /\ pc = [c \in Clients |-> "idle"]
  /\ pin = [c \in Clients |-> 0] /\ seen = [c \in Clients |-> NoRows]
  /\ digest = [c \in Clients |-> 0] /\ ran = [c \in Clients |-> 0]
  /\ result = [c \in Clients |-> Empty]
  /\ answer = [c \in Clients |-> [status |-> "none"]]

Lookup(c) ==
  \/ Start(c) \/ SelectMeta(c) \/ Hit(c) \/ Miss(c) \/ LookupFails(c)
  \/ \E t \in ToSet(ChildTables(operation)) : SelectChildren(c, t)
Solve(c) ==
  \/ StartSolve(c) \/ SpawnEngine(c) \/ EngineFails(c) \/ ResponseRefused(c)
  \/ EngineReturns(c) \/ Judge(c)
Put(c) ==
  \/ Begin(c) \/ Upsert(c) \/ DeleteChildren(c) \/ InsertChildren(c) \/ Commit(c) \/ Rollback(c)

Next ==
  \/ \E c \in Clients : Lookup(c) \/ Solve(c) \/ Put(c) \/ Crash(c)
  \/ Install

Spec == Init /\ [][Next]_vars

-----------------------------------------------------------------------------
(* Every variable has its type.                                            *)
TypeOK ==
  LET Rows == [ToSet(Tables) -> 0..Len(solves)]
  IN  /\ operation \in Operations /\ cacheOnly \in BOOLEAN
      /\ stored \in Rows /\ draft \in Rows
      /\ writer \in Clients \cup {NoClient} /\ binary \in 1..MaxBinary
      /\ \A i \in DOMAIN solves : {solves[i].digest, solves[i].by} \subseteq 1..binary
      /\ pc \in [Clients -> {"idle", "miss", "validate", "solve", "spawn", "engine", "solved", "put",
                              "upsert", "delete", "insert", "commit"} \cup ToSet(Tables)]
      /\ \A c \in Clients :
           /\ {pin[c], digest[c], ran[c]} \subseteq 0..binary
           /\ seen[c] \in Rows /\ result[c] \in 0..Len(solves)
           /\ writer = c => pc[c] \in {"upsert", "delete", "insert", "commit"}

(* An entry is replaced as a whole or not at all, whatever fails or dies   *)
(* in the middle of a write.                                               *)
StoredIsWhole == ~IsTorn(stored)

(* What is stored or freshly returned was computed by the executable it    *)
(* names, answers the request, and is as close to equilibrium as asked: an *)
(* upgrade during a solve never passes the work of one engine off as       *)
(* another's, nor does a response that was refused get in.                 *)
StoredIsWhatItSays ==
  LET kept == {stored["meta"]} \cup {answer[c].rows["meta"] :
                                       c \in {d \in Clients : answer[d].status = "SOLVED"}}
  IN  \A n \in kept \ {Empty} : /\ solves[n].by = solves[n].digest
                                 /\ solves[n].answers
                                 /\ solves[n].converged /\ solves[n].met

(* A lookup that is pinned to an executable: "entries made by an older or  *)
(* different executable ... are cache misses rather than trusted results". *)
PinnedRowsAreTrusted ==
  \A c \in Clients :
    answer[c].status = "SOLVED" /\ ~answer[c].fresh =>
      \A t \in DOMAIN answer[c].rows : solves[answer[c].rows[t]].digest = answer[c].pin
=============================================================================
