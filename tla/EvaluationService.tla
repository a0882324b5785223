------------------------- MODULE EvaluationService -------------------------
(***************************************************************************)
(* The solve server's idempotent single-flight evaluation                  *)
(* (gto_remote/server.py, class EvaluationService), called by one thread   *)
(* for each HTTP exchange of a ThreadingHTTPServer.                        *)
(*                                                                         *)
(* Two locks: a state lock held for each look at the replay cache and the  *)
(* in-flight table, so each look is one step here, and a solver slot taken *)
(* without blocking and held across the solve.  Nothing orders the steps   *)
(* of two threads between those looks.                                     *)
(***************************************************************************)
EXTENDS Naturals, FiniteSets, Sequences, SequencesExt

CONSTANTS
  Threads,        \* handler threads
  RequestIds,     \* idempotency keys
  Fingerprints,   \* decisions a key may be used for
  CacheEntries,   \* replay cache bound
  MaxSolves       \* bound of the model: solves that end with an outcome

ASSUME ServiceAssumption ==
  /\ CacheEntries \in Nat \ {0}
  /\ MaxSolves \in Nat

VARIABLES
  cache,      \* _cache: retained responses by request identifier
  recency,    \* the order of _cache, least recently used first
  inFlight,   \* _in_flight: fingerprints by identifier
  slot,       \* the holders of _solver_slot: {} or one thread
  pc,         \* where each thread is in evaluate()
  request,    \* each thread's identifier and fingerprint
  answer,     \* what each thread's last call returned or raised
  solves      \* history: solves with an outcome; a body carries its solve's number

vars == <<cache, recency, inFlight, slot, pc, request, answer, solves>>

Requests == [id : RequestIds, fingerprint : Fingerprints]
\* A body names the decision it was solved for and the solve that made it.
Bodies == [fingerprint : Fingerprints, solve : 1..MaxSolves]
Entries == [fingerprint : Fingerprints, body : Bodies]

Errors == {"none", "conflict", "in_progress", "busy", "failed"}
Raised(error) == [error |-> error]
Returned(body) == [error |-> "none", body |-> body]

Id(t) == request[t].id
IsCached(id) == id \in DOMAIN cache

Init ==
  /\ cache = [id \in {} |-> {}]
  /\ recency = <<>>
  /\ inFlight = [id \in {} |-> {}]
  /\ slot = {}
  /\ pc = [t \in Threads |-> "idle"]
  /\ request \in [Threads -> Requests]
  /\ answer = [t \in Threads |-> Raised("none")]
  /\ solves = 0

-----------------------------------------------------------------------------
Without(order, id) == SelectSeq(order, LAMBDA other : other # id)
MovedToEnd(order, id) == Append(Without(order, id), id)

Goto(t, place) == pc' = [pc EXCEPT ![t] = place]
Answer(t, result) == answer' = [answer EXCEPT ![t] = result]

\* A client posts a decision; it may reuse any identifier at any time, as a
\* retry of the same decision or by mistake for another.
Post(t, r) ==
  /\ pc[t] = "idle"
  /\ request' = [request EXCEPT ![t] = r]
  /\ Answer(t, Raised("none"))
  /\ Goto(t, "check")
  /\ UNCHANGED <<cache, recency, inFlight, slot, solves>>

ReplayAnyDecision(t, next) ==
  /\ IsCached(Id(t))
  /\ Answer(t, Returned(cache[Id(t)].body))
  /\ recency' = MovedToEnd(recency, Id(t))
  /\ Goto(t, next)
  /\ UNCHANGED <<cache, inFlight, slot, request, solves>>

\* A cached response of the same decision is replayed, of another refused.
Replay(t, next) ==
  /\ IsCached(Id(t))
  /\ IF cache[Id(t)].fingerprint = request[t].fingerprint
     THEN /\ Answer(t, Returned(cache[Id(t)].body))
          /\ recency' = MovedToEnd(recency, Id(t))
     ELSE /\ Answer(t, Raised("conflict"))
          /\ UNCHANGED recency
  /\ Goto(t, next)
  /\ UNCHANGED <<cache, inFlight, slot, request, solves>>

CheckRunning(t) ==
  /\ ~IsCached(Id(t))
  /\ IF Id(t) \in DOMAIN inFlight
     THEN /\ Answer(t, Raised(IF inFlight[Id(t)] = request[t].fingerprint
                              THEN "in_progress" ELSE "conflict"))
          /\ Goto(t, "idle")
     ELSE /\ Goto(t, "acquire")
          /\ UNCHANGED answer
  /\ UNCHANGED <<cache, recency, inFlight, slot, request, solves>>

FirstLook(t) == pc[t] = "check" /\ (Replay(t, "idle") \/ CheckRunning(t))

AcquireBesideHolder(t) ==
  /\ pc[t] = "acquire"
  /\ slot' = slot \cup {t}
  /\ Goto(t, "recheck")
  /\ UNCHANGED <<cache, recency, inFlight, request, answer, solves>>

AcquireBlocking(t) ==
  /\ pc[t] = "acquire"
  /\ slot = {}
  /\ slot' = {t}
  /\ Goto(t, "recheck")
  /\ UNCHANGED <<cache, recency, inFlight, request, answer, solves>>

\* acquire(blocking=False): no caller ever waits for the solver.
Acquire(t) ==
  /\ pc[t] = "acquire"
  /\ IF slot = {}
     THEN slot' = {t} /\ Goto(t, "recheck") /\ UNCHANGED answer
     ELSE Answer(t, Raised("busy")) /\ Goto(t, "idle") /\ UNCHANGED slot
  /\ UNCHANGED <<cache, recency, inFlight, request, solves>>

MarkWithoutRecheck(t) ==
  /\ inFlight' = [id \in DOMAIN inFlight \cup {Id(t)} |->
                    IF id = Id(t) THEN request[t].fingerprint ELSE inFlight[id]]
  /\ Goto(t, "solve")
  /\ UNCHANGED <<cache, recency, slot, request, answer, solves>>

MarkInFlight(t) ==
  /\ ~IsCached(Id(t))
  /\ inFlight' = [id \in DOMAIN inFlight \cup {Id(t)} |->
                    IF id = Id(t) THEN request[t].fingerprint ELSE inFlight[id]]
  /\ Goto(t, "solve")
  /\ UNCHANGED <<cache, recency, slot, request, answer, solves>>

\* The second look, with the slot held: another thread may have completed.
SecondLook(t) == pc[t] = "recheck" /\ (Replay(t, "forget") \/ MarkInFlight(t))

\* router.evaluate() and the encoding of its outcome succeed, or raise; past
\* the bound on solves, which no property sees, they only raise.
Solve(t) ==
  /\ pc[t] = "solve"
  /\ \/ /\ solves < MaxSolves
        /\ solves' = solves + 1
        /\ Answer(t, Returned([fingerprint |-> request[t].fingerprint, solve |-> solves + 1]))
        /\ Goto(t, "store")
     \/ /\ Answer(t, Raised("failed"))
        /\ Goto(t, "forget")
        /\ UNCHANGED solves
  /\ UNCHANGED <<cache, recency, inFlight, slot, request>>

\* The new response becomes the most recent one; the oldest make room.
Evicted(order) == SubSeq(order, 1, Len(order) - CacheEntries)

Store(t) ==
  /\ pc[t] = "store"
  /\ LET order == MovedToEnd(recency, Id(t))
         gone == ToSet(Evicted(order))
         entry == [fingerprint |-> request[t].fingerprint, body |-> answer[t].body]
     IN  /\ cache' = [id \in (DOMAIN cache \cup {Id(t)}) \ gone |->
                        IF id = Id(t) THEN entry ELSE cache[id]]
         /\ recency' = SelectSeq(order, LAMBDA id : id \notin gone)
  /\ Goto(t, "forget")
  /\ UNCHANGED <<inFlight, slot, request, answer, solves>>

KeepInFlight(t) ==
  /\ pc[t] = "forget"
  /\ inFlight' = IF answer[t].error = "failed" THEN inFlight
                 ELSE [id \in DOMAIN inFlight \ {Id(t)} |-> inFlight[id]]
  /\ Goto(t, "release")
  /\ UNCHANGED <<cache, recency, slot, request, answer, solves>>

\* The finally clause, whatever happened since the slot was taken.
Forget(t) ==
  /\ pc[t] = "forget"
  /\ inFlight' = [id \in DOMAIN inFlight \ {Id(t)} |-> inFlight[id]]
  /\ Goto(t, "release")
  /\ UNCHANGED <<cache, recency, slot, request, answer, solves>>

Release(t) ==
  /\ pc[t] = "release"
  /\ slot' = slot \ {t}
  /\ Goto(t, "idle")
  /\ UNCHANGED <<cache, recency, inFlight, request, answer, solves>>

Evaluate(t) ==
  \/ FirstLook(t) \/ Acquire(t) \/ SecondLook(t)
  \/ Solve(t) \/ Store(t) \/ Forget(t) \/ Release(t)

Next == \E t \in Threads : Evaluate(t) \/ \E r \in Requests : Post(t, r)

Spec == Init /\ [][Next]_vars

-----------------------------------------------------------------------------
Holding == {"recheck", "solve", "store", "forget", "release"}
Places == {"idle", "check", "acquire"} \cup Holding
Running(t) == pc[t] \in {"solve", "store"}

(* Every variable has its type, and the replay cache keeps its bound: what *)
(* is cached is in the eviction order exactly once, so that nothing stays  *)
(* cached that no eviction can reach.                                      *)
TypeOK ==
  /\ DOMAIN cache \subseteq RequestIds
  /\ \A id \in DOMAIN cache : cache[id] \in Entries
  /\ recency \in Seq(RequestIds)
  /\ ToSet(recency) = DOMAIN cache /\ IsInjective(recency)
  /\ Len(recency) <= CacheEntries
  /\ DOMAIN inFlight \subseteq RequestIds
  /\ \A id \in DOMAIN inFlight : inFlight[id] \in Fingerprints
  /\ slot \subseteq Threads
  /\ pc \in [Threads -> Places]
  /\ request \in [Threads -> Requests]
  /\ \A t \in Threads : answer[t] \in [error : Errors \ {"none"}] \cup {Raised("none")}
                                        \cup {Returned(body) : body \in Bodies}
  /\ solves \in 0..MaxSolves

(* Only the thread that took the slot is past it, and it still holds it.   *)
OneSolverAtATime ==
  \A t \in Threads : pc[t] \in Holding <=> slot = {t}

(* The in-flight table names the solve that runs and nothing else: no      *)
(* identifier is left behind to answer REQUEST_IN_PROGRESS for ever, and   *)
(* no thread removes the entry another one relies on.                      *)
InFlightIsRunning ==
  /\ \A id \in DOMAIN inFlight :
       \E t \in Threads : Id(t) = id /\ pc[t] \in {"solve", "store", "forget"}
  /\ \A t \in Threads : Running(t) =>
       Id(t) \in DOMAIN inFlight /\ inFlight[Id(t)] = request[t].fingerprint

(* Idempotency: a decision whose response is retained is never solved      *)
(* again, however retries interleave with the solve that produced it.      *)
RetainedIsNotSolvedAgain ==
  \A t \in Threads : Running(t) => ~IsCached(Id(t))

(* A retained response changes only by being dropped.                      *)
RetainedIsImmutable ==
  [][\A id \in DOMAIN cache : id \in DOMAIN cache' => cache'[id] = cache[id]]_vars

(* Nobody is given a body solved for another decision, even when a client  *)
(* reuses an identifier.                                                   *)
AnswerIsForItsDecision ==
  \A t \in Threads :
    answer[t].error = "none" /\ "body" \in DOMAIN answer[t] =>
      answer[t].body.fingerprint = request[t].fingerprint
=============================================================================
