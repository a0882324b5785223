---------------------------- MODULE OfflineProofs ----------------------------
(***************************************************************************)
(* Proofs about the cache of solved nodes, for every set of processes and  *)
(* number of engines and solves, and about the runs of the benchmarks, for *)
(* every list of models and number of decisions and completions: see       *)
(* MCOffline, which runs both.                                             *)
(***************************************************************************)
EXTENDS MCOffline, FiniteSetTheorems, SequenceTheorems, NaturalsInduction, WellFoundedInduction, TLAPS

LEMMA OfflineIsCache == OfflineSpec => Spec
<1>1. OfflineInit => Init
  BY DEF OfflineInit
<1>2. [OfflineNext]_<<vars, runVars, part>> => [Next]_vars
  BY DEF OfflineNext
<1>3. QED
  BY <1>1, <1>2, PTL DEF OfflineSpec, Spec

-----------------------------------------------------------------------------
(* The cache.                                                              *)

\* A sequence of whatever elements.
IsSequence(s) == \E S : s \in Seq(S)

LEMMA AppendFacts ==
  ASSUME NEW s, IsSequence(s), NEW x
  PROVE  /\ Len(s) \in Nat /\ DOMAIN s = 1..Len(s)
         /\ IsSequence(Append(s, x)) /\ Len(Append(s, x)) = Len(s) + 1
         /\ DOMAIN Append(s, x) = 1 .. Len(s) + 1
         /\ Append(s, x)[Len(s) + 1] = x
         /\ \A i \in 1..Len(s) : Append(s, x)[i] = s[i]
<1>1. PICK S : s \in Seq(S)
  BY DEF IsSequence
<1> DEFINE T == S \cup {x}
<1>2. Len(s) \in Nat /\ DOMAIN s = 1..Len(s) /\ \A i \in 1..Len(s) : s[i] \in S
  BY <1>1, ElementOfSeq
<1>3. s \in Seq(T)
  BY <1>1, <1>2
<1>4. x \in T
  OBVIOUS
<1> HIDE DEF T
<1>5. /\ Append(s, x) \in Seq(T) /\ Len(Append(s, x)) = Len(s) + 1
      /\ Append(s, x)[Len(s) + 1] = x /\ \A i \in 1..Len(s) : Append(s, x)[i] = s[i]
  BY <1>3, <1>4, AppendProperties
<1>6. DOMAIN Append(s, x) = 1 .. Len(s) + 1
  BY <1>5
<1>7. QED
  BY <1>2, <1>5, <1>6 DEF IsSequence

AllTables == ToSet(Tables)

LEMMA TableFacts ==
  /\ "meta" \in AllTables
  /\ \A t \in AllTables : t \in {"meta", "policies", "actions", "ranges"}
  /\ \A t \in ToSet(ChildTables(operation)) : t \in AllTables
  /\ \A t \in AllTables : TableAfter(t) \in AllTables \cup {"validate"}
<1> DEFINE Names == {"meta", "policies", "actions", "ranges"}
<1>1. <<"meta">> \in Seq(Names) /\ Len(<<"meta">>) = 1 /\ <<"meta">>[1] = "meta"
  OBVIOUS
<1>2. ChildTables(operation) \in Seq(Names)
  <2>1. <<"policies", "actions", "ranges">> \in Seq(Names) /\ <<"policies", "actions">> \in Seq(Names)
    OBVIOUS
  <2>2. QED
    BY <2>1 DEF ChildTables
<1> HIDE DEF Names
<1> DEFINE children == ChildTables(operation)
<1>3. /\ Tables \in Seq(Names) /\ Len(Tables) = 1 + Len(children) /\ Len(children) \in Nat
      /\ Tables[1] = "meta"
      /\ \A i \in 1..Len(children) : Tables[1 + i] = children[i]
  <2>1. Tables = <<"meta">> \o children
    BY DEF Tables
  <2> HIDE DEF children
  <2>2. children \in Seq(Names)
    BY <1>2 DEF children
  <2>3. /\ Tables \in Seq(Names) /\ Len(Tables) = 1 + Len(children) /\ Len(children) \in Nat
        /\ Tables[1] = "meta"
    BY <1>1, <2>1, <2>2, ConcatProperties
  <2>4. \A i \in 1 + 1 .. 1 + Len(children) : Tables[i] = children[i - 1]
    BY <1>1, <2>1, <2>2, ConcatProperties
  <2>5. ASSUME NEW i \in 1..Len(children)
        PROVE  Tables[1 + i] = children[i]
    <3>1. 1 + i \in 1 + 1 .. 1 + Len(children) /\ (1 + i) - 1 = i
      BY <2>3
    <3>2. QED
      BY <2>4, <3>1
  <2>6. QED
    BY <2>3, <2>5
<1>4. DOMAIN children = 1..Len(children)
  BY <1>2
<1> HIDE DEF children
<1>5. DOMAIN Tables = 1..Len(Tables) /\ 1 \in 1..Len(Tables)
  BY <1>3
<1>6. AllTables = {Tables[i] : i \in 1..Len(Tables)}
  BY <1>5 DEF AllTables, ToSet
<1>7. \A i \in 1..Len(Tables) : Tables[i] \in Names
  BY <1>3, ElementOfSeq
<1>8. \A t \in ToSet(children) : t \in AllTables
  <2>1. ASSUME NEW i \in 1..Len(children)
        PROVE  children[i] \in AllTables
    BY <1>3, <1>6
  <2>2. QED
    BY <1>4, <2>1 DEF ToSet
<1>9. ASSUME NEW t \in AllTables
      PROVE  TableAfter(t) \in AllTables \cup {"validate"}
  <2>1. PICK i : i = CHOOSE k \in DOMAIN Tables : Tables[k] = t
    OBVIOUS
  <2>2. i \in 1..Len(Tables)
    BY <1>5, <1>6, <2>1
  <2>3. TableAfter(t) = IF i = Len(Tables) THEN "validate" ELSE Tables[i + 1]
    BY <2>1 DEF TableAfter
  <2>4. i # Len(Tables) => i + 1 \in 1..Len(Tables)
    BY <1>3, <2>2
  <2>5. QED
    BY <1>6, <2>3, <2>4
<1>10. QED
  BY <1>3, <1>5, <1>6, <1>7, <1>8, <1>9 DEF Names, children

Writing == {"upsert", "delete", "insert", "commit"}

(* A solve was made by the executable it names, for the request; if it     *)
(* counts as converged it is, and then it may be kept.                     *)
Sound(n) ==
  /\ solves[n].by = solves[n].digest
  /\ solves[n].answers
  /\ solves[n].converged => solves[n].met
Solved == {n \in 1..Len(solves) : Sound(n)}
Kept == {Empty} \cup {n \in Solved : solves[n].converged}

ShapeOK ==
  /\ IsSequence(solves) /\ binary \in Nat /\ operation \in Operations
  /\ DOMAIN pc = Clients /\ DOMAIN pin = Clients /\ DOMAIN seen = Clients
  /\ DOMAIN digest = Clients /\ DOMAIN ran = Clients /\ DOMAIN result = Clients
  /\ DOMAIN answer = Clients

StoredOK == stored = [t \in AllTables |-> stored["meta"]] /\ stored["meta"] \in Kept

(* Only one process is in a write, and what it will commit is one solve.   *)
WriteOK(c) ==
  /\ pc[c] \in Writing => writer = c /\ DOMAIN draft = AllTables
  /\ pc[c] = "commit" => draft = [t \in AllTables |-> result[c]]
  /\ pc[c] = "put" \/ pc[c] \in Writing => result[c] \in Kept
  /\ pc[c] = "solved" => result[c] \in Solved

\* What ran is no older than what was hashed before it.
EngineOK(c) ==
  /\ pc[c] = "spawn" => digest[c] \in Nat /\ digest[c] <= binary
  /\ pc[c] = "engine" => /\ digest[c] \in Nat /\ ran[c] \in Nat
                         /\ digest[c] <= ran[c] /\ ran[c] <= binary

ReadOK(c) ==
  /\ DOMAIN seen[c] = AllTables /\ seen[c]["meta"] \in Kept
  /\ answer[c].status = "SOLVED" => answer[c].rows["meta"] \in Kept

ClientOK(c) == WriteOK(c) /\ EngineOK(c) /\ ReadOK(c)
CacheInv == ShapeOK /\ StoredOK /\ \A c \in Clients : ClientOK(c)

LEMMA CacheInit == Init => CacheInv
<1> SUFFICES ASSUME Init PROVE CacheInv
  OBVIOUS
<1>1. NoRows = [t \in AllTables |-> Empty]
  BY DEF NoRows, AllTables
<1>2. ShapeOK
  <2>1. solves \in Seq({})
    BY DEF Init
  <2>2. QED
    BY <2>1 DEF Init, ShapeOK, IsSequence
<1>3. Empty \in Kept
  BY DEF Kept
<1>4. StoredOK
  BY <1>1, <1>3, TableFacts DEF Init, StoredOK
<1>5. ASSUME NEW c \in Clients PROVE ClientOK(c)
  BY <1>1, <1>3, TableFacts DEF Init, ClientOK, WriteOK, EngineOK, ReadOK, Writing
<1>6. QED
  BY <1>2, <1>4, <1>5 DEF CacheInv

-----------------------------------------------------------------------------
(* Steps of the cache.                                                     *)

\* What every step does to what the others see.
Grows ==
  /\ AllTables' = AllTables
  /\ Kept \subseteq Kept' /\ Solved \subseteq Solved'
  /\ binary' \in Nat /\ binary <= binary'

LEMMA SameSolves ==
  ASSUME CacheInv, UNCHANGED <<operation, binary, solves>>
  PROVE  Grows /\ Kept' = Kept /\ Solved' = Solved
<1>1. AllTables' = AllTables
  BY DEF AllTables, Tables
<1>2. Solved' = Solved
  BY DEF Solved, Sound
<1>3. Kept' = Kept
  BY <1>2 DEF Kept
<1>4. QED
  BY <1>1, <1>2, <1>3 DEF Grows, CacheInv, ShapeOK

LEMMA MoreSolves ==
  ASSUME CacheInv, NEW x, solves' = Append(solves, x), UNCHANGED <<operation, binary>>,
         x.by = x.digest, x.answers, x.converged => x.met
  PROVE  Grows /\ Len(solves') \in Solved' /\ IsSequence(solves')
<1>1. /\ Len(solves) \in Nat /\ IsSequence(solves') /\ Len(solves') = Len(solves) + 1
      /\ solves'[Len(solves')] = x
      /\ \A i \in 1..Len(solves) : solves'[i] = solves[i]
  BY AppendFacts DEF CacheInv, ShapeOK
<1>2. AllTables' = AllTables
  BY DEF AllTables, Tables
<1>3. 1..Len(solves) \subseteq 1..Len(solves') /\ Len(solves') \in 1..Len(solves')
  BY <1>1
<1>4. ASSUME NEW n \in 1..Len(solves)
      PROVE  Sound(n)' <=> Sound(n)
  BY <1>1 DEF Sound
<1>5. Solved \subseteq Solved'
  BY <1>3, <1>4 DEF Solved
<1>6. Kept \subseteq Kept'
  <2>1. ASSUME NEW n \in Solved, solves[n].converged
        PROVE  n \in Solved' /\ solves'[n].converged
    BY <1>1, <1>5, <2>1 DEF Solved
  <2>2. QED
    BY <2>1 DEF Kept
<1>7. Len(solves') \in Solved'
  BY <1>1, <1>3 DEF Solved, Sound
<1>8. QED
  BY <1>1, <1>2, <1>5, <1>6, <1>7 DEF Grows, CacheInv, ShapeOK

\* A process whose own state a step leaves alone.
Unmoved(d) ==
  /\ pc'[d] = pc[d] /\ seen'[d] = seen[d] /\ digest'[d] = digest[d] /\ ran'[d] = ran[d]
  /\ result'[d] = result[d] /\ answer'[d] = answer[d]

LEMMA OthersKeep ==
  ASSUME CacheInv, Grows, NEW d \in Clients, Unmoved(d),
         writer = d => writer' = d /\ draft' = draft
  PROVE  ClientOK(d)'
<1>1. ClientOK(d) /\ binary \in Nat
  BY DEF CacheInv, ShapeOK
<1>2. WriteOK(d)'
  BY <1>1 DEF ClientOK, WriteOK, Writing, Unmoved, Grows
<1>3. EngineOK(d)'
  <2>1. pc[d] = "spawn" => digest[d] \in Nat /\ digest[d] <= binary'
    BY <1>1 DEF ClientOK, EngineOK, Grows
  <2>2. pc[d] = "engine" => ran[d] \in Nat /\ ran[d] <= binary'
    BY <1>1 DEF ClientOK, EngineOK, Grows
  <2>3. QED
    BY <1>1, <2>1, <2>2 DEF ClientOK, EngineOK, Unmoved
<1>4. ReadOK(d)'
  BY <1>1 DEF ClientOK, ReadOK, Unmoved, Grows
<1>5. QED
  BY <1>2, <1>3, <1>4 DEF ClientOK

\* An evaluation that ends, whatever it answers.
LEMMA AnswerStep ==
  ASSUME CacheInv, NEW c \in Clients, NEW status, NEW found, NEW fresh,
         Answer(c, status, found, fresh), status = "SOLVED" => found["meta"] \in Kept,
         UNCHANGED <<operation, binary, solves>>, StoredOK',
         UNCHANGED <<writer, draft>> \/ writer = c
  PROVE  CacheInv'
<1>1. Grows /\ Kept' = Kept
  BY SameSolves
<1>2. NoRows = [t \in AllTables |-> Empty]
  BY DEF NoRows, AllTables
<1>3. ShapeOK'
  BY DEF CacheInv, ShapeOK, Answer, Goto
<1>4. ClientOK(c)'
  <2>1. /\ pc'[c] = "idle" /\ seen'[c] = NoRows
        /\ answer'[c].status = status /\ answer'[c].rows = found
    BY DEF CacheInv, ShapeOK, Answer, Goto
  <2>2. DOMAIN NoRows = AllTables' /\ NoRows["meta"] \in Kept'
    BY <1>1, <1>2, TableFacts DEF Grows, Kept
  <2>3. QED
    BY <1>1, <2>1, <2>2 DEF ClientOK, WriteOK, EngineOK, ReadOK, Writing
<1>5. ASSUME NEW d \in Clients, d # c
      PROVE  ClientOK(d)'
  <2>1. Unmoved(d)
    BY <1>5 DEF CacheInv, ShapeOK, Answer, Goto, Unmoved
  <2>2. QED
    BY <1>1, <1>5, <2>1, OthersKeep
<1>6. QED
  BY <1>3, <1>4, <1>5 DEF CacheInv

\* A step in which an evaluation goes on.
LEMMA GoOn ==
  ASSUME CacheInv, Grows, ShapeOK', StoredOK', NEW c \in Clients, ClientOK(c)',
         \A d \in Clients \ {c} : Unmoved(d),
         UNCHANGED <<writer, draft>> \/ writer = c \/ writer = NoClient
  PROVE  CacheInv'
<1>1. ASSUME NEW d \in Clients \ {c}
      PROVE  ClientOK(d)'
  BY OthersKeep, CacheAssumption
<1>2. QED
  BY <1>1 DEF CacheInv
LEMMA TheSame ==
  ASSUME CacheInv, UNCHANGED <<operation, binary, solves>>
  PROVE  /\ Grows /\ Kept' = Kept /\ Solved' = Solved
         /\ StoredOK /\ (stored' = stored => StoredOK')
<1>1. Grows /\ Kept' = Kept /\ Solved' = Solved
  BY SameSolves
<1>2. QED
  BY <1>1 DEF CacheInv, StoredOK, Grows

LEMMA LookupStep ==
  ASSUME CacheInv, NEW c \in Clients, Lookup(c)
  PROVE  CacheInv'
<1>1. UNCHANGED <<operation, stored, writer, draft, binary, solves>>
  BY DEF Lookup, Start, SelectMeta, Hit, Miss, LookupFails, SelectChildren, database, evaluation
<1>2. /\ Grows /\ Kept' = Kept /\ Solved' = Solved
      /\ StoredOK /\ StoredOK'
  BY <1>1, TheSame
<1>3. ClientOK(c) /\ ShapeOK
  BY DEF CacheInv
<1>4. CASE Start(c)
  <2>1. ShapeOK'
    BY <1>1, <1>3, <1>4 DEF Start, ShapeOK, Goto
  <2>2. /\ pc'[c] = "meta" /\ answer'[c].status = "none"
        /\ seen' = seen /\ digest' = digest /\ ran' = ran /\ result' = result
    BY <1>3, <1>4 DEF Start, ShapeOK, Goto
  <2>3. ClientOK(c)'
    BY <1>2, <1>3, <2>2 DEF ClientOK, WriteOK, EngineOK, ReadOK, Writing, Grows
  <2>4. \A d \in Clients \ {c} : Unmoved(d)
    BY <1>3, <1>4 DEF Start, ShapeOK, Goto, Unmoved
  <2>5. QED
    BY <1>1, <1>2, <2>1, <2>3, <2>4, GoOn
<1>5. ASSUME NEW t \in AllTables, SelectChildren(c, t) \/ SelectMeta(c)
      PROVE  CacheInv'
  <2>1. PICK step : Goto(c, step) /\ step \in {"miss", "validate", "meta", "policies", "actions",
                                                "ranges"}
    BY <1>5, TableFacts DEF SelectChildren, SelectMeta
  <2>2. UNCHANGED <<digest, ran, result, answer>>
    BY <1>5 DEF SelectChildren, SelectMeta
  <2>3. /\ DOMAIN seen' = Clients /\ DOMAIN seen'[c] = AllTables
        /\ seen'[c]["meta"] \in Kept
        /\ \A d \in Clients \ {c} : seen'[d] = seen[d]
    <3>1. stored[t] \in Kept /\ stored["meta"] \in Kept
      BY <1>2 DEF StoredOK
    <3>2. seen[c]["meta"] \in Kept /\ DOMAIN seen[c] = AllTables
      BY <1>3 DEF ClientOK, ReadOK
    <3>3. QED
      BY <1>3, <1>5, <3>1, <3>2, TableFacts DEF SelectChildren, SelectMeta, ShapeOK
  <2>4. ShapeOK'
    BY <1>1, <1>3, <1>5, <2>1, <2>2, <2>3 DEF SelectChildren, SelectMeta, ShapeOK, Goto
  <2>5. pc'[c] = step /\ \A d \in Clients \ {c} : pc'[d] = pc[d]
    BY <1>3, <2>1 DEF ShapeOK, Goto
  <2>6. ClientOK(c)'
    BY <1>2, <1>3, <2>1, <2>2, <2>3, <2>5 DEF ClientOK, WriteOK, EngineOK, ReadOK, Writing, Grows
  <2>7. \A d \in Clients \ {c} : Unmoved(d)
    BY <2>2, <2>3, <2>5 DEF Unmoved
  <2>8. QED
    BY <1>1, <1>2, <2>4, <2>6, <2>7, GoOn
<1>6. CASE Hit(c)
  <2>1. CASE Answer(c, "SOLVED", seen[c], FALSE)
    BY <1>1, <1>2, <1>3, <2>1, AnswerStep DEF ClientOK, ReadOK
  <2>2. CASE Fail(c)
    BY <1>1, <1>2, <2>2, AnswerStep DEF Fail
  <2>3. QED
    BY <1>6, <2>1, <2>2 DEF Hit
<1>7. CASE LookupFails(c)
  BY <1>1, <1>2, <1>7, AnswerStep DEF LookupFails, Fail
<1>8. CASE Miss(c)
  <2>1. CASE Answer(c, "CACHE_MISS", NoRows, FALSE)
    BY <1>1, <1>2, <2>1, AnswerStep
  <2>2. CASE Goto(c, "solve") /\ UNCHANGED <<evaluation, answer>>
    <3>1. ShapeOK'
      BY <1>1, <1>3, <2>2 DEF evaluation, ShapeOK, Goto
    <3>2. /\ pc'[c] = "solve"
          /\ seen' = seen /\ digest' = digest /\ ran' = ran /\ result' = result /\ answer' = answer
          /\ \A d \in Clients \ {c} : pc'[d] = pc[d]
      BY <1>3, <2>2 DEF evaluation, ShapeOK, Goto
    <3>3. ClientOK(c)'
      BY <1>2, <1>3, <3>2 DEF ClientOK, WriteOK, EngineOK, ReadOK, Writing, Grows
    <3>4. QED
      BY <1>1, <1>2, <3>1, <3>2, <3>3, GoOn DEF Unmoved
  <2>3. QED
    BY <1>8, <2>1, <2>2 DEF Miss
<1>9. QED
  BY <1>4, <1>5, <1>6, <1>7, <1>8, TableFacts DEF Lookup

LEMMA SolveStep ==
  ASSUME CacheInv, NEW c \in Clients, Solve(c)
  PROVE  CacheInv'
<1>1. UNCHANGED <<operation, stored, writer, draft, binary>>
  BY DEF Solve, StartSolve, SpawnEngine, EngineFails, ResponseRefused, EngineReturns,
         AcceptedResponse, Returned, Judge, database, evaluation
<1>2. ClientOK(c) /\ ShapeOK /\ StoredOK
  BY DEF CacheInv
<1>3. ASSUME UNCHANGED solves
      PROVE  Grows /\ Kept' = Kept /\ Solved' = Solved /\ StoredOK'
  BY <1>1, <1>3, TheSame
<1>4. CASE StartSolve(c)
  <2>1. UNCHANGED solves
    BY <1>4 DEF StartSolve
  <2>2. ShapeOK'
    BY <1>1, <1>2, <1>4 DEF StartSolve, ShapeOK, Goto
  <2>3. /\ pc'[c] = "spawn" /\ digest'[c] = binary
        /\ seen' = seen /\ ran' = ran /\ result' = result /\ answer' = answer
        /\ \A d \in Clients \ {c} : pc'[d] = pc[d] /\ digest'[d] = digest[d]
    BY <1>2, <1>4 DEF StartSolve, ShapeOK, Goto
  <2>4. EngineOK(c)'
    BY <1>1, <1>2, <2>3 DEF EngineOK, ShapeOK
  <2>5. ClientOK(c)'
    BY <1>2, <1>3, <2>1, <2>3, <2>4 DEF ClientOK, WriteOK, ReadOK, Writing, Grows
  <2>6. QED
    BY <1>1, <1>3, <2>1, <2>2, <2>3, <2>5, GoOn DEF Unmoved
<1>5. CASE SpawnEngine(c)
  <2>1. UNCHANGED solves
    BY <1>5 DEF SpawnEngine
  <2>2. ShapeOK'
    BY <1>1, <1>2, <1>5 DEF SpawnEngine, ShapeOK, Goto
  <2>3. /\ pc[c] = "spawn" /\ pc'[c] = "engine" /\ ran'[c] = binary
        /\ seen' = seen /\ digest' = digest /\ result' = result /\ answer' = answer
        /\ \A d \in Clients \ {c} : pc'[d] = pc[d] /\ ran'[d] = ran[d]
    BY <1>2, <1>5 DEF SpawnEngine, ShapeOK, Goto
  <2>4. EngineOK(c)'
    BY <1>1, <1>2, <2>3 DEF ClientOK, EngineOK, ShapeOK
  <2>5. ClientOK(c)'
    BY <1>2, <1>3, <2>1, <2>3, <2>4 DEF ClientOK, WriteOK, ReadOK, Writing, Grows
  <2>6. QED
    BY <1>1, <1>3, <2>1, <2>2, <2>3, <2>5, GoOn DEF Unmoved
<1>6. ASSUME NEW status, NEW found, Answer(c, status, found, FALSE), status # "SOLVED",
             UNCHANGED solves
      PROVE  CacheInv'
  BY <1>1, <1>3, <1>6, AnswerStep
<1>7. CASE EngineFails(c) \/ ResponseRefused(c)
  BY <1>6, <1>7 DEF EngineFails, ResponseRefused, Fail
<1>8. ASSUME pc[c] = "engine", binary = digest[c], AcceptedResponse(c)
      PROVE  CacheInv'
  <2>1. PICK r \in Responses(operation, Context(c)) :
          Accepted(r, operation, Context(c)) /\ Returned(c, r)
    BY <1>8 DEF AcceptedResponse
  <2>2. AnswersRequest(r) /\ (r.reached => r.exploitability <= Target)
    <3>1. Context(c) \in {"offline", "owned_simulator"}
      BY DEF Context
    <3>2. operation \in Operations
      BY <1>2 DEF ShapeOK
    <3>3. QED
      BY <2>1, <3>1, <3>2, AcceptedAnswers DEF AnswersRequest
  <2>3. ran[c] = digest[c]
    BY <1>2, <1>8 DEF ClientOK, EngineOK, ShapeOK
  <2>4. PICK x : /\ solves' = Append(solves, x)
                 /\ x.by = x.digest /\ x.answers /\ (x.converged => x.met)
    <3>1. PICK x : x = [digest |-> digest[c], by |-> ran[c], context |-> Context(c),
                        converged |-> r.reached, met |-> r.exploitability <= Target,
                        answers |-> AnswersRequest(r)]
      OBVIOUS
    <3>2. x.by = x.digest
      BY <2>3, <3>1
    <3>3. x.answers
      <4>1. x.answers = AnswersRequest(r)
        BY <3>1, Zenon
      <4>2. QED
        BY <2>2, <4>1, Zenon
    <3>4. x.converged => x.met
      <4>1. x.converged = r.reached /\ x.met = (r.exploitability <= Target)
        BY <3>1, Zenon
      <4>2. QED
        BY <2>2, <4>1, Zenon
    <3>5. solves' = Append(solves, x)
      BY <2>1, <3>1, Zenon DEF Returned
    <3>6. QED
      BY <3>2, <3>3, <3>4, <3>5, Zenon
  <2>5. Grows /\ Len(solves') \in Solved' /\ IsSequence(solves')
    BY <1>1, <2>4, MoreSolves
  <2>6. ShapeOK' /\ StoredOK'
    BY <1>1, <1>2, <2>1, <2>5 DEF Returned, ShapeOK, StoredOK, Goto, Grows
  <2>7. /\ pc'[c] = "solved" /\ result'[c] = Len(solves')
        /\ seen' = seen /\ digest' = digest /\ ran' = ran /\ answer' = answer
        /\ \A d \in Clients \ {c} : pc'[d] = pc[d] /\ result'[d] = result[d]
    BY <1>2, <2>1 DEF Returned, ShapeOK, Goto
  <2>8. ClientOK(c)'
    BY <1>2, <2>5, <2>7 DEF ClientOK, WriteOK, EngineOK, ReadOK, Writing, Grows
  <2>9. QED
    BY <1>1, <2>5, <2>6, <2>7, <2>8, GoOn DEF Unmoved
<1>9. CASE EngineReturns(c)
  BY <1>6, <1>8, <1>9 DEF EngineReturns, Fail
<1>10. CASE Judge(c)
  <2>1. CASE solves[result[c]].converged /\ Goto(c, "put") /\ UNCHANGED <<evaluation, answer>>
    <3>1. UNCHANGED solves /\ pc[c] = "solved"
      BY <1>10 DEF Judge
    <3>2. ShapeOK'
      BY <1>1, <1>2, <2>1, <3>1 DEF evaluation, ShapeOK, Goto
    <3>3. /\ pc'[c] = "put"
          /\ seen' = seen /\ digest' = digest /\ ran' = ran /\ result' = result /\ answer' = answer
          /\ \A d \in Clients \ {c} : pc'[d] = pc[d]
      BY <1>2, <2>1 DEF evaluation, ShapeOK, Goto
    <3>4. result[c] \in Kept
      BY <1>2, <2>1, <3>1 DEF ClientOK, WriteOK, Kept
    <3>5. ClientOK(c)'
      BY <1>2, <1>3, <3>1, <3>3, <3>4 DEF ClientOK, WriteOK, EngineOK, ReadOK, Writing, Grows
    <3>6. QED
      BY <1>1, <1>3, <3>1, <3>2, <3>3, <3>5, GoOn DEF Unmoved
  <2>2. QED
    BY <1>6, <1>10, <2>1 DEF Judge, Fail
<1>11. QED
  BY <1>4, <1>5, <1>7, <1>9, <1>10 DEF Solve

LEMMA PutStep ==
  ASSUME CacheInv, NEW c \in Clients, Put(c)
  PROVE  CacheInv'
<1>1. UNCHANGED <<operation, binary, solves>>
  BY DEF Put, Begin, Upsert, DeleteChildren, InsertChildren, Commit, Rollback, InWrite
<1>2. ClientOK(c) /\ ShapeOK /\ StoredOK
  BY DEF CacheInv
<1>3. /\ Grows /\ Kept' = Kept /\ Solved' = Solved
      /\ (stored' = stored => StoredOK')
  BY <1>1, TheSame
<1>4. ASSUME UNCHANGED InWrite, NEW step, pc' = [pc EXCEPT ![c] = step], writer' = c,
             writer \in {c, NoClient}, step \in Writing,
             pc[c] = "put" \/ pc[c] \in Writing, DOMAIN draft' = AllTables,
             step = "commit" => draft' = [t \in AllTables |-> result[c]]
      PROVE  CacheInv'
  <2>1. ShapeOK'
    BY <1>2, <1>4 DEF InWrite, evaluation, ShapeOK
  <2>2. /\ pc'[c] = step
        /\ seen' = seen /\ digest' = digest /\ ran' = ran /\ result' = result /\ answer' = answer
        /\ stored' = stored
        /\ \A d \in Clients \ {c} : pc'[d] = pc[d]
    BY <1>2, <1>4 DEF InWrite, evaluation, ShapeOK
  <2>3. result[c] \in Kept /\ step # "solved"
    BY <1>2, <1>4 DEF ClientOK, WriteOK, Writing
  <2>4. WriteOK(c)'
    BY <1>3, <1>4, <2>2, <2>3 DEF WriteOK, Grows
  <2>5. ClientOK(c)'
    BY <1>2, <1>3, <1>4, <2>2, <2>4 DEF ClientOK, EngineOK, ReadOK, Writing, Grows
  <2>6. QED
    BY <1>3, <1>4, <2>1, <2>2, <2>5, GoOn DEF Unmoved
<1>5. pc[c] \in Writing => writer = c /\ DOMAIN draft = AllTables
  BY <1>2 DEF ClientOK, WriteOK
<1>6. CASE Begin(c)
  <2>1. DOMAIN stored = AllTables
    BY <1>2 DEF StoredOK
  <2>2. QED
    BY <1>4, <1>6, <2>1 DEF Begin, Goto, Writing
<1>7. CASE Upsert(c)
  <2>1. writer' = c /\ writer = c /\ DOMAIN draft' = AllTables
    BY <1>5, <1>7 DEF Upsert, Writing
  <2>2. QED
    BY <1>4, <1>7, <2>1 DEF Upsert, Goto, Writing
<1>8. CASE DeleteChildren(c)
  <2>1. writer' = c /\ writer = c /\ DOMAIN draft' = AllTables
    BY <1>5, <1>8 DEF DeleteChildren, Writing
  <2>2. QED
    BY <1>4, <1>8, <2>1 DEF DeleteChildren, Goto, Writing
<1>9. CASE InsertChildren(c)
  <2>1. writer' = c /\ writer = c /\ draft' = [t \in AllTables |-> result[c]]
    BY <1>5, <1>9 DEF InsertChildren, Writing
  <2>2. QED
    BY <1>4, <1>9, <2>1 DEF InsertChildren, Goto, Writing
<1>10. CASE Commit(c)
  <2>1. /\ writer = c /\ draft = [t \in AllTables |-> result[c]] /\ result[c] \in Kept
    BY <1>2, <1>10 DEF Commit, ClientOK, WriteOK, Writing
  <2>2. stored' = [t \in AllTables |-> result[c]]
    BY <1>10, <2>1 DEF Commit
  <2>3. StoredOK'
    BY <1>3, <2>1, <2>2, TableFacts DEF StoredOK, Grows
  <2>4. [t \in DOMAIN draft |-> result[c]]["meta"] \in Kept
    BY <2>1, TableFacts
  <2>5. PICK rowsOf : rowsOf = [t \in DOMAIN draft |-> result[c]]
    OBVIOUS
  <2>6. Answer(c, "SOLVED", rowsOf, TRUE)
    BY <1>10, <2>5 DEF Commit
  <2>7. QED
    BY <1>1, <2>1, <2>3, <2>4, <2>5, <2>6, AnswerStep
<1>11. CASE Rollback(c)
  <2>1. StoredOK' /\ (UNCHANGED <<writer, draft>> \/ writer = c)
    BY <1>3, <1>11 DEF Rollback
  <2>2. QED
    BY <1>1, <1>11, <2>1, AnswerStep DEF Rollback, Fail
<1>12. QED
  BY <1>6, <1>7, <1>8, <1>9, <1>10, <1>11 DEF Put

LEMMA CrashStep ==
  ASSUME CacheInv, NEW c \in Clients, Crash(c)
  PROVE  CacheInv'
<1>1. UNCHANGED <<operation, binary, solves, stored>>
  BY DEF Crash
<1>2. StoredOK'
  BY <1>1, TheSame
<1>3. UNCHANGED <<writer, draft>> \/ writer = c
  BY DEF Crash
<1>4. QED
  BY <1>1, <1>2, <1>3, AnswerStep DEF Crash

LEMMA InstallStep ==
  ASSUME CacheInv, Install
  PROVE  CacheInv'
<1>1. binary \in Nat /\ binary' = binary + 1
  BY DEF Install, CacheInv, ShapeOK
<1>2. UNCHANGED <<operation, database, solves, pc, evaluation, answer>>
  BY DEF Install
<1>3. Solved' = Solved
  BY <1>2 DEF Solved, Sound
<1>4. Kept' = Kept
  BY <1>2, <1>3 DEF Kept
<1>5. AllTables' = AllTables
  BY <1>2 DEF AllTables, Tables
<1>6. Grows
  BY <1>1, <1>3, <1>4, <1>5 DEF Grows
<1>7. ShapeOK' /\ StoredOK'
  BY <1>1, <1>2, <1>4, <1>5 DEF CacheInv, ShapeOK, StoredOK, database, evaluation
<1>8. ASSUME NEW c \in Clients PROVE ClientOK(c)'
  BY <1>2, <1>6, OthersKeep DEF Unmoved, database, evaluation
<1>9. QED
  BY <1>7, <1>8 DEF CacheInv

LEMMA CacheStep == CacheInv /\ [Next]_vars => CacheInv'
<1>1. CASE UNCHANGED vars
  <2>1. UNCHANGED <<operation, binary, solves, database, pc, evaluation, answer>>
    BY <1>1 DEF vars
  <2>2. ASSUME CacheInv PROVE CacheInv'
    <3>1. Grows /\ StoredOK' /\ ShapeOK'
      BY <2>1, <2>2, TheSame DEF database, evaluation, CacheInv, ShapeOK
    <3>2. ASSUME NEW c \in Clients PROVE ClientOK(c)'
      BY <2>1, <2>2, <3>1, OthersKeep DEF Unmoved, database, evaluation
    <3>3. QED
      BY <3>1, <3>2 DEF CacheInv
  <2>3. QED
    BY <2>2
<1>2. QED
  BY <1>1, LookupStep, SolveStep, PutStep, CrashStep, InstallStep DEF Next

LEMMA CacheInvariant == OfflineSpec => []CacheInv
<1>1. Spec => []CacheInv
  BY CacheInit, CacheStep, PTL DEF Spec
<1>2. QED
  BY <1>1, OfflineIsCache, PTL

(* An entry is replaced as a whole or not at all, for every number of      *)
(* processes that write, fail and die: gto_oracle/cache.py, put() and      *)
(* put_continuation().                                                     *)
THEOREM OfflineStoredIsWhole == OfflineSpec => []StoredIsWhole
<1>1. CacheInv => StoredIsWhole
  BY TableFacts DEF CacheInv, StoredOK, StoredIsWhole, IsTorn
<1>2. QED
  BY <1>1, CacheInvariant, PTL

(* What is stored or returned was computed by the executable it names for  *)
(* the request and has converged, however often the executable is replaced *)
(* and whatever the engine writes: engine_client.py, solve(), with         *)
(* cache.py and live_gto.py.                                               *)
THEOREM OfflineStoredIsWhatItSays == OfflineSpec => []StoredIsWhatItSays
<1>1. ASSUME CacheInv
      PROVE  StoredIsWhatItSays
  <2>1. ASSUME NEW n \in Kept, n # Empty
        PROVE  /\ solves[n].by = solves[n].digest /\ solves[n].answers
               /\ solves[n].converged /\ solves[n].met
    BY <2>1 DEF Kept, Solved, Sound
  <2>2. stored["meta"] \in Kept
    BY <1>1 DEF CacheInv, StoredOK
  <2>3. \A c \in Clients : answer[c].status = "SOLVED" => answer[c].rows["meta"] \in Kept
    BY <1>1 DEF CacheInv, ClientOK, ReadOK
  <2>4. QED
    BY <2>1, <2>2, <2>3 DEF StoredIsWhatItSays
<1>2. QED
  BY <1>1, CacheInvariant, PTL

-----------------------------------------------------------------------------
(* The runs of the benchmarks.                                             *)

LEMMA OfflineIsRun == OfflineSpec => Run!Spec
<1>1. OfflineInit => Run!Init
  BY DEF OfflineInit
<1>2. [OfflineNext]_<<vars, runVars, part>> => [Run!Next]_(Run!vars)
  BY DEF OfflineNext, runVars, Run!vars, Run!disk, Run!process, Run!progress
<1>3. QED
  BY <1>1, <1>2, PTL DEF OfflineSpec, Run!Spec

\* The module of the runs has its own copies of the library's operators.
LEMMA Copies ==
  /\ \A s : Run!ToSet(s) = ToSet(s)
  /\ \A S : Run!Cardinality(S) = Cardinality(S)
  /\ \A s : Run!FlattenSeq(s) = FlattenSeq(s)
<1>1. \A s : Run!ToSet(s) = ToSet(s)
  BY DEF Run!ToSet, ToSet
<1>2. \A S : Run!Cardinality(S) = Cardinality(S)
  BY DEF Run!Cardinality, Cardinality, Run!IsFiniteSet, IsFiniteSet
<1>3. \A s : Run!FlattenSeq(s) = FlattenSeq(s)
  BY DEF Run!FlattenSeq, FlattenSeq
<1>4. QED
  BY <1>1, <1>2, <1>3

LEMMA ConcatFacts ==
  ASSUME NEW s, IsSequence(s), NEW t, IsSequence(t)
  PROVE  /\ IsSequence(s \o t) /\ Len(s) \in Nat /\ Len(t) \in Nat
         /\ DOMAIN s = 1..Len(s) /\ DOMAIN t = 1..Len(t)
         /\ Len(s \o t) = Len(s) + Len(t) /\ DOMAIN (s \o t) = 1 .. Len(s) + Len(t)
         /\ \A i \in 1..Len(s) : (s \o t)[i] = s[i]
         /\ \A i \in 1..Len(t) : (s \o t)[Len(s) + i] = t[i]
<1>1. PICK S : s \in Seq(S)
  BY DEF IsSequence
<1>2. PICK T : t \in Seq(T)
  BY DEF IsSequence
<1> DEFINE U == S \cup T
<1>3. s \in Seq(U) /\ t \in Seq(U)
  <2>1. \A i \in 1..Len(s) : s[i] \in S
    BY <1>1, ElementOfSeq
  <2>2. \A i \in 1..Len(t) : t[i] \in T
    BY <1>2, ElementOfSeq
  <2>3. QED
    BY <1>1, <1>2, <2>1, <2>2
<1> HIDE DEF U
<1>4. Len(s) \in Nat /\ Len(t) \in Nat /\ DOMAIN s = 1..Len(s) /\ DOMAIN t = 1..Len(t)
  BY <1>1, <1>2
<1>5. /\ s \o t \in Seq(U) /\ Len(s \o t) = Len(s) + Len(t)
      /\ \A i \in 1 .. Len(s) + Len(t) :
           (s \o t)[i] = IF i <= Len(s) THEN s[i] ELSE t[i - Len(s)]
  BY <1>3, ConcatProperties
<1>6. ASSUME NEW i \in 1..Len(s)
      PROVE  (s \o t)[i] = s[i]
  BY <1>4, <1>5
<1>7. ASSUME NEW i \in 1..Len(t)
      PROVE  (s \o t)[Len(s) + i] = t[i]
  <2>1. Len(s) + i \in 1 .. Len(s) + Len(t) /\ ~(Len(s) + i <= Len(s)) /\ (Len(s) + i) - Len(s) = i
    BY <1>4
  <2>2. QED
    BY <1>5, <2>1
<1>8. DOMAIN (s \o t) = 1 .. Len(s) + Len(t)
  BY <1>5
<1>9. QED
  BY <1>4, <1>5, <1>6, <1>7, <1>8 DEF IsSequence

\* What is in a sequence.
LEMMA ToSetFacts ==
  ASSUME NEW s, IsSequence(s)
  PROVE  /\ \A x : ToSet(Append(s, x)) = ToSet(s) \cup {x}
         /\ \A t : IsSequence(t) => ToSet(s \o t) = ToSet(s) \cup ToSet(t)
<1>1. ASSUME NEW x
      PROVE  ToSet(Append(s, x)) = ToSet(s) \cup {x}
  <2>1. Len(s) + 1 \in 1 .. Len(s) + 1 /\ 1..Len(s) \subseteq 1 .. Len(s) + 1
        /\ \A i \in 1 .. Len(s) + 1 : i \in 1..Len(s) \/ i = Len(s) + 1
    BY AppendFacts
  <2>2. QED
    BY <2>1, AppendFacts DEF ToSet
<1>2. ASSUME NEW t, IsSequence(t)
      PROVE  ToSet(s \o t) = ToSet(s) \cup ToSet(t)
  <2>1. Len(s) \in Nat /\ Len(t) \in Nat
    BY <1>2, ConcatFacts
  <2>2. /\ 1..Len(s) \subseteq 1 .. Len(s) + Len(t)
        /\ \A i \in 1..Len(t) : Len(s) + i \in 1 .. Len(s) + Len(t)
        /\ \A i \in 1 .. Len(s) + Len(t) : i \in 1..Len(s) \/ \E j \in 1..Len(t) : i = Len(s) + j
    <3>1. ASSUME NEW i \in 1 .. Len(s) + Len(t), i \notin 1..Len(s)
          PROVE  \E j \in 1..Len(t) : i = Len(s) + j
      <4>1. i - Len(s) \in 1..Len(t) /\ i = Len(s) + (i - Len(s))
        BY <2>1, <3>1
      <4>2. QED
        BY <4>1
    <3>2. QED
      BY <2>1, <3>1
  <2> DEFINE u == s \o t
  <2>3. /\ DOMAIN s = 1..Len(s) /\ DOMAIN t = 1..Len(t) /\ DOMAIN u = 1 .. Len(s) + Len(t)
        /\ \A i \in 1..Len(s) : u[i] = s[i]
        /\ \A i \in 1..Len(t) : u[Len(s) + i] = t[i]
    BY <1>2, ConcatFacts
  <2> HIDE DEF u
  <2>4. ASSUME NEW x \in ToSet(u) PROVE x \in ToSet(s) \cup ToSet(t)
    <3>1. PICK i \in 1 .. Len(s) + Len(t) : x = u[i]
      BY <2>3 DEF ToSet
    <3>2. QED
      BY <2>2, <2>3, <3>1 DEF ToSet
  <2>5. \A i \in 1..Len(s) : s[i] \in ToSet(u)
    BY <2>2, <2>3 DEF ToSet
  <2>6. \A i \in 1..Len(t) : t[i] \in ToSet(u)
    BY <2>2, <2>3 DEF ToSet
  <2>7. ToSet(s) \subseteq ToSet(u) /\ ToSet(t) \subseteq ToSet(u)
    BY <2>3, <2>5, <2>6 DEF ToSet
  <2>8. QED
    BY <2>4, <2>7 DEF u
<1>3. QED
  BY <1>1, <1>2

LEMMA RowFacts ==
  ASSUME NEW i, NEW completion
  PROVE  /\ Run!Scored(i, completion).model = Models[model]
         /\ Run!Scored(i, completion).decision = i
         /\ Run!Scored(i, completion).completion = completion
<1>1. ASSUME NEW status
      PROVE  /\ Run!Row(i, status, completion).model = Models[model]
             /\ Run!Row(i, status, completion).decision = i
             /\ Run!Row(i, status, completion).completion = completion
  BY DEF Run!Row
<1>2. \E status : Run!Scored(i, completion) = Run!Row(i, status, completion)
  BY Zenon DEF Run!Scored, Run!ScoredDecision, Run!ScoredCase
<1>3. QED
  BY <1>1, <1>2

Running == {"row", "put", "sync", "next"}

\* Where a run is.
PlaceOK ==
  /\ IsSequence(rows) /\ IsSequence(reports)
  /\ place = "stopped" => rows = <<>>
  /\ at \in Nat
  /\ place \in {"row", "put", "sync"} => 1 <= at /\ at <= Decisions

ErrorRow(row) ==
  /\ row.completion = Run!NoCompletion /\ row.model = Models[model]
  /\ row.status \in {"CACHE_MISS", "PROVIDER_ERROR", "ABORTED_PROVIDER_ERRORS"}

LEMMA AbortedFacts ==
  ASSUME NEW from \in 1 .. Decisions + 1
  PROVE  /\ IsSequence(Run!Aborted(from))
         /\ \A row \in ToSet(Run!Aborted(from)) : ErrorRow(row)
<1> DEFINE e(k) == Run!Row(from + k - 1, "ABORTED_PROVIDER_ERRORS", Run!NoCompletion)
           n == Decisions + 1 - from
           S == {e(k) : k \in 1..n}
<1>1. n \in Nat
  BY RunAssumption
<1>2. Run!Aborted(from) = [k \in 1..n |-> e(k)]
  BY DEF Run!Aborted
<1>3. \A k \in 1..n : ErrorRow(e(k))
  BY DEF Run!Row, ErrorRow
<1> HIDE DEF e, n
<1>4. [k \in 1..n |-> e(k)] \in Seq(S)
  BY <1>1
<1>5. ToSet(Run!Aborted(from)) = {e(k) : k \in 1..n}
  BY <1>2 DEF ToSet
<1>6. QED
  BY <1>2, <1>3, <1>4, <1>5 DEF IsSequence

LEMMA OneFacts ==
  ASSUME NEW x
  PROVE  IsSequence(<<x>>) /\ ToSet(<<x>>) = {x} /\ Len(<<x>>) = 1 /\ <<x>>[1] = x
<1>1. <<x>> \in Seq({x})
  OBVIOUS
<1>2. DOMAIN <<x>> = {1} /\ <<x>>[1] = x /\ Len(<<x>>) = 1
  OBVIOUS
<1>3. QED
  BY <1>1, <1>2 DEF IsSequence, ToSet

\* A step that goes on to a decision, or past the last.
LEMMA GotoFacts ==
  ASSUME NEW i \in Nat, i >= 1, Run!Goto(i)
  PROVE  /\ at' = i /\ place' \in {"row", "next"}
         /\ place' = "row" => 1 <= at' /\ at' <= Decisions
BY RunAssumption DEF Run!Goto

\* The rows that an error adds have no completion.
LEMMA ErrorFacts ==
  ASSUME PlaceOK, place \in {"row", "put"}, Run!ProviderError
  PROVE  /\ place' \in {"row", "next"} /\ at' \in Nat
         /\ place' = "row" => 1 <= at' /\ at' <= Decisions
         /\ IsSequence(rows')
         /\ UNCHANGED <<calls, entries, model, snapshot, pinned>>
         /\ \A row \in ToSet(rows') : row \in ToSet(rows) \/ ErrorRow(row)
<1> DEFINE error == Run!Row(at, "PROVIDER_ERROR", Run!NoCompletion)
<1>1. ErrorRow(error)
  BY DEF Run!Row, ErrorRow
<1> HIDE DEF error
<1>2. IsSequence(rows) /\ at \in Nat /\ at >= 1 /\ at <= Decisions /\ at + 1 \in 1 .. Decisions + 1
  BY RunAssumption DEF PlaceOK
<1>3. UNCHANGED <<calls, entries, model, snapshot, pinned>>
  BY DEF Run!ProviderError
<1>4. CASE rows' = rows \o <<error>> \o Run!Aborted(at + 1) /\ Run!Goto(Decisions + 1)
  <2> DEFINE aborted == Run!Aborted(at + 1)
             some == rows \o <<error>>
  <2>1. IsSequence(aborted) /\ \A row \in ToSet(aborted) : ErrorRow(row)
    BY <1>2, AbortedFacts
  <2>2. rows' = some \o aborted
    BY <1>4
  <2> HIDE DEF aborted
  <2>3. IsSequence(some) /\ ToSet(some) = ToSet(rows) \cup {error}
    <3>1. PICK one : one = <<error>>
      OBVIOUS
    <3>2. IsSequence(one) /\ ToSet(one) = {error}
      BY <3>1, OneFacts
    <3>3. some = rows \o one
      BY <3>1
    <3> HIDE DEF some
    <3>4. IsSequence(some)
      BY <1>2, <3>2, <3>3, ConcatFacts
    <3>5. ToSet(some) = ToSet(rows) \cup ToSet(one)
      BY <1>2, <3>2, <3>3, ToSetFacts
    <3>6. QED
      BY <3>2, <3>4, <3>5
  <2> HIDE DEF some
  <2>4. IsSequence(rows') /\ ToSet(rows') = ToSet(some) \cup ToSet(aborted)
    BY <2>1, <2>2, <2>3, ToSetFacts, ConcatFacts
  <2>5. Decisions + 1 \in Nat /\ Decisions + 1 >= 1
    BY RunAssumption
  <2>6. QED
    BY <1>1, <1>3, <1>4, <2>1, <2>3, <2>4, <2>5, GotoFacts
<1>5. CASE rows' = Append(rows, error) /\ Run!Goto(at + 1)
  <2>1. IsSequence(rows') /\ ToSet(rows') = ToSet(rows) \cup {error}
    BY <1>2, <1>5, AppendFacts, ToSetFacts
  <2>2. at + 1 \in Nat /\ at + 1 >= 1
    BY <1>2
  <2>3. QED
    BY <1>1, <1>3, <1>5, <2>1, <2>2, GotoFacts
<1>6. QED
  BY <1>4, <1>5 DEF Run!ProviderError, error

\* So does a row that is added to the report.
LEMMA RowStep ==
  ASSUME PlaceOK, place \in {"row", "put", "sync"}, NEW row, rows' = Append(rows, row), Run!Goto(at + 1)
  PROVE  /\ place' \in {"row", "next"} /\ at' \in Nat
         /\ place' = "row" => 1 <= at' /\ at' <= Decisions
         /\ IsSequence(rows') /\ ToSet(rows') = ToSet(rows) \cup {row}
<1>1. at + 1 \in Nat /\ at + 1 >= 1
  BY DEF PlaceOK
<1>2. QED
  BY <1>1, GotoFacts, AppendFacts, ToSetFacts DEF PlaceOK

LEMMA EmptyFacts == IsSequence(<<>>) /\ ToSet(<<>>) = {}
<1>1. <<>> \in Seq({}) /\ DOMAIN <<>> = {}
  OBVIOUS
<1>2. QED
  BY <1>1 DEF IsSequence, ToSet

LEMMA StopFacts ==
  ASSUME PlaceOK, Run!Stop, IsSequence(reports')
  PROVE  PlaceOK'
BY EmptyFacts DEF Run!Stop, PlaceOK

LEMMA PlaceStep == PlaceOK /\ [Run!Next]_(Run!vars) => PlaceOK'
<1> SUFFICES ASSUME PlaceOK, [Run!Next]_(Run!vars) PROVE PlaceOK'
  OBVIOUS
<1>1. CASE UNCHANGED Run!vars
  BY <1>1 DEF Run!vars, Run!process, Run!progress, PlaceOK
<1>2. CASE Run!Launch
  BY <1>2 DEF Run!Launch, Run!progress, PlaceOK
<1>3. CASE Run!StartModel
  <2>1. CASE Run!Stop
    BY <1>3, <2>1, StopFacts DEF Run!StartModel, PlaceOK
  <2>2. CASE Run!Goto(1) /\ UNCHANGED rows
    BY <1>3, <2>2, GotoFacts DEF Run!StartModel, PlaceOK
  <2>3. QED
    BY <1>3, <2>1, <2>2 DEF Run!StartModel
<1>4. CASE Run!StartCases
  <2>1. Run!Goto(1) /\ UNCHANGED <<rows, reports>>
    BY <1>4 DEF Run!StartCases
  <2>2. QED
    BY <2>1, GotoFacts DEF PlaceOK
<1>5. CASE Run!ScoreCached
  BY <1>5, RowStep DEF Run!ScoreCached, PlaceOK
<1>6. CASE Run!CacheMiss
  BY <1>6, RowStep DEF Run!CacheMiss, PlaceOK
<1>7. CASE Run!AskFails
  BY <1>7, ErrorFacts DEF Run!AskFails, PlaceOK
<1>8. ASSUME NEW completion \in Completions, Run!Ask(completion) \/ Run!AskCase(completion)
      PROVE  PlaceOK'
  <2>1. CASE Run!Answers(completion) /\ place = "row"
    BY <2>1 DEF Run!Answers, PlaceOK
  <2>2. CASE Run!Stop /\ UNCHANGED reports
    BY <2>2, StopFacts DEF PlaceOK
  <2>3. QED
    BY <1>8, <2>1, <2>2 DEF Run!Ask, Run!AskCase
<1>9. CASE Run!Write
  BY <1>9 DEF Run!Write, Run!progress, PlaceOK
<1>10. CASE Run!Sync
  BY <1>10, RowStep DEF Run!Sync, Run!PutReturns, PlaceOK
<1>11. CASE Run!PutCase
  BY <1>11, RowStep DEF Run!PutCase, Run!PutReturns, PlaceOK
<1>12. CASE Run!WriteFails
  BY <1>12, ErrorFacts DEF Run!WriteFails, PlaceOK
<1>13. CASE Run!NextModel
  BY <1>13 DEF Run!NextModel, PlaceOK
<1>14. ASSUME NEW report, reports' = Append(reports, report)
       PROVE  IsSequence(reports')
  BY <1>14, AppendFacts DEF PlaceOK
<1>15. CASE Run!Report
  BY <1>14, <1>15, StopFacts DEF Run!Report
<1>16. CASE Run!Summarize
  <2>1. IsSequence(reports')
    BY <1>14, <1>16 DEF Run!Summarize
  <2>2. CASE rows' = <<>> /\ place' = "model" /\ UNCHANGED at
    BY <2>1, <2>2, EmptyFacts DEF PlaceOK
  <2>3. CASE Run!Stop
    BY <2>1, <2>3, StopFacts
  <2>4. QED
    BY <1>16, <2>2, <2>3 DEF Run!Summarize
<1>17. CASE Run!Interrupt \/ Run!PowerCut
  BY <1>17, StopFacts DEF Run!Interrupt, Run!PowerCut, PlaceOK
<1>18. QED
  BY <1>1, <1>2, <1>3, <1>4, <1>5, <1>6, <1>7, <1>8, <1>9, <1>10, <1>11, <1>12, <1>13, <1>15, <1>16,
     <1>17 DEF Run!Next

(* Until its rows are reported, a run knows the version of every model it  *)
(* has taken an answer from, and every answer is of that version.          *)
KeyOf(row) == <<row.decision, row.model>>
HasCompletion(row) == row.completion # Run!NoCompletion
OneVersion(rs) ==
  \A a, b \in rs : HasCompletion(a) /\ HasCompletion(b) /\ a.model = b.model
                     => a.completion.version = b.completion.version
KnownVersions ==
  \A row \in ToSet(rows) : HasCompletion(row) =>
    /\ row.decision \in 1..Decisions /\ KeyOf(row) \in DOMAIN entries
    /\ entries[KeyOf(row)].version = row.completion.version
PinnedVersion ==
  /\ place \in Running =>
       /\ \A i \in 1..Decisions : Run!Key(i) \in DOMAIN entries =>
            entries[Run!Key(i)].version = pinned /\ pinned # Run!Blank
       /\ \A i \in DOMAIN snapshot :
            /\ i \in 1..Decisions /\ Run!Key(i) \in DOMAIN entries
            /\ snapshot[i].version = pinned
  /\ place \in {"put", "sync"} => asked.version = pinned /\ pinned # Run!Blank
VersionOK ==
  tool = "oracle" =>
    /\ KnownVersions /\ PinnedVersion
    /\ OneVersion(ToSet(rows))
    /\ \A report \in ToSet(reports) : OneVersion(ToSet(report.rows))

\* Rows without a completion change nothing.
LEMMA SilentRows ==
  ASSUME VersionOK, tool = "oracle", tool' = tool, UNCHANGED <<entries, reports>>, PinnedVersion',
         \A row \in ToSet(rows') : row \in ToSet(rows) \/ row.completion = Run!NoCompletion
  PROVE  VersionOK'
<1>1. KnownVersions' /\ OneVersion(ToSet(rows))'
  BY DEF VersionOK, KnownVersions, OneVersion, HasCompletion, KeyOf
<1>2. \A report \in ToSet(reports') : OneVersion(ToSet(report.rows))'
  BY DEF VersionOK, OneVersion, HasCompletion
<1>3. QED
  BY <1>1, <1>2 DEF VersionOK

\* A row of the model that is being run, of the version that is pinned.
LEMMA AnswerRow ==
  ASSUME VersionOK, tool = "oracle", tool' = tool, UNCHANGED <<model, reports, pinned>>, PinnedVersion',
         place \in Running, NEW row, ToSet(rows') = ToSet(rows) \cup {row},
         DOMAIN entries \subseteq DOMAIN entries',
         \A k \in DOMAIN entries : entries'[k].version = entries[k].version,
         row.model = Models[model], row.decision \in 1..Decisions,
         KeyOf(row) \in DOMAIN entries', entries'[KeyOf(row)].version = pinned,
         row.completion.version = pinned
  PROVE  VersionOK'
<1>1. KnownVersions'
  BY DEF VersionOK, KnownVersions, HasCompletion, KeyOf
<1>2. ASSUME NEW a \in ToSet(rows), HasCompletion(a), a.model = Models[model]
      PROVE  a.completion.version = pinned
  <2>1. /\ a.decision \in 1..Decisions /\ KeyOf(a) \in DOMAIN entries
        /\ entries[KeyOf(a)].version = a.completion.version
    BY <1>2 DEF VersionOK, KnownVersions
  <2>2. KeyOf(a) = Run!Key(a.decision)
    BY <1>2 DEF KeyOf, Run!Key
  <2>3. QED
    BY <2>1, <2>2 DEF VersionOK, PinnedVersion
<1>3. OneVersion(ToSet(rows))'
  BY <1>2 DEF VersionOK, OneVersion, HasCompletion
<1>4. \A report \in ToSet(reports') : OneVersion(ToSet(report.rows))'
  BY DEF VersionOK, OneVersion, HasCompletion
<1>5. QED
  BY <1>1, <1>3, <1>4 DEF VersionOK

\* A run that ends, with its report or without one.
LEMMA StopVersions ==
  ASSUME VersionOK, tool' = tool, Run!Stop,
         \A report \in ToSet(reports') : report \in ToSet(reports) \/ report.rows = rows
  PROVE  VersionOK'
<1> SUFFICES ASSUME tool = "oracle" PROVE VersionOK'
  BY DEF VersionOK
<1>1. PinnedVersion'
  BY DEF Run!Stop, PinnedVersion, Running
<1>2. KnownVersions' /\ OneVersion(ToSet(rows))'
  BY EmptyFacts DEF Run!Stop, KnownVersions, OneVersion
<1>3. \A report \in ToSet(reports') : OneVersion(ToSet(report.rows))'
  BY DEF VersionOK, OneVersion, HasCompletion
<1>4. QED
  BY <1>1, <1>2, <1>3 DEF VersionOK

\* The completions a model starts from are all of one version.
LEMMA CachedFacts ==
  ASSUME ~(Run!Blank \in Run!CachedVersions \/ Cardinality(Run!CachedVersions) > 1),
         NEW v, v = IF Run!CachedVersions = {} THEN Run!Blank
                    ELSE CHOOSE w \in Run!CachedVersions : TRUE
  PROVE  /\ DOMAIN Run!Cached = {i \in 1..Decisions : Run!Key(i) \in DOMAIN entries}
         /\ \A i \in DOMAIN Run!Cached : /\ Run!Cached[i] = entries[Run!Key(i)]
                                           /\ entries[Run!Key(i)].version = v /\ v # Run!Blank
<1> DEFINE C == Run!Cached
           V == Run!CachedVersions
<1>1. /\ DOMAIN C = {i \in 1..Decisions : Run!Key(i) \in DOMAIN entries}
      /\ \A i \in DOMAIN C : C[i] = entries[Run!Key(i)]
  BY DEF Run!Cached
<1>2. V = {C[i].version : i \in DOMAIN C}
  BY DEF Run!CachedVersions
<1>3. ~(Run!Blank \in V \/ Cardinality(V) > 1)
  OBVIOUS
<1>4. v = IF V = {} THEN Run!Blank ELSE CHOOSE w \in V : TRUE
  OBVIOUS
<1> HIDE DEF C, V
<1>5. IsFiniteSet(V)
  <2>1. IsFiniteSet(1..Decisions)
    BY RunAssumption, FS_Interval
  <2>2. IsFiniteSet(DOMAIN C)
    <3>1. DOMAIN C \in SUBSET (1..Decisions)
      BY <1>1
    <3>2. QED
      BY <2>1, <3>1, FS_Subset
  <2>3. [i \in DOMAIN C |-> C[i].version] \in Surjection(DOMAIN C, V)
    BY <1>2 DEF Surjection
  <2>4. QED
    BY <2>2, <2>3, FS_Surjection
<1>6. ASSUME NEW a \in V, NEW b \in V
      PROVE  a = b
  <2>1. {a, b} \in SUBSET V
    OBVIOUS
  <2>2. Cardinality({a, b}) <= Cardinality(V) /\ IsFiniteSet({a, b})
    BY <1>5, <2>1, FS_Subset
  <2>3. Cardinality(V) \in Nat /\ Cardinality({a, b}) \in Nat
    BY <1>5, <2>2, FS_CardinalityType
  <2>4. Cardinality({a} \cup {b}) = IF b \in {a} THEN Cardinality({a}) ELSE Cardinality({a}) + 1
    BY FS_AddElement, FS_Singleton
  <2>5. Cardinality({a}) = 1 /\ {a} \cup {b} = {a, b}
    BY FS_Singleton
  <2>6. QED
    BY <1>3, <2>2, <2>3, <2>4, <2>5
<1>7. ASSUME NEW i \in DOMAIN C
      PROVE  C[i].version = v /\ v # Run!Blank
  <2>1. C[i].version \in V /\ V # {}
    BY <1>2
  <2>2. v \in V
    BY <1>4, <2>1
  <2>3. QED
    BY <1>3, <1>6, <2>1, <2>2
<1>8. QED
  BY <1>1, <1>7 DEF C

LEMMA VersionStep == PlaceOK /\ PlaceOK' /\ VersionOK /\ [Run!Next]_(Run!vars) => VersionOK'
<1> SUFFICES ASSUME PlaceOK, PlaceOK', VersionOK, [Run!Next]_(Run!vars), tool = "oracle", tool' = tool
             PROVE  VersionOK'
  <2>1. tool' = tool \/ ~[Run!Next]_(Run!vars)
    BY DEF Run!Next, Run!vars, Run!Launch, Run!StartModel, Run!StartCases, Run!ScoreCached,
           Run!CacheMiss, Run!AskFails, Run!Ask, Run!AskCase, Run!Answers, Run!Write, Run!Sync,
           Run!PutReturns, Run!PutCase, Run!WriteFails, Run!NextModel, Run!Report, Run!Summarize,
           Run!Interrupt, Run!PowerCut
  <2>2. QED
    BY <2>1 DEF VersionOK
<1>1. KnownVersions /\ PinnedVersion
  BY DEF VersionOK
<1>2. CASE UNCHANGED Run!vars
  <2>1. UNCHANGED <<place, entries, model, snapshot, pinned, asked, rows, reports>>
    BY <1>2 DEF Run!vars, Run!process, Run!progress
  <2>2. PinnedVersion'
    BY <1>1, <2>1 DEF PinnedVersion, Run!Key
  <2>3. QED
    BY <2>1, <2>2, SilentRows
<1>3. CASE Run!Launch
  <2>1. place' = "model" /\ rows' = <<>> /\ UNCHANGED reports
    BY <1>3 DEF Run!Launch, Run!progress, PlaceOK
  <2>2. PinnedVersion' /\ KnownVersions' /\ OneVersion(ToSet(rows))'
    BY <2>1, EmptyFacts DEF PinnedVersion, KnownVersions, OneVersion, Running
  <2>3. QED
    BY <2>1, <2>2 DEF VersionOK, OneVersion, HasCompletion
<1>4. CASE Run!StartModel
  <2>1. CASE Run!Stop
    BY <1>4, <2>1, StopVersions DEF Run!StartModel
  <2>2. CASE ~Run!Stop
    <3>1. /\ ~(Run!Blank \in Run!CachedVersions \/ Cardinality(Run!CachedVersions) > 1)
          /\ snapshot' = Run!Cached
          /\ pinned' = IF Run!CachedVersions = {} THEN Run!Blank
                       ELSE CHOOSE v \in Run!CachedVersions : TRUE
          /\ Run!Goto(1)
          /\ UNCHANGED <<entries, model, rows, asked, reports>>
      BY <1>4, <2>2, Copies DEF Run!StartModel
    <3>2. place' \in {"row", "next"}
      BY <3>1 DEF Run!Goto
    <3>3. PICK v : v = pinned'
      OBVIOUS
    <3>4. /\ DOMAIN Run!Cached = {i \in 1..Decisions : Run!Key(i) \in DOMAIN entries}
          /\ \A i \in DOMAIN Run!Cached : /\ Run!Cached[i] = entries[Run!Key(i)]
                                            /\ entries[Run!Key(i)].version = v /\ v # Run!Blank
      BY <3>1, <3>3, CachedFacts
    <3>5. \A i : Run!Key(i)' = Run!Key(i)
      BY <3>1 DEF Run!Key
    <3>6. PinnedVersion'
      BY <3>1, <3>2, <3>3, <3>4, <3>5 DEF PinnedVersion
    <3>7. QED
      BY <3>1, <3>6, SilentRows
  <2>3. QED
    BY <2>1, <2>2
<1>5. CASE Run!ScoreCached
  <2> DEFINE scored == Run!Scored(at, snapshot[at])
  <2>1. /\ place = "row" /\ at \in DOMAIN snapshot /\ rows' = Append(rows, scored) /\ Run!Goto(at + 1)
        /\ UNCHANGED <<entries, model, snapshot, pinned, asked, reports>>
    BY <1>5 DEF Run!ScoreCached, Run!IsCached
  <2>2. /\ scored.model = Models[model] /\ scored.decision = at /\ scored.completion = snapshot[at]
    BY RowFacts
  <2> HIDE DEF scored
  <2>3. place' \in {"row", "next"} /\ ToSet(rows') = ToSet(rows) \cup {scored}
    BY <2>1, RowStep
  <2>4. PinnedVersion'
    BY <1>1, <2>1, <2>3 DEF PinnedVersion, Running, Run!Key
  <2>5. /\ at \in 1..Decisions /\ Run!Key(at) \in DOMAIN entries
        /\ snapshot[at].version = pinned /\ entries[Run!Key(at)].version = pinned
    BY <1>1, <2>1 DEF PinnedVersion, Running
  <2>6. KeyOf(scored) = Run!Key(at)
    BY <2>2 DEF KeyOf, Run!Key
  <2>7. QED
    BY <2>1, <2>2, <2>3, <2>4, <2>5, <2>6, AnswerRow DEF Running
<1>6. CASE Run!CacheMiss
  <2> DEFINE missed == Run!Row(at, "CACHE_MISS", Run!NoCompletion)
  <2>1. /\ place = "row" /\ rows' = Append(rows, missed) /\ Run!Goto(at + 1)
        /\ UNCHANGED <<entries, model, snapshot, pinned, asked, reports>>
    BY <1>6 DEF Run!CacheMiss
  <2>2. missed.completion = Run!NoCompletion
    BY DEF Run!Row
  <2> HIDE DEF missed
  <2>3. place' \in {"row", "next"} /\ ToSet(rows') = ToSet(rows) \cup {missed}
    BY <2>1, RowStep
  <2>4. PinnedVersion'
    BY <1>1, <2>1, <2>3 DEF PinnedVersion, Running, Run!Key
  <2>5. QED
    BY <2>1, <2>2, <2>3, <2>4, SilentRows
<1>7. ASSUME Run!ProviderError, place \in {"row", "put"}, UNCHANGED reports
      PROVE  VersionOK'
  <2>1. /\ place' \in {"row", "next"}
        /\ UNCHANGED <<calls, entries, model, snapshot, pinned>>
        /\ \A row \in ToSet(rows') : row \in ToSet(rows) \/ row.completion = Run!NoCompletion
    BY <1>7, ErrorFacts DEF ErrorRow
  <2>2. PinnedVersion'
    BY <1>1, <1>7, <2>1 DEF PinnedVersion, Running, Run!Key
  <2>3. QED
    BY <1>7, <2>1, <2>2, SilentRows
<1>8. CASE Run!AskFails
  BY <1>7, <1>8 DEF Run!AskFails
<1>9. ASSUME NEW completion \in Completions, Run!Ask(completion) \/ Run!AskCase(completion)
      PROVE  VersionOK'
  <2>1. Run!Ask(completion)
    BY <1>9 DEF Run!AskCase
  <2>2. CASE Run!Stop
    BY <2>1, <2>2, StopVersions DEF Run!Ask, Run!Answers
  <2>3. CASE ~Run!Stop
    <3>1. /\ completion.version # Run!Blank /\ pinned \in {Run!Blank, completion.version}
          /\ asked' = completion /\ pinned' = completion.version
          /\ place = "row" /\ place' = "put"
          /\ UNCHANGED <<entries, model, snapshot, rows, reports>>
      BY <2>1, <2>3 DEF Run!Ask, Run!Answers
    <3>2. PinnedVersion'
      BY <1>1, <3>1 DEF PinnedVersion, Running, Run!Key
    <3>3. QED
      BY <3>1, <3>2, SilentRows
  <2>4. QED
    BY <2>2, <2>3
<1>10. CASE Run!Write
  <2>1. /\ place = "put" /\ place' = "sync"
        /\ UNCHANGED <<entries, model, snapshot, pinned, asked, rows, reports>>
    BY <1>10 DEF Run!Write, Run!progress
  <2>2. PinnedVersion'
    BY <1>1, <2>1 DEF PinnedVersion, Running, Run!Key
  <2>3. QED
    BY <2>1, <2>2, SilentRows
<1>11. CASE Run!Sync
  <2> DEFINE scored == Run!Scored(at, asked)
  <2>1. /\ place = "sync" /\ rows' = Append(rows, scored) /\ Run!Goto(at + 1)
        /\ entries' = Run!Merge(entries, Run!Key(at), asked)
        /\ UNCHANGED <<model, snapshot, pinned, reports>>
    BY <1>11 DEF Run!Sync, Run!PutReturns
  <2>2. /\ scored.model = Models[model] /\ scored.decision = at /\ scored.completion = asked
    BY RowFacts
  <2> HIDE DEF scored
  <2>3. place' \in {"row", "next"} /\ ToSet(rows') = ToSet(rows) \cup {scored}
    BY <2>1, RowStep
  <2>4. at \in 1..Decisions /\ asked.version = pinned /\ pinned # Run!Blank
    BY <1>1, <2>1, RunAssumption DEF PinnedVersion, PlaceOK
  <2>5. /\ DOMAIN entries' = DOMAIN entries \cup {Run!Key(at)}
        /\ entries'[Run!Key(at)] = asked
        /\ \A k \in DOMAIN entries : k # Run!Key(at) => entries'[k] = entries[k]
    BY <2>1 DEF Run!Merge
  <2>6. \A k \in DOMAIN entries : entries'[k].version = entries[k].version
    BY <1>1, <2>1, <2>4, <2>5 DEF PinnedVersion, Running
  <2>7. \A i : Run!Key(i)' = Run!Key(i)
    BY <2>1 DEF Run!Key
  <2>8. \A i \in 1..Decisions : Run!Key(i) \in DOMAIN entries' => entries'[Run!Key(i)].version = pinned
    BY <1>1, <2>1, <2>4, <2>5 DEF PinnedVersion, Running
  <2>9. PinnedVersion'
    BY <1>1, <2>1, <2>3, <2>4, <2>5, <2>7, <2>8 DEF PinnedVersion, Running
  <2>10. KeyOf(scored) = Run!Key(at)
    BY <2>2 DEF KeyOf, Run!Key
  <2>11. QED
    BY <2>1, <2>2, <2>3, <2>4, <2>5, <2>6, <2>9, <2>10, AnswerRow DEF Running
<1>12. CASE Run!WriteFails
  BY <1>7, <1>12 DEF Run!WriteFails
<1>13. CASE Run!NextModel
  <2>1. place' = "model" /\ UNCHANGED <<entries, rows, reports>>
    BY <1>13 DEF Run!NextModel
  <2>2. PinnedVersion'
    BY <2>1 DEF PinnedVersion, Running
  <2>3. QED
    BY <2>1, <2>2, SilentRows
<1>14. CASE Run!Report
  <2>1. PICK report : reports' = Append(reports, report) /\ report.rows = rows
    BY <1>14 DEF Run!Report
  <2>2. ToSet(reports') = ToSet(reports) \cup {report}
    BY <2>1, ToSetFacts DEF PlaceOK
  <2>3. QED
    BY <1>14, <2>1, <2>2, StopVersions DEF Run!Report
<1>15. CASE Run!Interrupt \/ Run!PowerCut
  BY <1>15, StopVersions DEF Run!Interrupt, Run!PowerCut
<1>16. QED
  BY <1>2, <1>3, <1>4, <1>5, <1>6, <1>8, <1>9, <1>10, <1>11, <1>12, <1>13, <1>14, <1>15
  DEF Run!Next, Run!StartCases, Run!PutCase, Run!Summarize

LEMMA RunInit == Run!Init => PlaceOK /\ VersionOK
<1> SUFFICES ASSUME Run!Init PROVE PlaceOK /\ VersionOK
  OBVIOUS
<1>1. PlaceOK
  BY EmptyFacts DEF Run!Init, PlaceOK
<1>2. VersionOK
  BY EmptyFacts DEF Run!Init, VersionOK, KnownVersions, PinnedVersion, OneVersion, Running
<1>3. QED
  BY <1>1, <1>2

LEMMA RunInvariant == OfflineSpec => [](PlaceOK /\ VersionOK)
<1>1. Run!Spec => []PlaceOK
  BY RunInit, PlaceStep, PTL DEF Run!Spec
<1>2. Run!Spec => [](PlaceOK /\ VersionOK)
  BY <1>1, RunInit, PlaceStep, VersionStep, PTL DEF Run!Spec
<1>3. QED
  BY <1>2, OfflineIsRun, PTL

(* A report of the oracle benchmark never compares answers of two versions *)
(* of a model, however many runs it took, for any number of decisions and  *)
(* any list of models: gto_oracle_benchmark.py, run_model().               *)
THEOREM OfflineOneVersionPerModel == OfflineSpec => []OneVersionPerModel
<1>1. ASSUME VersionOK
      PROVE  OneVersionPerModel
  <2>1. ASSUME NEW report, NEW i \in DOMAIN report.rows
        PROVE  report.rows[i] \in ToSet(report.rows)
    BY DEF ToSet
  <2>2. QED
    BY <1>1, <2>1, Copies
    DEF VersionOK, OneVersion, HasCompletion, OneVersionPerModel, Run!OneVersionPerModel
<1>2. QED
  BY <1>1, RunInvariant, PTL

-----------------------------------------------------------------------------
(* The rows of a report.                                                   *)

\* What FlattenSeq() goes through, one sequence after the other.
Unfolds(f, s) ==
  /\ FlattenSeq(s) = f[Len(s)]
  /\ f[1] = s[1]
  /\ \A i \in 1..Len(s) : i # 1 => f[i] = f[i - 1] \o s[i]

\* The recursive function that defines it exists.
LEMMA FlattenExists ==
  ASSUME NEW s, NEW n \in Nat
  PROVE  \E f : f = [i \in 1..n |-> IF i = 1 THEN s[i] ELSE f[i - 1] \o s[i]]
<1> DEFINE E(k) == \E f : f = [i \in 1..k |-> IF i = 1 THEN s[i] ELSE f[i - 1] \o s[i]]
           B == {k \in Nat : ~E(k)}
<1>1. SUFFICES ASSUME n \in B PROVE FALSE
  BY Zenon
<1>2. PICK k \in B : \A l \in B : ~(l < k)
  <2>1. B \in SUBSET Nat /\ B # {}
    BY <1>1
  <2> HIDE DEF B
  <2>2. PICK k \in B : \A l \in B : ~(<<l, k>> \in OpToRel(<, Nat))
    BY <2>1, NatLessThanWellFounded, WFMin
  <2>3. QED
    BY <2>1, <2>2 DEF OpToRel
<1>3. k \in Nat /\ ~E(k)
  BY Zenon
<1>4. CASE k = 0
  <2>1. PICK f : f = [i \in 1..0 |-> 0]
    OBVIOUS
  <2>2. f = [i \in 1..k |-> IF i = 1 THEN s[i] ELSE f[i - 1] \o s[i]]
    BY <1>4, <2>1
  <2>3. QED
    BY <1>3, <2>2, Zenon
<1>5. CASE k # 0
  <2>1. k - 1 \in Nat /\ k - 1 < k
    BY <1>3, <1>5
  <2>2. E(k - 1)
    BY <1>2, <2>1
  <2>3. PICK h : h = [i \in 1 .. k - 1 |-> IF i = 1 THEN s[i] ELSE h[i - 1] \o s[i]]
    BY <2>2
  <2>4. PICK g : g = [i \in 1..k |-> IF i \in 1 .. k - 1 THEN h[i]
                                     ELSE IF i = 1 THEN s[i] ELSE h[i - 1] \o s[i]]
    OBVIOUS
  <2>5. ASSUME NEW i \in 1..k
        PROVE  g[i] = IF i = 1 THEN s[i] ELSE g[i - 1] \o s[i]
    <3>1. i # 1 => i - 1 \in 1 .. k - 1
      BY <1>3
    <3>2. i # 1 => g[i - 1] = h[i - 1]
      <4>1. i # 1 => i - 1 \in 1..k
        BY <1>3
      <4>2. QED
        BY <2>4, <3>1, <4>1
    <3>3. g[i] = IF i = 1 THEN s[i] ELSE h[i - 1] \o s[i]
      BY <2>3, <2>4
    <3>4. QED
      BY <3>2, <3>3
  <2>6. g = [i \in 1..k |-> IF i = 1 THEN s[i] ELSE g[i - 1] \o s[i]]
    BY <2>4, <2>5
  <2>7. QED
    BY <1>3, <2>6, Zenon
<1>6. QED
  BY <1>4, <1>5

LEMMA FlattenFacts ==
  ASSUME NEW s, Len(s) \in Nat, Len(s) # 0
  PROVE  \E f : Unfolds(f, s)
<1>1. PICK f : f = CHOOSE g : g = [i \in 1..Len(s) |-> IF i = 1 THEN s[i] ELSE g[i - 1] \o s[i]]
  OBVIOUS
<1>2. FlattenSeq(s) = f[Len(s)]
  BY <1>1, Zenon DEF FlattenSeq
<1>3. \E g : g = [i \in 1..Len(s) |-> IF i = 1 THEN s[i] ELSE g[i - 1] \o s[i]]
  BY FlattenExists
<1>4. f = [i \in 1..Len(s) |-> IF i = 1 THEN s[i] ELSE f[i - 1] \o s[i]]
  BY <1>1, <1>3, Zenon
<1>5. PICK n \in Nat : n = Len(s) /\ 1 \in 1..n
  OBVIOUS
<1>6. \A i \in 1..n : f[i] = IF i = 1 THEN s[i] ELSE f[i - 1] \o s[i]
  <2>1. f = [i \in 1..n |-> IF i = 1 THEN s[i] ELSE f[i - 1] \o s[i]]
    BY <1>4, <1>5
  <2>2. QED
    BY <2>1
<1>7. f[1] = s[1] /\ \A i \in 1..n : i # 1 => f[i] = f[i - 1] \o s[i]
  BY <1>5, <1>6
<1>8. Unfolds(f, s)
  BY <1>2, <1>5, <1>7 DEF Unfolds
<1>9. QED
  BY <1>8

Block(name) == [d \in 1..Decisions |-> <<name, d>>]
Blocks == [m \in DOMAIN Models |-> Block(Models[m])]
Flat == CHOOSE f : Unfolds(f, Blocks)
Pair(row) == <<row.model, row.decision>>
Pairs(rs) == [i \in DOMAIN rs |-> Pair(rs[i])]

LEMMA FlatFacts ==
  ASSUME Models # <<>>
  PROVE  /\ Len(Models) \in Nat /\ Len(Models) >= 1
         /\ FlattenSeq(Blocks) = Flat[Len(Models)]
         /\ Flat[1] = Block(Models[1])
         /\ \A m \in 1..Len(Models) : m # 1 => Flat[m] = Flat[m - 1] \o Block(Models[m])
<1>1. Len(Models) \in Nat /\ Len(Models) >= 1 /\ DOMAIN Models = 1..Len(Models)
  BY RunAssumption, EmptySeq
<1>2. /\ Len(Blocks) = Len(Models)
      /\ \A m \in 1..Len(Models) : Blocks[m] = Block(Models[m])
  BY <1>1 DEF Blocks
<1>3. Unfolds(Flat, Blocks)
  <2>1. \E f : Unfolds(f, Blocks)
    BY <1>1, <1>2, FlattenFacts
  <2>2. QED
    BY <2>1, Zenon DEF Flat
<1>4. PICK n \in Nat : n = Len(Models) /\ n >= 1
  BY <1>1
<1>5. FlattenSeq(Blocks) = Flat[n]
  BY <1>2, <1>3, <1>4 DEF Unfolds
<1>6. Flat[1] = Block(Models[1])
  BY <1>2, <1>3, <1>4 DEF Unfolds
<1>7. ASSUME NEW m \in 1..n, m # 1
      PROVE  Flat[m] = Flat[m - 1] \o Block(Models[m])
  BY <1>2, <1>3, <1>4, <1>7 DEF Unfolds
<1>8. QED
  BY <1>4, <1>5, <1>6, <1>7

LEMMA OneBlock ==
  ASSUME NEW name
  PROVE  FlattenSeq(<<Block(name)>>) = Block(name)
<1>1. PICK one : one = <<Block(name)>>
  OBVIOUS
<1>2. Len(one) = 1 /\ one[1] = Block(name)
  BY <1>1
<1>3. PICK f : Unfolds(f, one)
  BY <1>2, FlattenFacts
<1>4. QED
  BY <1>1, <1>2, <1>3 DEF Unfolds

(* The rows of a run are those of the models before, and the ones of as    *)
(* many decisions of its model as it has been through.                     *)
Filled(rs, base, name, n) ==
  /\ IsSequence(rs) /\ IsSequence(base) /\ Len(rs) = Len(base) + n
  /\ \A i \in 1..Len(base) : Pair(rs[i]) = base[i]
  /\ \A d \in 1..n : Pair(rs[Len(base) + d]) = <<name, d>>

LEMMA FillOne ==
  ASSUME NEW rs, NEW base, NEW name, NEW n \in Nat, Filled(rs, base, name, n),
         NEW row, Pair(row) = <<name, n + 1>>
  PROVE  Filled(Append(rs, row), base, name, n + 1)
<1>1. Len(base) \in Nat
  BY ConcatFacts DEF Filled
<1> DEFINE more == Append(rs, row)
<1>2. /\ IsSequence(more) /\ Len(more) = Len(rs) + 1 /\ more[Len(rs) + 1] = row
      /\ \A i \in 1..Len(rs) : more[i] = rs[i]
  BY AppendFacts DEF Filled
<1> HIDE DEF more
<1>3. Len(rs) = Len(base) + n /\ Len(more) = Len(base) + (n + 1)
  BY <1>1, <1>2 DEF Filled
<1>4. ASSUME NEW i \in 1..Len(base)
      PROVE  Pair(more[i]) = base[i]
  <2>1. i \in 1..Len(rs)
    BY <1>1, <1>3
  <2>2. QED
    BY <1>2, <2>1 DEF Filled
<1>5. ASSUME NEW d \in 1 .. n + 1
      PROVE  Pair(more[Len(base) + d]) = <<name, d>>
  <2>1. CASE d = n + 1
    <3>1. Len(base) + d = Len(rs) + 1
      BY <1>1, <1>3, <2>1
    <3>2. QED
      BY <1>2, <2>1, <3>1
  <2>2. CASE d # n + 1
    <3>1. d \in 1..n /\ Len(base) + d \in 1..Len(rs)
      BY <1>1, <1>3, <2>2
    <3>2. QED
      BY <1>2, <3>1 DEF Filled
  <2>3. QED
    BY <2>1, <2>2
<1>6. QED
  BY <1>2, <1>3, <1>4, <1>5 DEF Filled, more

LEMMA FillMore ==
  ASSUME NEW rs, NEW base, NEW name, NEW n \in Nat, Filled(rs, base, name, n),
         NEW t, IsSequence(t), \A k \in 1..Len(t) : Pair(t[k]) = <<name, n + k>>
  PROVE  Filled(rs \o t, base, name, n + Len(t))
<1>1. Len(base) \in Nat /\ Len(t) \in Nat
  BY ConcatFacts DEF Filled
<1> DEFINE more == rs \o t
<1>2. /\ IsSequence(more) /\ Len(more) = Len(rs) + Len(t)
      /\ \A i \in 1..Len(rs) : more[i] = rs[i]
      /\ \A i \in 1..Len(t) : more[Len(rs) + i] = t[i]
  <2>1. IsSequence(rs)
    BY DEF Filled
  <2>2. QED
    BY <2>1, ConcatFacts
<1> HIDE DEF more
<1>3. Len(rs) = Len(base) + n /\ Len(more) = Len(base) + (n + Len(t))
  BY <1>1, <1>2 DEF Filled
<1>4. ASSUME NEW i \in 1..Len(base)
      PROVE  Pair(more[i]) = base[i]
  <2>1. i \in 1..Len(rs)
    BY <1>1, <1>3
  <2>2. QED
    BY <1>2, <2>1 DEF Filled
<1>5. ASSUME NEW d \in 1 .. n + Len(t)
      PROVE  Pair(more[Len(base) + d]) = <<name, d>>
  <2>1. CASE d > n
    <3>1. PICK k \in 1..Len(t) : d = n + k
      <4>1. d - n \in 1..Len(t) /\ d = n + (d - n)
        BY <1>1, <2>1
      <4>2. QED
        BY <4>1
    <3>2. Len(base) + d = Len(rs) + k
      BY <1>1, <1>3, <3>1
    <3>3. QED
      BY <1>2, <3>1, <3>2
  <2>2. CASE ~(d > n)
    <3>1. d \in 1..n /\ Len(base) + d \in 1..Len(rs)
      BY <1>1, <1>3, <2>2
    <3>2. QED
      BY <1>2, <3>1 DEF Filled
  <2>3. QED
    BY <2>1, <2>2
<1>6. QED
  BY <1>2, <1>3, <1>4, <1>5 DEF Filled, more

\* When the model is through.
LEMMA FilledUp ==
  ASSUME NEW rs, NEW base, NEW name, Filled(rs, base, name, Decisions)
  PROVE  Pairs(rs) = base \o Block(name)
<1> DEFINE b == Block(name)
           all == base \o b
<1>1. b \in Seq({<<name, d>> : d \in 1..Decisions}) /\ Len(b) = Decisions
      /\ \A d \in 1..Decisions : b[d] = <<name, d>>
  BY RunAssumption DEF Block
<1>2. IsSequence(b)
  BY <1>1 DEF IsSequence
<1> HIDE DEF b
<1>3. /\ DOMAIN all = 1 .. Len(base) + Decisions /\ Len(base) \in Nat
      /\ \A i \in 1..Len(base) : all[i] = base[i]
      /\ \A d \in 1..Decisions : all[Len(base) + d] = b[d]
      /\ \E S : all \in Seq(S)
  <2>1. IsSequence(base)
    BY DEF Filled
  <2>2. /\ IsSequence(all) /\ Len(base) \in Nat /\ DOMAIN all = 1 .. Len(base) + Len(b)
        /\ \A i \in 1..Len(base) : all[i] = base[i]
        /\ \A d \in 1..Len(b) : all[Len(base) + d] = b[d]
    BY <1>2, <2>1, ConcatFacts
  <2> HIDE DEF all
  <2>3. QED
    BY <1>1, <2>2 DEF IsSequence
<1> HIDE DEF all
<1>4. DOMAIN rs = 1 .. Len(base) + Decisions
  BY AppendFacts DEF Filled
<1>5. ASSUME NEW i \in 1 .. Len(base) + Decisions
      PROVE  Pair(rs[i]) = all[i]
  <2>1. CASE i \in 1..Len(base)
    BY <1>3, <2>1 DEF Filled
  <2>2. CASE i \notin 1..Len(base)
    <3>1. PICK d \in 1..Decisions : i = Len(base) + d
      <4>1. i - Len(base) \in 1..Decisions /\ i = Len(base) + (i - Len(base))
        BY <1>3, <2>2, RunAssumption
      <4>2. QED
        BY <4>1
    <3>2. QED
      BY <1>1, <1>3, <3>1 DEF Filled
  <2>3. QED
    BY <2>1, <2>2
<1>6. all = [i \in 1 .. Len(base) + Decisions |-> all[i]]
  BY <1>3
<1>7. Pairs(rs) = [i \in 1 .. Len(base) + Decisions |-> all[i]]
  BY <1>4, <1>5 DEF Pairs
<1>8. QED
  BY <1>6, <1>7 DEF all, b

Base == IF tool = "oracle" /\ model > 1 THEN Flat[model - 1] ELSE <<>>
Through == IF place = "model" THEN 0 ELSE IF place = "next" THEN Decisions ELSE at - 1
Whole(report) ==
  Pairs(report.rows) =
  FlattenSeq([m \in DOMAIN report.models |-> Block(report.models[m])])
RowsOK ==
  /\ model \in Nat \ {0} /\ (model = 1 \/ model <= Len(Models))
  /\ place = "stopped" => model = 1
  /\ place # "stopped" => Filled(rows, Base, Models[model], Through)
  /\ \A report \in ToSet(reports) : Whole(report)

LEMMA NothingFilled ==
  ASSUME NEW base, NEW name, NEW rs, IsSequence(rs), Pairs(rs) = base
  PROVE  Filled(rs, base, name, 0)
<1>1. Len(rs) \in Nat /\ DOMAIN rs = 1..Len(rs)
  BY AppendFacts
<1>2. /\ DOMAIN base = 1..Len(rs)
      /\ \A i \in 1..Len(rs) : base[i] = Pair(rs[i])
  BY <1>1 DEF Pairs
<1> DEFINE e(i) == Pair(rs[i])
           S == {e(i) : i \in 1..Len(rs)}
<1>3. base = [i \in 1..Len(rs) |-> e(i)]
  BY <1>1 DEF Pairs
<1> HIDE DEF e
<1>4. [i \in 1..Len(rs) |-> e(i)] \in Seq(S) /\ Len([i \in 1..Len(rs) |-> e(i)]) = Len(rs)
  BY <1>1
<1>5. IsSequence(base) /\ Len(base) = Len(rs)
  BY <1>3, <1>4 DEF IsSequence
<1>6. Len(rs) = Len(base) + 0 /\ 1..0 = {}
  BY <1>1, <1>5
<1>7. QED
  BY <1>2, <1>5, <1>6 DEF Filled

LEMMA GotoThrough ==
  ASSUME NEW n \in Nat, n <= Decisions, Run!Goto(n + 1)
  PROVE  Through' = n /\ place' # "stopped"
<1>1. at' = n + 1 /\ place' = IF n + 1 <= Decisions THEN "row" ELSE "next"
  BY DEF Run!Goto
<1>2. CASE n + 1 <= Decisions
  BY <1>1, <1>2 DEF Through
<1>3. CASE ~(n + 1 <= Decisions)
  <2>1. n = Decisions
    BY <1>3, RunAssumption
  <2>2. QED
    BY <1>1, <1>3, <2>1 DEF Through
<1>4. QED
  BY <1>2, <1>3

\* A decision is through.
LEMMA RowThrough ==
  ASSUME PlaceOK, RowsOK, place \in {"row", "put", "sync"}, NEW row,
         row.model = Models[model], row.decision = at,
         rows' = Append(rows, row), Run!Goto(at + 1), UNCHANGED <<tool, model, reports>>
  PROVE  RowsOK'
<1>1. at \in Nat /\ 1 <= at /\ at <= Decisions /\ at - 1 \in Nat /\ (at - 1) + 1 = at
  BY DEF PlaceOK
<1>2. Through = at - 1 /\ Filled(rows, Base, Models[model], at - 1)
  BY DEF RowsOK, Through
<1>3. Pair(row) = <<Models[model], (at - 1) + 1>>
  BY <1>1 DEF Pair
<1>4. Filled(Append(rows, row), Base, Models[model], (at - 1) + 1)
  BY <1>1, <1>2, <1>3, FillOne
<1>5. Through' = at /\ place' # "stopped"
  BY <1>1, GotoThrough
<1>6. Base' = Base
  BY DEF Base
<1>7. QED
  BY <1>1, <1>4, <1>5, <1>6 DEF RowsOK, Whole

LEMMA AbortedPairs ==
  ASSUME NEW from \in 1 .. Decisions + 1
  PROVE  /\ IsSequence(Run!Aborted(from)) /\ Len(Run!Aborted(from)) = Decisions + 1 - from
         /\ \A k \in 1 .. Decisions + 1 - from :
              Pair(Run!Aborted(from)[k]) = <<Models[model], from + k - 1>>
<1>1. Decisions + 1 - from \in Nat
  BY RunAssumption
<1> DEFINE e(k) == Run!Row(from + k - 1, "ABORTED_PROVIDER_ERRORS", Run!NoCompletion)
           n == Decisions + 1 - from
<1>2. Run!Aborted(from) = [k \in 1..n |-> e(k)]
  BY DEF Run!Aborted
<1>3. \A k \in 1..n : Pair(e(k)) = <<Models[model], from + k - 1>>
  BY DEF Run!Row, Pair
<1> HIDE DEF e, n
<1>4. Len([k \in 1..n |-> e(k)]) = n /\ \A k \in 1..n : [j \in 1..n |-> e(j)][k] = e(k)
  BY <1>1 DEF n
<1>5. QED
  BY <1>2, <1>3, <1>4, AbortedFacts DEF n

\* An error ends a decision, or all that are left.
LEMMA ErrorThrough ==
  ASSUME PlaceOK, RowsOK, place \in {"row", "put"}, Run!ProviderError, UNCHANGED <<tool, reports>>
  PROVE  RowsOK'
<1> DEFINE error == Run!Row(at, "PROVIDER_ERROR", Run!NoCompletion)
<1>1. error.model = Models[model] /\ error.decision = at
  BY DEF Run!Row
<1> HIDE DEF error
<1>2. UNCHANGED model
  BY DEF Run!ProviderError
<1>3. CASE rows' = Append(rows, error) /\ Run!Goto(at + 1)
  BY <1>1, <1>2, <1>3, RowThrough
<1>4. CASE rows' = rows \o <<error>> \o Run!Aborted(at + 1) /\ Run!Goto(Decisions + 1)
  <2>1. /\ at \in Nat /\ 1 <= at /\ at <= Decisions /\ at - 1 \in Nat /\ (at - 1) + 1 = at
        /\ at + 1 \in 1 .. Decisions + 1 /\ Decisions \in Nat
        /\ Decisions + 1 - (at + 1) = Decisions - at /\ at + (Decisions - at) = Decisions
    BY RunAssumption DEF PlaceOK
  <2>2. Filled(rows, Base, Models[model], at - 1)
    BY DEF RowsOK, Through
  <2>3. Pair(error) = <<Models[model], (at - 1) + 1>>
    BY <1>1, <2>1 DEF Pair
  <2> DEFINE some == Append(rows, error)
             aborted == Run!Aborted(at + 1)
  <2>4. Filled(some, Base, Models[model], at)
    BY <2>1, <2>2, <2>3, FillOne
  <2>5. some = rows \o <<error>>
    <3>1. PICK S : rows \in Seq(S)
      BY DEF PlaceOK, IsSequence
    <3>2. rows \in Seq(S \cup {error}) /\ error \in S \cup {error}
      <4>1. \A i \in 1..Len(rows) : rows[i] \in S
        BY <3>1, ElementOfSeq
      <4>2. QED
        BY <3>1, <4>1
    <3>3. QED
      BY <3>2, AppendIsConcat
  <2>6. IsSequence(aborted) /\ Len(aborted) = Decisions - at
        /\ \A k \in 1 .. Decisions - at : Pair(aborted[k]) = <<Models[model], at + 1 + k - 1>>
    BY <2>1, AbortedPairs
  <2>7. rows' = some \o aborted
    BY <1>4, <2>5
  <2> HIDE DEF some, aborted
  <2>8. \A k \in 1..Len(aborted) : Pair(aborted[k]) = <<Models[model], at + k>>
    <3>1. \A k \in 1 .. Decisions - at : at + 1 + k - 1 = at + k
      BY <2>1
    <3>2. QED
      BY <2>6, <3>1
  <2>9. Filled(rows', Base, Models[model], at + Len(aborted))
    BY <2>1, <2>4, <2>6, <2>7, <2>8, FillMore
  <2>10. Through' = Decisions /\ place' # "stopped"
    BY <1>4, <2>1, GotoThrough
  <2>11. Base' = Base
    BY <1>2 DEF Base
  <2>12. QED
    BY <1>2, <2>1, <2>6, <2>9, <2>10, <2>11 DEF RowsOK, Whole
<1>5. QED
  BY <1>3, <1>4 DEF Run!ProviderError, error

\* A model that starts.
LEMMA StartThrough ==
  ASSUME RowsOK, place = "model", Run!Goto(1), UNCHANGED <<tool, model, rows, reports>>
  PROVE  RowsOK'
<1>1. Filled(rows, Base, Models[model], 0)
  BY DEF RowsOK, Through
<1>2. Through' = 0 /\ place' # "stopped"
  BY GotoThrough, RunAssumption
<1>3. Base' = Base
  BY DEF Base
<1>4. QED
  BY <1>1, <1>2, <1>3 DEF RowsOK, Whole

LEMMA StopRows ==
  ASSUME RowsOK, Run!Stop, \A report \in ToSet(reports') : Whole(report)
  PROVE  RowsOK'
BY DEF Run!Stop, RowsOK, Whole

LEMMA BaseFacts ==
  ASSUME RowsOK, tool = "oracle", place = "next"
  PROVE  Models # <<>> /\ model <= Len(Models) => Pairs(rows) = Flat[model]
<1> SUFFICES ASSUME Models # <<>>, model <= Len(Models) PROVE Pairs(rows) = Flat[model]
  OBVIOUS
<1>1. Filled(rows, Base, Models[model], Decisions)
  BY DEF RowsOK, Through
<1>2. Pairs(rows) = Base \o Block(Models[model])
  BY <1>1, FilledUp
<1>3. model \in 1..Len(Models)
  BY FlatFacts DEF RowsOK
<1>4. CASE model = 1
  <2>1. Block(Models[1]) \in Seq({<<Models[1], d>> : d \in 1..Decisions})
    BY RunAssumption DEF Block
  <2>2. <<>> \o Block(Models[1]) = Block(Models[1])
    BY <2>1, ConcatEmptySeq
  <2>3. QED
    BY <1>2, <1>4, <2>2, FlatFacts DEF Base
<1>5. CASE model # 1
  <2>1. Base = Flat[model - 1]
    BY <1>3, <1>5 DEF Base
  <2>2. QED
    BY <1>2, <1>3, <1>5, <2>1, FlatFacts
<1>6. QED
  BY <1>4, <1>5

LEMMA RowsStep == PlaceOK /\ PlaceOK' /\ RowsOK /\ [Run!Next]_(Run!vars) => RowsOK'
<1> SUFFICES ASSUME PlaceOK, PlaceOK', RowsOK, [Run!Next]_(Run!vars) PROVE RowsOK'
  OBVIOUS
<1>1. ASSUME UNCHANGED <<tool, model, rows, reports>>, place # "stopped", place' # "stopped",
             Through' = Through
      PROVE  RowsOK'
  BY <1>1 DEF RowsOK, Base, Whole
<1>2. CASE UNCHANGED Run!vars
  <2>1. UNCHANGED <<place, tool, model, rows, reports, at>>
    BY <1>2 DEF Run!vars, Run!process, Run!progress
  <2>2. QED
    BY <2>1 DEF RowsOK, Base, Through, Whole
<1>3. CASE Run!Launch
  <2>1. /\ place = "stopped" /\ place' = "model" /\ rows = <<>>
        /\ UNCHANGED <<tool, model, rows, reports>>
    BY <1>3 DEF Run!Launch, Run!progress, PlaceOK
  <2>2. Base' = <<>> /\ Through' = 0 /\ model' = 1
    BY <2>1 DEF RowsOK, Base, Through
  <2>3. Pairs(<<>>) = <<>>
    BY DEF Pairs
  <2>4. Filled(rows', Base', Models[model'], Through')
    BY <2>1, <2>2, <2>3, NothingFilled, EmptyFacts
  <2>5. QED
    BY <2>1, <2>2, <2>4 DEF RowsOK, Whole
<1>4. ASSUME Run!Stop, UNCHANGED reports
      PROVE  RowsOK'
  BY <1>4, StopRows DEF RowsOK
<1>5. CASE Run!StartModel
  BY <1>4, <1>5, StartThrough DEF Run!StartModel
<1>6. CASE Run!StartCases
  BY <1>6, StartThrough DEF Run!StartCases
<1>7. CASE Run!ScoreCached
  BY <1>7, RowThrough, RowFacts DEF Run!ScoreCached
<1>8. CASE Run!CacheMiss
  <2>1. PICK row : /\ row.model = Models[model] /\ row.decision = at
                   /\ rows' = Append(rows, row)
    BY <1>8 DEF Run!CacheMiss, Run!Row
  <2>2. QED
    BY <1>8, <2>1, RowThrough DEF Run!CacheMiss
<1>9. CASE Run!AskFails
  BY <1>9, ErrorThrough DEF Run!AskFails
<1>10. ASSUME NEW completion \in Completions, Run!Ask(completion) \/ Run!AskCase(completion)
       PROVE  RowsOK'
  <2>1. CASE Run!Answers(completion) /\ place = "row"
    BY <1>1, <2>1 DEF Run!Answers, Through
  <2>2. CASE Run!Stop /\ UNCHANGED reports
    BY <1>4, <2>2
  <2>3. QED
    BY <1>10, <2>1, <2>2 DEF Run!Ask, Run!AskCase
<1>11. CASE Run!Write
  BY <1>1, <1>11 DEF Run!Write, Run!progress, Through
<1>12. CASE Run!Sync \/ Run!PutCase
  <2>1. /\ place \in {"put", "sync"} /\ rows' = Append(rows, Run!Scored(at, asked)) /\ Run!Goto(at + 1)
        /\ UNCHANGED <<tool, model, reports>>
    BY <1>12 DEF Run!Sync, Run!PutCase, Run!PutReturns
  <2>2. QED
    BY <2>1, RowThrough, RowFacts
<1>13. CASE Run!WriteFails
  BY <1>13, ErrorThrough DEF Run!WriteFails
<1>14. CASE Run!NextModel
  <2>1. /\ place = "next" /\ tool = "oracle" /\ model < Len(Models) /\ model' = model + 1
        /\ place' = "model" /\ UNCHANGED <<tool, rows, reports>>
    BY <1>14 DEF Run!NextModel
  <2>2. Len(Models) \in Nat /\ model \in Nat /\ model >= 1
    BY RunAssumption DEF RowsOK
  <2>3. Models # <<>>
    BY <2>1, <2>2
  <2>4. Pairs(rows) = Flat[model]
    BY <2>1, <2>2, <2>3, BaseFacts
  <2>5. Base' = Flat[model]
    <3>1. model' > 1 /\ model' - 1 = model
      BY <2>1, <2>2
    <3>2. QED
      BY <2>1, <3>1 DEF Base
  <2>6. Filled(rows', Base', Models[model'], 0)
    BY <2>1, <2>4, <2>5, NothingFilled DEF PlaceOK
  <2>7. Through' = 0
    BY <2>1 DEF Through
  <2>8. QED
    BY <2>1, <2>2, <2>6, <2>7 DEF RowsOK, Whole
<1>15. ASSUME NEW report, reports' = Append(reports, report), Whole(report)
       PROVE  \A r \in ToSet(reports') : Whole(r)
  <2>1. ToSet(reports') = ToSet(reports) \cup {report}
    BY <1>15, ToSetFacts DEF PlaceOK
  <2>2. QED
    BY <1>15, <2>1 DEF RowsOK
<1>16. CASE Run!Report
  <2>1. PICK report : /\ reports' = Append(reports, report)
                      /\ report.rows = rows /\ report.models = Models
    BY <1>16 DEF Run!Report
  <2>2. /\ place = "next" /\ tool = "oracle" /\ model = Len(Models) /\ Run!Stop
    BY <1>16 DEF Run!Report
  <2>3. Models # <<>>
    <3>1. model \in Nat \ {0}
      BY DEF RowsOK
    <3>2. QED
      BY <2>2, <3>1
  <2>4. Pairs(rows) = FlattenSeq(Blocks)
    BY <2>2, <2>3, BaseFacts, FlatFacts
  <2>5. Whole(report)
    BY <2>1, <2>4 DEF Whole, Blocks
  <2>6. QED
    BY <1>15, <2>1, <2>2, <2>5, StopRows
<1>17. CASE Run!Summarize
  <2> DEFINE name == Models[model]
  <2>1. PICK report : /\ reports' = Append(reports, report)
                      /\ report.rows = rows /\ report.models = <<name>>
    BY <1>17 DEF Run!Summarize
  <2>2. place = "next" /\ tool = "pokerbench" /\ Base = <<>> /\ UNCHANGED tool
    BY <1>17 DEF Run!Summarize, Base
  <2>3. Filled(rows, <<>>, name, Decisions)
    BY <2>2 DEF RowsOK, Through
  <2>4. Pairs(rows) = <<>> \o Block(name)
    BY <2>3, FilledUp
  <2>5. Block(name) \in Seq({<<name, d>> : d \in 1..Decisions})
    BY RunAssumption DEF Block
  <2>6. Pairs(rows) = Block(name)
    BY <2>4, <2>5, ConcatEmptySeq
  <2> HIDE DEF name
  <2>7. [m \in DOMAIN <<name>> |-> Block(<<name>>[m])] = <<Block(name)>>
    OBVIOUS
  <2>8. Whole(report)
    BY <2>1, <2>6, <2>7, OneBlock DEF Whole
  <2>9. \A r \in ToSet(reports') : Whole(r)
    BY <1>15, <2>1, <2>8
  <2>10. CASE Run!Stop
    BY <2>9, <2>10, StopRows
  <2>11. CASE model < Len(Models) /\ model' = model + 1 /\ rows' = <<>> /\ place' = "model"
    <3>1. model \in Nat \ {0} /\ Len(Models) \in Nat
      BY RunAssumption DEF RowsOK
    <3>2. Base' = <<>> /\ Through' = 0
      BY <2>2, <2>11 DEF Base, Through
    <3>3. Pairs(<<>>) = <<>>
      BY DEF Pairs
    <3>4. Filled(rows', Base', Models[model'], Through')
      BY <2>11, <3>2, <3>3, NothingFilled, EmptyFacts
    <3>5. QED
      BY <2>9, <2>11, <3>1, <3>4 DEF RowsOK, Whole
  <2>12. QED
    BY <1>17, <2>10, <2>11 DEF Run!Summarize
<1>18. CASE Run!Interrupt \/ Run!PowerCut
  BY <1>4, <1>18 DEF Run!Interrupt, Run!PowerCut
<1>19. QED
  BY <1>2, <1>3, <1>5, <1>6, <1>7, <1>8, <1>9, <1>10, <1>11, <1>12, <1>13, <1>14, <1>16, <1>17,
     <1>18 DEF Run!Next

LEMMA RowsInvariant == OfflineSpec => []RowsOK
<1>1. Run!Init => RowsOK
  BY EmptyFacts DEF Run!Init, RowsOK
<1>2. Run!Spec => []PlaceOK
  BY RunInit, PlaceStep, PTL DEF Run!Spec
<1>3. Run!Spec => []RowsOK
  BY <1>1, <1>2, RowsStep, PTL DEF Run!Spec
<1>4. QED
  BY <1>3, OfflineIsRun, PTL

(* Every report has one row for each model and decision, in order, for any *)
(* number of decisions and any list of models, however the runs end:       *)
(* run_model() and run_cases().                                            *)
THEOREM OfflineEveryDecisionHasOneRow == OfflineSpec => []EveryDecisionHasOneRow
<1>1. ASSUME RowsOK
      PROVE  EveryDecisionHasOneRow
  BY <1>1, Copies
  DEF RowsOK, Whole, Pairs, Pair, Block, EveryDecisionHasOneRow, Run!EveryDecisionHasOneRow
<1>2. QED
  BY <1>1, RowsInvariant, PTL

-----------------------------------------------------------------------------
(* What is loaded from the file of completions.                            *)

\* The latest of some members of a sequence.
LEMMA GreatestMember ==
  ASSUME NEW n \in Nat, NEW S \in SUBSET (1..n), S # {} PROVE \E x \in S : \A y \in S : y <= x
<1> DEFINE R == {pair \in Nat \X Nat : pair[1] < pair[2]}
           T == {x \in 0..n : n - x \in S}
<1>1. R = OpToRel(<, Nat)
  BY DEF OpToRel
<1>2. T \in SUBSET Nat
  OBVIOUS
<1>3. T # {}
  <2>1. PICK y \in S : TRUE
    OBVIOUS
  <2>2. y \in Nat /\ n - y \in 0..n /\ n - (n - y) = y
    OBVIOUS
  <2>3. n - y \in T
    BY <2>1, <2>2
  <2>4. QED
    BY <2>3
<1>4. \A y \in S : n - y \in T
  <2>1. \A y \in S : n - y \in 0..n /\ n - (n - y) = y
    OBVIOUS
  <2>2. QED
    BY <2>1
<1>5. \A x \in T : x \in Nat /\ n - x \in S
  OBVIOUS
<1> HIDE DEF R, T
<1>6. PICK x \in T : \A y \in T : ~(<<y, x>> \in R)
  BY <1>1, <1>2, <1>3, NatLessThanWellFounded, WFMin
<1>7. \A y \in Nat : y < x => <<y, x>> \in R
  BY <1>2 DEF R
<1>8. ASSUME NEW y \in S PROVE y <= n - x
  <2>1. x \in Nat /\ y \in Nat /\ n - y \in Nat /\ n - y \in T
    BY <1>4, <1>5, <1>2
  <2>2. ~(n - y < x)
    BY <1>6, <1>7, <2>1
  <2>3. QED
    BY <2>1, <2>2
<1>9. QED
  BY <1>5, <1>8

IsLast(lines, k, i) ==
  /\ i \in DOMAIN lines /\ lines[i] # Run!Garbage /\ lines[i].key = k
  /\ \A j \in DOMAIN lines : lines[j] # Run!Garbage /\ lines[j].key = k => j <= i
IsKey(lines, k) == \E i \in DOMAIN lines : lines[i] # Run!Garbage /\ lines[i].key = k

LEMMA LoadFacts ==
  ASSUME NEW lines, IsSequence(lines)
  PROVE  /\ Run!Load(lines) = [k \in DOMAIN Run!Load(lines) |-> Run!Load(lines)[k]]
         /\ \A k : k \in DOMAIN Run!Load(lines) <=> IsKey(lines, k)
         /\ \A k \in DOMAIN Run!Load(lines) :
              \E i : IsLast(lines, k, i) /\ Run!Load(lines)[k] = lines[i].completion
<1> DEFINE good == {i \in DOMAIN lines : lines[i] # Run!Garbage}
           last(k) == CHOOSE i \in good :
                        lines[i].key = k /\ \A j \in good : lines[j].key = k => j <= i
           load == [k \in {lines[i].key : i \in good} |-> lines[last(k)].completion]
<1>1. Run!Load(lines) = load
  BY DEF Run!Load
<1>2. Len(lines) \in Nat /\ DOMAIN lines = 1..Len(lines)
  BY AppendFacts
<1>3. ASSUME NEW k, IsKey(lines, k)
      PROVE  IsLast(lines, k, last(k))
  <2> DEFINE S == {i \in good : lines[i].key = k}
  <2>1. S \in SUBSET (1..Len(lines)) /\ S # {}
    BY <1>2, <1>3 DEF IsKey
  <2>2. \E x \in S : \A y \in S : y <= x
    BY <1>2, <2>1, GreatestMember
  <2>3. \E i \in good : lines[i].key = k /\ \A j \in good : lines[j].key = k => j <= i
    BY <2>2
  <2>4. last(k) \in good /\ lines[last(k)].key = k /\ \A j \in good : lines[j].key = k => j <= last(k)
    BY <2>3, Zenon
  <2>5. QED
    BY <2>4 DEF IsLast
<1>4. \A k : k \in {lines[i].key : i \in good} <=> IsKey(lines, k)
  BY DEF IsKey
<1> HIDE DEF last, good
<1>5. DOMAIN load = {lines[i].key : i \in good} /\ \A k \in DOMAIN load : load[k] = lines[last(k)].completion
  OBVIOUS
<1>6. load = [k \in DOMAIN load |-> load[k]]
  OBVIOUS
<1> HIDE DEF load
<1>7. QED
  BY <1>1, <1>3, <1>4, <1>5, <1>6

LEMMA LoadAppend ==
  ASSUME NEW lines, IsSequence(lines), NEW line, line # Run!Garbage
  PROVE  Run!Load(Append(lines, line)) = Run!Merge(Run!Load(lines), line.key, line.completion)
<1> DEFINE more == Append(lines, line)
           old == Run!Load(lines)
           new == Run!Load(more)
           merged == Run!Merge(old, line.key, line.completion)
<1>1. PICK n \in Nat : n = Len(lines) /\ DOMAIN lines = 1..n
  BY AppendFacts
<1>2. /\ IsSequence(more) /\ DOMAIN more = 1 .. n + 1 /\ more[n + 1] = line
      /\ \A i \in 1..n : more[i] = lines[i]
  BY <1>1, AppendFacts
<1> HIDE DEF more
<1>3. /\ old = [k \in DOMAIN old |-> old[k]]
      /\ \A k : k \in DOMAIN old <=> IsKey(lines, k)
      /\ \A k \in DOMAIN old : \E i : IsLast(lines, k, i) /\ old[k] = lines[i].completion
  BY LoadFacts
<1>4. /\ new = [k \in DOMAIN new |-> new[k]]
      /\ \A k : k \in DOMAIN new <=> IsKey(more, k)
      /\ \A k \in DOMAIN new : \E i : IsLast(more, k, i) /\ new[k] = more[i].completion
  BY <1>2, LoadFacts
<1>5. merged = [k \in DOMAIN old \cup {line.key} |-> IF k = line.key THEN line.completion ELSE old[k]]
  BY DEF Run!Merge
<1> HIDE DEF old, new, merged
<1>6. \A k : IsKey(more, k) <=> IsKey(lines, k) \/ k = line.key
  <2>1. 1..n \subseteq 1 .. n + 1 /\ n + 1 \in 1 .. n + 1
        /\ \A i \in 1 .. n + 1 : i \in 1..n \/ i = n + 1
    OBVIOUS
  <2>2. QED
    BY <1>1, <1>2, <2>1 DEF IsKey
<1>7. DOMAIN new = DOMAIN old \cup {line.key}
  BY <1>3, <1>4, <1>6
<1>8. ASSUME NEW k \in DOMAIN new
      PROVE  new[k] = IF k = line.key THEN line.completion ELSE old[k]
  <2>1. PICK i : IsLast(more, k, i) /\ new[k] = more[i].completion
    BY <1>4
  <2>2. CASE k = line.key
    <3>1. n + 1 \in DOMAIN more /\ more[n + 1] # Run!Garbage /\ more[n + 1].key = k
      BY <1>2, <2>2
    <3>2. i \in 1 .. n + 1 /\ n + 1 <= i
      BY <1>2, <2>1, <3>1 DEF IsLast
    <3>3. i = n + 1
      BY <3>2
    <3>4. QED
      BY <1>2, <2>1, <2>2, <3>3
  <2>3. CASE k # line.key
    <3>1. PICK j : IsLast(lines, k, j) /\ old[k] = lines[j].completion
      BY <1>3, <1>7, <2>3
    <3>2. i \in 1..n /\ lines[i] = more[i]
      <4>1. i \in 1 .. n + 1 /\ i # n + 1
        BY <1>2, <2>1, <2>3 DEF IsLast
      <4>2. i \in 1..n
        BY <4>1
      <4>3. QED
        BY <1>2, <4>2
    <3>3. j \in 1..n /\ lines[j] = more[j]
      BY <1>1, <1>2, <3>1 DEF IsLast
    <3>4. j <= i
      <4>1. j \in 1 .. n + 1
        BY <3>3
      <4>2. QED
        BY <1>2, <2>1, <3>1, <3>3, <4>1 DEF IsLast
    <3>5. i <= j
      BY <1>1, <2>1, <3>1, <3>2 DEF IsLast
    <3>6. i = j
      BY <3>2, <3>3, <3>4, <3>5
    <3>7. QED
      BY <2>1, <2>3, <3>1, <3>2, <3>6
  <2>4. QED
    BY <2>2, <2>3
<1>9. new = merged
  BY <1>4, <1>5, <1>7, <1>8
<1>10. QED
  BY <1>9 DEF new, merged, more, old

\* The decisions of every model of a report.
LEMMA FlattenContains ==
  ASSUME NEW names, IsSequence(names), names # <<>>, NEW f,
         NEW s, s = [m \in DOMAIN names |-> Block(names[m])], Unfolds(f, s),
         NEW k \in 1..Len(names)
  PROVE  /\ IsSequence(f[k])
         /\ \A x : x \in ToSet(f[k]) <=> \E m \in 1..k, d \in 1..Decisions : x = <<names[m], d>>
<1> DEFINE P(j) == /\ IsSequence(f[j])
                   /\ \A x : x \in ToSet(f[j])
                               <=> \E m \in 1..j, d \in 1..Decisions : x = <<names[m], d>>
           B == {j \in 1..Len(names) : ~P(j)}
<1>1. SUFFICES ASSUME k \in B PROVE FALSE
  BY Zenon
<1>2. Len(names) \in Nat /\ DOMAIN names = 1..Len(names)
  BY AppendFacts
<1>3. PICK j \in B : \A l \in B : ~(l < j)
  <2>1. B \in SUBSET Nat /\ B # {}
    BY <1>1, <1>2
  <2> HIDE DEF B
  <2>2. PICK j \in B : \A l \in B : ~(<<l, j>> \in OpToRel(<, Nat))
    BY <2>1, NatLessThanWellFounded, WFMin
  <2>3. QED
    BY <2>1, <2>2 DEF OpToRel
<1>4. j \in 1..Len(names) /\ ~P(j)
  BY Zenon
<1>5. Len(s) = Len(names) /\ s[j] = Block(names[j]) /\ s[1] = Block(names[1])
  BY <1>2, <1>4
<1>6. ASSUME NEW name
      PROVE  /\ IsSequence(Block(name))
             /\ \A x : x \in ToSet(Block(name)) <=> \E d \in 1..Decisions : x = <<name, d>>
  <2> DEFINE T == {<<name, d>> : d \in 1..Decisions}
  <2>1. [d \in 1..Decisions |-> <<name, d>>] \in Seq(T)
    BY RunAssumption
  <2>2. QED
    BY <2>1 DEF IsSequence, Block, ToSet
<1>7. CASE j = 1
  <2>1. f[j] = Block(names[1])
    BY <1>5, <1>7 DEF Unfolds
  <2>2. P(j)
    BY <1>6, <1>7, <2>1
  <2>3. QED
    BY <1>4, <2>2, Zenon
<1>8. CASE j # 1
  <2>1. j - 1 \in 1..Len(names) /\ j - 1 < j
    BY <1>2, <1>4, <1>8
  <2>2. P(j - 1)
    BY <1>3, <2>1
  <2>3. PICK g : g = f[j - 1] /\ IsSequence(g)
                 /\ \A x : x \in ToSet(g) <=> \E m \in 1 .. j - 1, d \in 1..Decisions : x = <<names[m], d>>
    BY <2>2
  <2>4. f[j] = g \o Block(names[j])
    BY <1>4, <1>5, <1>8, <2>3 DEF Unfolds
  <2>5. IsSequence(f[j])
    BY <1>6, <2>3, <2>4, ConcatFacts
  <2>6. ToSet(f[j]) = ToSet(g) \cup ToSet(Block(names[j]))
    BY <1>6, <2>3, <2>4, ToSetFacts
  <2>7. \A m : m \in 1..j <=> m \in 1 .. j - 1 \/ m = j
    BY <1>2, <1>4
  <2>8. \A x : x \in ToSet(f[j]) <=> \E m \in 1..j, d \in 1..Decisions : x = <<names[m], d>>
    BY <1>6, <2>3, <2>6, <2>7
  <2>9. QED
    BY <1>4, <2>5, <2>8, Zenon
<1>9. QED
  BY <1>7, <1>8

-----------------------------------------------------------------------------
(* Repeating a complete run.                                               *)

StatusOf(t, completion) ==
  IF t = "oracle"
  THEN CASE completion.answer = "in menu" -> "SCORED"
         [] completion.answer = "off tree" -> "OUT_OF_TREE"
         [] completion.answer = "illegal" -> "ILLEGAL"
         [] OTHER -> "PARSE_ERROR"
  ELSE IF completion.answer = "none" THEN "PARSE_ERROR" ELSE "OK"

LEMMA ScoredIs ==
  ASSUME NEW i, NEW completion
  PROVE  Run!Scored(i, completion) =
           [model |-> Models[model], decision |-> i, status |-> StatusOf(tool, completion),
            completion |-> completion]
<1>1. Run!Scored(i, completion) = Run!Row(i, StatusOf(tool, completion), completion)
  BY Zenon DEF Run!Scored, Run!ScoredDecision, Run!ScoredCase, StatusOf
<1>2. QED
  BY <1>1 DEF Run!Row

\* A row that tells what a cache says of its decision.
Tells(t, row, f) ==
  /\ KeyOf(row) \in DOMAIN f
  /\ row = [model |-> row.model, decision |-> row.decision,
            status |-> StatusOf(t, f[KeyOf(row)]), completion |-> f[KeyOf(row)]]
Answered(row) ==
  IF tool = "oracle"
  THEN row.status \notin {"CACHE_MISS", "PROVIDER_ERROR", "ABORTED_PROVIDER_ERRORS"}
  ELSE row.status = "OK"
Extends(f, g) == \A k \in DOMAIN f : k \in DOMAIN g /\ g[k] = f[k]

\* A model that a complete report covers.
Done(name) == \E r \in ToSet(reports) : r.complete /\ \E row \in ToSet(r.rows) : row.model = name

(* As long as nothing fails, the cache in memory is the one in the file,   *)
(* no completion of it is ever replaced, and reports tell what it says.    *)
MemoryOK ==
  /\ IsSequence(file) /\ unterminated = FALSE
  /\ place \notin {"stopped", "sync"} => entries = Run!Load(file)
  /\ place = "sync" => Run!Load(file) = Run!Merge(entries, Run!Key(at), asked)
SnapshotOK ==
  place \in Running =>
    /\ \A i \in DOMAIN snapshot :
         /\ i \in 1..Decisions /\ Run!Key(i) \in DOMAIN entries
         /\ snapshot[i] = entries[Run!Key(i)]
    /\ place # "next" => \A i \in at..Decisions : Run!Key(i) \in DOMAIN entries => i \in DOMAIN snapshot
    /\ place \in {"put", "sync"} => at \notin DOMAIN snapshot
RowsTell == \A row \in ToSet(rows) : Answered(row) \/ Done(row.model) => Tells(tool, row, entries)
Told(r) ==
  /\ r = [models |-> r.models, rows |-> r.rows, complete |-> r.complete, faults |-> 0]
  /\ IsSequence(r.rows) /\ IsSequence(r.models)
  /\ r.complete \in BOOLEAN
  /\ r.complete <=> \A row \in ToSet(r.rows) : Answered(row)
  /\ r.complete => \A row \in ToSet(r.rows) : Tells(tool, row, Run!Load(file))
Faultless == MemoryOK /\ SnapshotOK /\ RowsTell /\ \A r \in ToSet(reports) : Told(r)
RepeatOK == faults \in Nat /\ Run!CompleteRunIsReproducible /\ (faults = 0 => Faultless)

LEMMA TellsMore ==
  ASSUME NEW t, NEW row, NEW f, NEW g, Tells(t, row, f), Extends(f, g)
  PROVE  Tells(t, row, g)
BY DEF Tells, Extends, KeyOf

LEMMA ToldKeeps ==
  ASSUME NEW r, Told(r), Extends(Run!Load(file), Run!Load(file)'), tool' = tool
  PROVE  Told(r)'
<1>1. \A row : Answered(row)' <=> Answered(row)
  BY DEF Answered
<1>2. ASSUME NEW row, Tells(tool, row, Run!Load(file))
      PROVE  Tells(tool, row, Run!Load(file))'
  <2>1. Tells(tool, row, Run!Load(file)')
    BY <1>2, TellsMore
  <2>2. QED
    BY <2>1
<1>3. QED
  BY <1>1, <1>2 DEF Told

\* A complete report has every decision of its models.
LEMMA DoneIsCached ==
  ASSUME RowsOK, \A r \in ToSet(reports) : Told(r), NEW name, Done(name), NEW d \in 1..Decisions
  PROVE  <<d, name>> \in DOMAIN Run!Load(file)
<1>1. PICK r \in ToSet(reports) : r.complete /\ \E row \in ToSet(r.rows) : row.model = name
  BY DEF Done
<1> PICK row \in ToSet(r.rows) : row.model = name
  BY <1>1
<1>2. Whole(r) /\ Told(r)
  BY DEF RowsOK
<1> DEFINE names == r.models
           s == [m \in DOMAIN names |-> Block(names[m])]
           rs == r.rows
<1>3. Pairs(rs) = FlattenSeq(s)
  BY <1>2 DEF Whole
<1>4. IsSequence(names) /\ IsSequence(rs)
  BY <1>2 DEF Told
<1>5. \A other \in ToSet(rs) : Tells(tool, other, Run!Load(file))
  BY <1>1, <1>2 DEF Told
<1>6. PICK i \in DOMAIN rs : row = rs[i]
  BY <1>1 DEF ToSet
<1> HIDE DEF names, rs
<1>7. Len(names) \in Nat /\ DOMAIN names = 1..Len(names)
  BY <1>4, AppendFacts
<1>8. Len(s) = Len(names)
  BY <1>7
<1>9. names # <<>> /\ Len(names) # 0
  <2>1. CASE Len(names) = 0
    <3>1. FlattenSeq(s) = s
      BY <1>8, <2>1, Zenon DEF FlattenSeq
    <3>2. DOMAIN s = {}
      BY <1>7, <2>1
    <3>3. DOMAIN Pairs(rs) = DOMAIN rs
      BY DEF Pairs
    <3>4. QED
      BY <1>3, <1>6, <3>1, <3>2, <3>3
  <2>2. QED
    BY <2>1
<1>10. PICK f : Unfolds(f, s)
  BY <1>7, <1>8, <1>9, FlattenFacts
<1>11. PICK n \in 1..Len(names) : n = Len(names)
  <2>1. Len(names) \in 1..Len(names)
    BY <1>7, <1>9
  <2>2. QED
    BY <2>1
<1>12. Pairs(rs) = f[n]
  BY <1>3, <1>8, <1>10, <1>11 DEF Unfolds
<1>13. PICK t : t = s
  OBVIOUS
<1>14. \A x : x \in ToSet(f[n]) <=> \E m \in 1..n, e \in 1..Decisions : x = <<names[m], e>>
  BY <1>4, <1>9, <1>10, <1>13, FlattenContains
<1>15. Pair(rs[i]) \in ToSet(f[n])
  <2>1. i \in DOMAIN Pairs(rs) /\ Pairs(rs)[i] = Pair(rs[i])
    BY DEF Pairs
  <2>2. QED
    BY <1>12, <2>1 DEF ToSet
<1>16. <<name, d>> \in ToSet(f[n])
  <2>1. PICK m \in 1..n, e \in 1..Decisions : Pair(rs[i]) = <<names[m], e>>
    BY <1>14, <1>15
  <2>2. names[m] = name
    BY <1>1, <1>6, <2>1 DEF Pair
  <2>3. QED
    BY <1>14, <2>2
<1>17. PICK k \in DOMAIN rs : Pair(rs[k]) = <<name, d>>
  <2>1. PICK k \in DOMAIN f[n] : f[n][k] = <<name, d>>
    BY <1>16 DEF ToSet
  <2>2. k \in DOMAIN rs /\ f[n][k] = Pair(rs[k])
    BY <1>12, <2>1 DEF Pairs
  <2>3. QED
    BY <2>1, <2>2
<1>18. KeyOf(rs[k]) = <<d, name>> /\ rs[k] \in ToSet(rs)
  BY <1>17 DEF KeyOf, Pair, ToSet
<1>19. QED
  BY <1>5, <1>18 DEF Tells

\* Rows are added, completions too.
LEMMA RowsKeepTelling ==
  ASSUME RowsTell, Extends(entries, entries'), UNCHANGED <<tool, reports>>,
         \A row \in ToSet(rows') :
           row \in ToSet(rows) \/ (Answered(row) \/ Done(row.model) => Tells(tool, row, entries'))
  PROVE  RowsTell'
<1>1. \A row : (Answered(row)' <=> Answered(row)) /\ (Done(row.model)' <=> Done(row.model))
  BY DEF Answered, Done
<1>2. ASSUME NEW row, Tells(tool, row, entries)
      PROVE  Tells(tool, row, entries')
  BY <1>2, TellsMore
<1>3. QED
  BY <1>1, <1>2 DEF RowsTell

\* The new report tells the same as an earlier one that was complete.
LEMMA Repeats ==
  ASSUME PlaceOK, RowsOK, Faultless, place = "next",
         NEW r, r \in ToSet(reports), r.complete, NEW report, Whole(report),
         report.rows = rows, report.models = r.models,
         report = [models |-> report.models, rows |-> rows, complete |-> report.complete, faults |-> 0],
         report.complete \in BOOLEAN,
         report.complete <=> \A row \in ToSet(rows) : Answered(row)
  PROVE  report = r
<1>1. Whole(r) /\ Told(r) /\ entries = Run!Load(file)
  BY DEF RowsOK, Faultless, MemoryOK
<1>2. Pairs(rows) = Pairs(r.rows)
  BY <1>1 DEF Whole
<1>3. DOMAIN rows = DOMAIN r.rows
  BY <1>2 DEF Pairs
<1>4. ASSUME NEW i \in DOMAIN rows
      PROVE  rows[i] = r.rows[i]
  <2>1. Pair(rows[i]) = Pair(r.rows[i])
    <3>1. Pairs(rows)[i] = Pair(rows[i]) /\ Pairs(r.rows)[i] = Pair(r.rows[i])
      BY <1>3 DEF Pairs
    <3>2. QED
      BY <1>2, <3>1
  <2>2. /\ rows[i].model = r.rows[i].model /\ rows[i].decision = r.rows[i].decision
        /\ KeyOf(rows[i]) = KeyOf(r.rows[i])
    BY <2>1 DEF Pair, KeyOf
  <2>3. rows[i] \in ToSet(rows) /\ r.rows[i] \in ToSet(r.rows)
    BY <1>3 DEF ToSet
  <2>4. Done(rows[i].model)
    BY <2>2, <2>3 DEF Done
  <2>5. Tells(tool, rows[i], entries) /\ Tells(tool, r.rows[i], entries)
    BY <1>1, <2>3, <2>4 DEF Faultless, RowsTell, Told
  <2>6. QED
    BY <2>2, <2>5 DEF Tells
<1>5. rows = r.rows
  <2>1. IsSequence(r.rows) /\ IsSequence(rows)
    BY <1>1 DEF Told, PlaceOK
  <2>2. PICK S, T : rows \in Seq(S) /\ r.rows \in Seq(T)
    BY <2>1 DEF IsSequence
  <2>3. rows = [i \in DOMAIN rows |-> rows[i]] /\ r.rows = [i \in DOMAIN r.rows |-> r.rows[i]]
    BY <2>2
  <2>4. QED
    BY <1>3, <1>4, <2>3
<1>6. report.complete = r.complete
  <2>1. report.complete /\ r.complete /\ report.complete \in BOOLEAN /\ r.complete \in BOOLEAN
    BY <1>1, <1>5 DEF Told
  <2>2. QED
    BY <2>1, Zenon
<1>7. r = [models |-> r.models, rows |-> r.rows, complete |-> r.complete, faults |-> 0]
  BY <1>1 DEF Told
<1>8. QED
  BY <1>5, <1>6, <1>7, Zenon

\* A model that misses a decision has no complete report.
LEMMA MissingIsNotDone ==
  ASSUME PlaceOK, RowsOK, Faultless, place \in {"row", "put"}, at \notin DOMAIN snapshot
  PROVE  Run!Key(at) \notin DOMAIN entries /\ ~Done(Models[model])
<1>1. at \in 1..Decisions /\ at \in at..Decisions
  BY RunAssumption DEF PlaceOK
<1>2. Run!Key(at) \notin DOMAIN entries /\ entries = Run!Load(file)
  BY <1>1 DEF Faultless, SnapshotOK, MemoryOK, Running
<1>3. ~Done(Models[model])
  BY <1>1, <1>2, DoneIsCached DEF Run!Key, Faultless
<1>4. QED
  BY <1>2, <1>3

LEMMA ErrorsTell ==
  ASSUME Faultless, ~Done(Models[model]), UNCHANGED <<tool, reports, entries>>,
         \A row \in ToSet(rows') : row \in ToSet(rows) \/ ErrorRow(row)
  PROVE  RowsTell'
<1>1. Extends(entries, entries')
  BY DEF Extends
<1>2. ASSUME NEW row, ErrorRow(row)
      PROVE  ~(Answered(row) \/ Done(row.model))
  BY <1>2 DEF ErrorRow, Answered
<1>3. QED
  BY <1>1, <1>2, RowsKeepTelling DEF Faultless

\* Nothing is written: what was reported stays true.
LEMMA ReportsStay ==
  ASSUME Faultless, UNCHANGED <<tool, file, reports>>
  PROVE  \A r \in ToSet(reports') : Told(r)'
<1>1. Run!Load(file)' = Run!Load(file)
  BY DEF Run!Load, Run!Garbage, Run!NoCompletion
<1>2. Extends(Run!Load(file), Run!Load(file)')
  BY <1>1 DEF Extends
<1>3. QED
  BY <1>2, ToldKeeps DEF Faultless

LEMMA StopFaultless ==
  ASSUME Faultless, Run!Stop, UNCHANGED <<file, unterminated>>,
         \A r \in ToSet(reports') : Told(r)'
  PROVE  Faultless'
<1>1. place' = "stopped" /\ rows' = <<>>
  BY DEF Run!Stop
<1>2. MemoryOK' /\ SnapshotOK'
  BY <1>1 DEF Faultless, MemoryOK, SnapshotOK, Running
<1>3. RowsTell'
  BY <1>1, EmptyFacts DEF RowsTell
<1>4. QED
  BY <1>2, <1>3 DEF Faultless

\* A line that is appended adds its completion to what is loaded.
LEMMA WriteFacts ==
  ASSUME PlaceOK, Faultless, place = "put", file' = Run!Appended(Run!Line)
  PROVE  /\ IsSequence(file')
         /\ Run!Load(file)' = Run!Merge(entries, Run!Key(at), asked)
         /\ Run!Key(at) \notin DOMAIN entries
         /\ Extends(Run!Load(file), Run!Load(file)')
<1>1. at \in 1..Decisions /\ at \in at..Decisions /\ at # 0
  BY RunAssumption DEF PlaceOK
<1>2. IsSequence(file) /\ entries = Run!Load(file) /\ file' = Append(file, Run!Line)
  BY DEF Faultless, MemoryOK, Run!Appended
<1>3. Run!Line.key = Run!Key(at) /\ Run!Line.completion = asked
  BY DEF Run!Line
<1>4. Run!Line # Run!Garbage
  <2>1. Run!Garbage.key = <<0, "none">>
    BY DEF Run!Garbage
  <2>2. Run!Key(at)[1] = at /\ <<0, "none">>[1] = 0
    BY DEF Run!Key
  <2>3. QED
    BY <1>1, <1>3, <2>1, <2>2
<1>5. Run!Load(Append(file, Run!Line)) = Run!Merge(entries, Run!Key(at), asked)
  BY <1>2, <1>3, <1>4, LoadAppend
<1>6. Run!Load(file)' = Run!Load(Append(file, Run!Line))
  BY <1>2 DEF Run!Load, Run!Garbage, Run!NoCompletion
<1>7. Run!Key(at) \notin DOMAIN entries
  BY <1>1 DEF Faultless, SnapshotOK, Running
<1>8. Extends(entries, Run!Merge(entries, Run!Key(at), asked))
  BY <1>7 DEF Extends, Run!Merge
<1>9. QED
  BY <1>2, <1>5, <1>6, <1>7, <1>8, AppendFacts

\* The completion is in memory, and its row in the report.
LEMMA PutFacts ==
  ASSUME PlaceOK, Faultless, place \in {"put", "sync"}, Run!PutReturns, UNCHANGED reports,
         Run!Key(at) \notin DOMAIN entries
  PROVE  SnapshotOK' /\ RowsTell' /\ place' \in {"row", "next"}
<1> DEFINE row == Run!Scored(at, asked)
<1>1. /\ rows' = Append(rows, row) /\ Run!Goto(at + 1)
      /\ entries' = Run!Merge(entries, Run!Key(at), asked)
      /\ UNCHANGED <<tool, model, snapshot>>
  BY DEF Run!PutReturns
<1>2. row = [model |-> Models[model], decision |-> at, status |-> StatusOf(tool, asked),
             completion |-> asked]
  BY ScoredIs
<1> HIDE DEF row
<1>3. place' \in {"row", "next"} /\ ToSet(rows') = ToSet(rows) \cup {row} /\ at' = at + 1
  BY <1>1, RowStep DEF Run!Goto
<1>4. /\ DOMAIN entries' = DOMAIN entries \cup {Run!Key(at)} /\ entries'[Run!Key(at)] = asked
      /\ \A k \in DOMAIN entries : k # Run!Key(at) => entries'[k] = entries[k]
  BY <1>1 DEF Run!Merge
<1>5. Extends(entries, entries')
  BY <1>4 DEF Extends
<1>6. KeyOf(row) = Run!Key(at)
  BY <1>2 DEF KeyOf, Run!Key
<1>7. Tells(tool, row, entries')
  BY <1>2, <1>4, <1>6 DEF Tells
<1>8. RowsTell'
  BY <1>1, <1>3, <1>5, <1>7, RowsKeepTelling DEF Faultless
<1>9. \A i : Run!Key(i)' = Run!Key(i) /\ (Run!Key(i) = Run!Key(at) => i = at)
  BY <1>1 DEF Run!Key
<1>10. at \in 1..Decisions /\ at \notin DOMAIN snapshot
  BY RunAssumption DEF PlaceOK, Faultless, SnapshotOK, Running
<1>11. \A i \in DOMAIN snapshot' : /\ i \in 1..Decisions /\ Run!Key(i)' \in DOMAIN entries'
                                  /\ snapshot'[i] = entries'[Run!Key(i)']
  BY <1>1, <1>4, <1>9, <1>10 DEF Faultless, SnapshotOK, Running
<1>12. \A i \in at' .. Decisions : Run!Key(i)' \in DOMAIN entries' => i \in DOMAIN snapshot'
  <2>1. ASSUME NEW i \in at' .. Decisions PROVE i \in at..Decisions /\ i # at
    BY <1>3, <1>10, RunAssumption
  <2>2. QED
    BY <1>1, <1>4, <1>9, <2>1 DEF Faultless, SnapshotOK, Running
<1>13. SnapshotOK'
  BY <1>3, <1>11, <1>12 DEF SnapshotOK
<1>14. QED
  BY <1>3, <1>8, <1>13

\* The model is about to go through its decisions.
LEMMA StartFaultless ==
  ASSUME Faultless, place = "model", snapshot' = Run!Cached, Run!Goto(1),
         UNCHANGED <<tool, file, unterminated, entries, model, rows, reports>>
  PROVE  Faultless'
<1>1. at' = 1 /\ place' \in {"row", "next"}
  BY DEF Run!Goto
<1>2. /\ DOMAIN Run!Cached = {i \in 1..Decisions : Run!Key(i) \in DOMAIN entries}
      /\ \A i \in DOMAIN Run!Cached : Run!Cached[i] = entries[Run!Key(i)]
  BY DEF Run!Cached
<1>3. \A i : Run!Key(i)' = Run!Key(i)
  BY DEF Run!Key
<1>4. SnapshotOK'
  BY <1>1, <1>2, <1>3 DEF SnapshotOK
<1>5. Run!Load(file)' = Run!Load(file)
  BY DEF Run!Load, Run!Garbage, Run!NoCompletion
<1>6. MemoryOK'
  BY <1>1, <1>5 DEF Faultless, MemoryOK
<1>7. RowsTell'
  BY RowsKeepTelling DEF Faultless, Extends
<1>8. QED
  BY <1>4, <1>6, <1>7, ReportsStay DEF Faultless

\* The rows so far make a report.
LEMMA ReportTold ==
  ASSUME PlaceOK, Faultless, place = "next", faults = 0, NEW report, IsSequence(report.models),
         report = [models |-> report.models, rows |-> rows, complete |-> report.complete,
                   faults |-> faults],
         report.complete \in BOOLEAN,
         report.complete <=> \A row \in ToSet(rows) : Answered(row),
         reports' = Append(reports, report), UNCHANGED <<tool, file>>
  PROVE  \A r \in ToSet(reports') : Told(r)'
<1>1. report.rows = rows /\ entries = Run!Load(file) /\ IsSequence(rows)
  BY DEF Faultless, MemoryOK, PlaceOK
<1>2. Told(report)
  <2>1. report = [models |-> report.models, rows |-> report.rows, complete |-> report.complete,
                  faults |-> 0]
    BY <1>1, Zenon
  <2>2. report.complete => \A row \in ToSet(report.rows) : Tells(tool, row, Run!Load(file))
    BY <1>1 DEF Faultless, RowsTell
  <2>3. report.complete <=> \A row \in ToSet(report.rows) : Answered(row)
    BY <1>1
  <2>4. QED
    BY <1>1, <2>1, <2>2, <2>3, Zenon DEF Told
<1>3. ToSet(reports') = ToSet(reports) \cup {report}
  BY ToSetFacts DEF PlaceOK
<1>4. Run!Load(file)' = Run!Load(file)
  BY DEF Run!Load, Run!Garbage, Run!NoCompletion
<1>5. Extends(Run!Load(file), Run!Load(file)')
  BY <1>4 DEF Extends
<1>6. QED
  BY <1>2, <1>3, <1>5, ToldKeeps DEF Faultless

\* What the two benchmarks report.
LEMMA ReportFacts ==
  ASSUME PlaceOK, Run!Report \/ Run!Summarize
  PROVE  \E report :
           /\ reports' = Append(reports, report)
           /\ report = [models |-> report.models, rows |-> rows, complete |-> report.complete,
                        faults |-> faults]
           /\ IsSequence(report.models)
           /\ report.complete \in BOOLEAN
           /\ report.complete <=> \A row \in ToSet(rows) : Answered(row)
<1>1. ToSet(rows) = {rows[i] : i \in DOMAIN rows}
  BY DEF ToSet
<1>2. CASE Run!Report
  <2>1. PICK report : report = [models |-> Models, rows |-> rows, complete |-> Run!IsComplete(rows),
                                faults |-> faults]
    OBVIOUS
  <2>2. tool = "oracle" /\ reports' = Append(reports, report)
    BY <1>2, <2>1, Zenon DEF Run!Report
  <2>3. Run!IsComplete(rows) <=> \A row \in ToSet(rows) : Answered(row)
    BY <1>1, <2>2 DEF Run!IsComplete, Answered
  <2>4. report.models = Models /\ report.complete = Run!IsComplete(rows)
    BY <2>1, Zenon
  <2>5. IsSequence(Models)
    BY RunAssumption DEF IsSequence
  <2>6. Run!IsComplete(rows) \in BOOLEAN
    BY DEF Run!IsComplete
  <2>7. report.complete \in BOOLEAN
    BY <2>4, <2>6, Zenon
  <2>8. report.complete <=> \A row \in ToSet(rows) : Answered(row)
    BY <2>3, <2>4, Zenon
  <2>9. report = [models |-> report.models, rows |-> rows, complete |-> report.complete, faults |-> faults]
    BY <2>1, <2>4, Zenon
  <2>10. QED
    BY <2>2, <2>4, <2>5, <2>7, <2>8, <2>9, Zenon
<1>3. CASE Run!Summarize
  <2>1. PICK report : report = [models |-> <<Models[model]>>, rows |-> rows,
                                complete |-> Run!CasesAreComplete(rows), faults |-> faults]
    OBVIOUS
  <2>2. tool = "pokerbench" /\ reports' = Append(reports, report)
    BY <1>3, <2>1, Zenon DEF Run!Summarize
  <2>3. Run!CasesAreComplete(rows) <=> \A row \in ToSet(rows) : Answered(row)
    <3>1. tool # "oracle"
      BY <2>2
    <3>2. QED
      BY <1>1, <3>1 DEF Run!CasesAreComplete, Answered
  <2>4. report.models = <<Models[model]>> /\ report.complete = Run!CasesAreComplete(rows)
    BY <2>1, Zenon
  <2>5. IsSequence(<<Models[model]>>)
    BY OneFacts
  <2>6. Run!CasesAreComplete(rows) \in BOOLEAN
    BY DEF Run!CasesAreComplete
  <2>7. report.complete \in BOOLEAN
    BY <2>4, <2>6, Zenon
  <2>8. report.complete <=> \A row \in ToSet(rows) : Answered(row)
    BY <2>3, <2>4, Zenon
  <2>9. report = [models |-> report.models, rows |-> rows, complete |-> report.complete, faults |-> faults]
    BY <2>1, <2>4, Zenon
  <2>10. QED
    BY <2>2, <2>4, <2>5, <2>7, <2>8, <2>9, Zenon
<1>4. QED
  BY <1>2, <1>3

LEMMA FaultlessStep ==
  ASSUME PlaceOK, PlaceOK', RowsOK, Faultless, faults = 0, faults' = 0, [Run!Next]_(Run!vars)
  PROVE  Faultless'
<1>1. MemoryOK /\ SnapshotOK /\ RowsTell /\ \A r \in ToSet(reports) : Told(r)
  BY DEF Faultless
<1>2. ASSUME UNCHANGED <<file>>
      PROVE  Run!Load(file)' = Run!Load(file)
  BY <1>2 DEF Run!Load, Run!Garbage, Run!NoCompletion
<1>3. CASE UNCHANGED Run!vars
  <2>1. UNCHANGED <<tool, file, unterminated, place, entries, model, snapshot, at, asked, rows, reports>>
    BY <1>3 DEF Run!vars, Run!disk, Run!process, Run!progress
  <2>2. MemoryOK'
    BY <1>1, <1>2, <2>1 DEF MemoryOK, Run!Key, Run!Merge
  <2>3. SnapshotOK'
    BY <1>1, <2>1 DEF SnapshotOK, Run!Key
  <2>4. RowsTell'
    BY <1>1, <2>1, RowsKeepTelling DEF Extends
  <2>5. QED
    BY <2>1, <2>2, <2>3, <2>4, ReportsStay DEF Faultless
<1>4. CASE Run!Launch
  <2>1. /\ entries' = Run!Load(file) /\ place' = "model" /\ rows' = <<>>
        /\ UNCHANGED <<tool, file, unterminated, reports>>
    BY <1>4 DEF Run!Launch, Run!disk, Run!progress, PlaceOK
  <2>2. MemoryOK' /\ SnapshotOK'
    BY <1>1, <1>2, <2>1 DEF MemoryOK, SnapshotOK, Running
  <2>3. RowsTell'
    BY <2>1, EmptyFacts DEF RowsTell
  <2>4. QED
    BY <2>1, <2>2, <2>3, ReportsStay DEF Faultless
<1>5. ASSUME Run!Stop, UNCHANGED <<tool, file, unterminated, reports>>
      PROVE  Faultless'
  BY <1>5, StopFaultless, ReportsStay
<1>6. CASE Run!StartModel
  BY <1>5, <1>6, StartFaultless DEF Run!StartModel, Run!disk
<1>7. CASE Run!StartCases
  BY <1>7, StartFaultless DEF Run!StartCases, Run!disk
<1>8. ASSUME place = "row", place' \in {"row", "next"}, at' \in {at + 1, Decisions + 1}, RowsTell',
             UNCHANGED <<tool, file, unterminated, entries, model, snapshot, reports>>
      PROVE  Faultless'
  <2>1. MemoryOK'
    BY <1>1, <1>2, <1>8 DEF MemoryOK
  <2>2. \A i \in at' .. Decisions : i \in at..Decisions
    BY <1>8, RunAssumption DEF PlaceOK
  <2>3. \A i : Run!Key(i)' = Run!Key(i)
    BY <1>8 DEF Run!Key
  <2>4. SnapshotOK'
    BY <1>1, <1>8, <2>2, <2>3 DEF SnapshotOK, Running
  <2>5. QED
    BY <1>8, <2>1, <2>4, ReportsStay DEF Faultless
<1>9. CASE Run!ScoreCached
  <2> DEFINE row == Run!Scored(at, snapshot[at])
  <2>1. /\ place = "row" /\ at \in DOMAIN snapshot /\ rows' = Append(rows, row) /\ Run!Goto(at + 1)
        /\ UNCHANGED <<tool, file, unterminated, entries, model, snapshot, reports>>
    BY <1>9 DEF Run!ScoreCached, Run!IsCached, Run!disk
  <2>2. row = [model |-> Models[model], decision |-> at, status |-> StatusOf(tool, snapshot[at]),
               completion |-> snapshot[at]]
    BY ScoredIs
  <2> HIDE DEF row
  <2>3. place' \in {"row", "next"} /\ ToSet(rows') = ToSet(rows) \cup {row} /\ at' = at + 1
    BY <2>1, RowStep DEF Run!Goto
  <2>4. Run!Key(at) \in DOMAIN entries /\ snapshot[at] = entries[Run!Key(at)]
    BY <1>1, <2>1 DEF SnapshotOK, Running
  <2>5. Tells(tool, row, entries')
    BY <2>1, <2>2, <2>4 DEF Tells, KeyOf, Run!Key
  <2>6. RowsTell'
    BY <1>1, <2>1, <2>3, <2>5, RowsKeepTelling DEF Extends
  <2>7. QED
    BY <1>8, <2>1, <2>3, <2>6
<1>10. CASE Run!CacheMiss
  <2> DEFINE row == Run!Row(at, "CACHE_MISS", Run!NoCompletion)
  <2>1. /\ place = "row" /\ at \notin DOMAIN snapshot /\ rows' = Append(rows, row) /\ Run!Goto(at + 1)
        /\ UNCHANGED <<tool, file, unterminated, entries, model, snapshot, reports>>
    BY <1>10 DEF Run!CacheMiss, Run!IsCached, Run!disk
  <2>2. ErrorRow(row)
    BY DEF Run!Row, ErrorRow
  <2> HIDE DEF row
  <2>3. place' \in {"row", "next"} /\ ToSet(rows') = ToSet(rows) \cup {row} /\ at' = at + 1
    BY <2>1, RowStep DEF Run!Goto
  <2>4. RowsTell'
    BY <2>1, <2>2, <2>3, MissingIsNotDone, ErrorsTell
  <2>5. QED
    BY <1>8, <2>1, <2>3, <2>4
<1>11. CASE Run!AskFails
  <2>1. /\ place = "row" /\ at \notin DOMAIN snapshot /\ Run!ProviderError
        /\ UNCHANGED <<tool, file, unterminated, reports>>
    BY <1>11 DEF Run!AskFails, Run!IsCached, Run!disk
  <2>2. /\ place' \in {"row", "next"} /\ UNCHANGED <<entries, model, snapshot>>
        /\ \A row \in ToSet(rows') : row \in ToSet(rows) \/ ErrorRow(row)
    BY <2>1, ErrorFacts
  <2>3. at' \in {at + 1, Decisions + 1}
    BY <2>1 DEF Run!ProviderError, Run!Goto
  <2>4. RowsTell'
    BY <2>1, <2>2, MissingIsNotDone, ErrorsTell
  <2>5. QED
    BY <1>8, <2>1, <2>2, <2>3, <2>4
<1>12. ASSUME NEW completion \in Completions, Run!Ask(completion) \/ Run!AskCase(completion)
       PROVE  Faultless'
  <2>1. CASE Run!Answers(completion)
    <3>1. /\ place = "row" /\ place' = "put" /\ at \notin DOMAIN snapshot
          /\ UNCHANGED <<tool, file, unterminated, entries, model, snapshot, at, rows, reports>>
      BY <1>12, <2>1 DEF Run!Ask, Run!AskCase, Run!Answers, Run!IsCached, Run!disk
    <3>2. MemoryOK'
      BY <1>1, <1>2, <3>1 DEF MemoryOK
    <3>3. SnapshotOK'
      BY <1>1, <3>1 DEF SnapshotOK, Running, Run!Key
    <3>4. RowsTell'
      BY <1>1, <3>1, RowsKeepTelling DEF Extends
    <3>5. QED
      BY <3>1, <3>2, <3>3, <3>4, ReportsStay DEF Faultless
  <2>2. CASE ~Run!Answers(completion)
    BY <1>5, <1>12, <2>2 DEF Run!Ask, Run!AskCase, Run!disk
  <2>3. QED
    BY <2>1, <2>2
<1>13. CASE Run!Write
  <2>1. /\ place = "put" /\ place' = "sync" /\ file' = Run!Appended(Run!Line) /\ unterminated' = FALSE
        /\ UNCHANGED <<tool, entries, model, snapshot, at, asked, rows, reports>>
    BY <1>13 DEF Run!Write, Run!progress
  <2>2. /\ IsSequence(file') /\ Run!Load(file)' = Run!Merge(entries, Run!Key(at), asked)
        /\ Extends(Run!Load(file), Run!Load(file)')
    BY <2>1, WriteFacts
  <2>3. MemoryOK'
    BY <2>1, <2>2 DEF MemoryOK, Run!Key, Run!Merge
  <2>4. SnapshotOK'
    BY <1>1, <2>1 DEF SnapshotOK, Running, Run!Key
  <2>5. RowsTell'
    BY <1>1, <2>1, RowsKeepTelling DEF Extends
  <2>6. \A r \in ToSet(reports') : Told(r)'
    BY <1>1, <2>1, <2>2, ToldKeeps
  <2>7. QED
    BY <2>3, <2>4, <2>5, <2>6 DEF Faultless
<1>14. CASE Run!Sync
  <2>1. /\ place = "sync" /\ Run!PutReturns /\ UNCHANGED <<tool, file, unterminated, reports>>
    BY <1>14 DEF Run!Sync, Run!PutReturns
  <2>2. Run!Load(file) = Run!Merge(entries, Run!Key(at), asked)
    BY <1>1, <2>1 DEF MemoryOK
  <2>3. Run!Key(at) \notin DOMAIN entries
    <3>1. at \in at..Decisions
      BY <2>1, RunAssumption DEF PlaceOK
    <3>2. QED
      BY <1>1, <2>1, <3>1 DEF SnapshotOK, Running
  <2>4. SnapshotOK' /\ RowsTell' /\ place' \in {"row", "next"}
    BY <2>1, <2>3, PutFacts
  <2>5. MemoryOK'
    BY <1>1, <1>2, <2>1, <2>2, <2>4 DEF MemoryOK, Run!PutReturns
  <2>6. QED
    BY <2>1, <2>4, <2>5, ReportsStay DEF Faultless
<1>15. CASE Run!PutCase
  <2>1. /\ place = "put" /\ Run!PutReturns /\ file' = Run!Appended(Run!Line) /\ unterminated' = FALSE
        /\ UNCHANGED <<tool, reports>>
    BY <1>15 DEF Run!PutCase, Run!PutReturns
  <2>2. /\ IsSequence(file') /\ Run!Load(file)' = Run!Merge(entries, Run!Key(at), asked)
        /\ Run!Key(at) \notin DOMAIN entries
        /\ Extends(Run!Load(file), Run!Load(file)')
    BY <2>1, WriteFacts
  <2>3. SnapshotOK' /\ RowsTell' /\ place' \in {"row", "next"}
    BY <2>1, <2>2, PutFacts
  <2>4. MemoryOK'
    BY <2>1, <2>2, <2>3 DEF MemoryOK, Run!PutReturns
  <2>5. \A r \in ToSet(reports') : Told(r)'
    BY <1>1, <2>1, <2>2, ToldKeeps
  <2>6. QED
    BY <2>3, <2>4, <2>5 DEF Faultless
<1>16. CASE Run!NextModel
  <2>1. /\ place = "next" /\ place' = "model"
        /\ UNCHANGED <<tool, file, unterminated, entries, rows, reports>>
    BY <1>16 DEF Run!NextModel, Run!disk
  <2>2. MemoryOK' /\ SnapshotOK'
    BY <1>1, <1>2, <2>1 DEF MemoryOK, SnapshotOK, Running
  <2>3. RowsTell'
    BY <1>1, <2>1, RowsKeepTelling DEF Extends
  <2>4. QED
    BY <2>1, <2>2, <2>3, ReportsStay DEF Faultless
<1>17. CASE Run!Report \/ Run!Summarize
  <2>1. /\ place = "next" /\ UNCHANGED <<tool, file, unterminated>>
    BY <1>17 DEF Run!Report, Run!Summarize, Run!disk
  <2>2. \A r \in ToSet(reports') : Told(r)'
    BY <1>17, <2>1, ReportFacts, ReportTold
  <2>3. CASE Run!Stop
    BY <2>1, <2>2, <2>3, StopFaultless
  <2>4. CASE rows' = <<>> /\ place' = "model" /\ UNCHANGED entries
    <3>1. MemoryOK' /\ SnapshotOK'
      BY <1>1, <1>2, <2>1, <2>4 DEF MemoryOK, SnapshotOK, Running
    <3>2. RowsTell'
      BY <2>4, EmptyFacts DEF RowsTell
    <3>3. QED
      BY <2>2, <3>1, <3>2 DEF Faultless
  <2>5. QED
    BY <1>17, <2>3, <2>4 DEF Run!Report, Run!Summarize
<1>18. ~(Run!WriteFails \/ Run!Interrupt \/ Run!PowerCut)
  BY DEF Run!WriteFails, Run!Interrupt, Run!PowerCut
<1>19. QED
  BY <1>3, <1>4, <1>6, <1>7, <1>9, <1>10, <1>11, <1>12, <1>13, <1>14, <1>15, <1>16, <1>17, <1>18
  DEF Run!Next

\* A new report that tells what an earlier one did.
LEMMA RepeatAppend ==
  ASSUME IsSequence(reports), Run!CompleteRunIsReproducible, NEW report,
         reports' = Append(reports, report),
         report.faults = 0 =>
           \A r \in ToSet(reports) : r.complete /\ r.models = report.models => report = r
  PROVE  Run!CompleteRunIsReproducible'
<1>1. PICK n \in Nat : n = Len(reports) /\ DOMAIN reports = 1..n
  BY AppendFacts
<1>2. /\ DOMAIN reports' = 1 .. n + 1 /\ reports'[n + 1] = report
      /\ \A i \in 1..n : reports'[i] = reports[i]
  BY <1>1, AppendFacts
<1>3. ASSUME NEW i \in 1 .. n + 1, NEW j \in 1 .. n + 1, i < j,
             reports'[i].models = reports'[j].models, reports'[i].complete, reports'[j].faults = 0
      PROVE  reports'[j] = reports'[i]
  <2>1. i \in 1..n
    BY <1>3
  <2>2. CASE j = n + 1
    <3>1. reports[i] \in ToSet(reports)
      BY <1>1, <2>1 DEF ToSet
    <3>2. QED
      BY <1>2, <1>3, <2>1, <2>2, <3>1
  <2>3. CASE j # n + 1
    <3>1. j \in 1..n
      BY <2>3
    <3>2. QED
      BY <1>1, <1>2, <1>3, <2>1, <3>1 DEF Run!CompleteRunIsReproducible
  <2>4. QED
    BY <2>2, <2>3
<1>4. QED
  BY <1>2, <1>3 DEF Run!CompleteRunIsReproducible

LEMMA RepeatStep ==
  PlaceOK /\ PlaceOK' /\ RowsOK /\ RowsOK' /\ RepeatOK /\ [Run!Next]_(Run!vars) => RepeatOK'
<1> SUFFICES ASSUME PlaceOK, PlaceOK', RowsOK, RowsOK', RepeatOK, [Run!Next]_(Run!vars)
             PROVE  RepeatOK'
  OBVIOUS
<1>1. faults \in Nat /\ (faults' = faults \/ faults' = faults + 1)
  BY DEF RepeatOK, Run!Next, Run!vars, Run!Launch, Run!StartModel, Run!StartCases, Run!ScoreCached,
         Run!CacheMiss, Run!AskFails, Run!Ask, Run!AskCase, Run!Answers, Run!Write, Run!Sync,
         Run!PutReturns, Run!PutCase, Run!WriteFails, Run!NextModel, Run!Report, Run!Summarize,
         Run!Interrupt, Run!PowerCut
<1>2. faults' \in Nat /\ (faults' = 0 => faults = 0)
  BY <1>1
<1>3. faults' = 0 => Faultless'
  BY <1>2, FaultlessStep DEF RepeatOK
<1>4. CASE Run!Report \/ Run!Summarize
  <2>1. PICK report :
          /\ reports' = Append(reports, report)
          /\ report = [models |-> report.models, rows |-> rows, complete |-> report.complete,
                       faults |-> faults]
          /\ report.complete \in BOOLEAN
          /\ report.complete <=> \A row \in ToSet(rows) : Answered(row)
    BY <1>4, ReportFacts
  <2>2. report.rows = rows /\ report.faults = faults
    BY <2>1
  <2>3. Whole(report)
    <3>1. report \in ToSet(reports')
      BY <2>1, ToSetFacts DEF PlaceOK
    <3>2. QED
      BY <3>1 DEF RowsOK, Whole
  <2>4. place = "next"
    BY <1>4 DEF Run!Report, Run!Summarize
  <2>5. ASSUME report.faults = 0, NEW r \in ToSet(reports), r.complete, r.models = report.models
        PROVE  report = r
    <3>1. faults = 0 /\ Faultless
      BY <2>2, <2>5 DEF RepeatOK
    <3>2. report = [models |-> report.models, rows |-> rows, complete |-> report.complete, faults |-> 0]
      BY <2>1, <3>1
    <3>3. report.models = r.models
      BY <2>5
    <3>4. QED
      BY <2>1, <2>2, <2>3, <2>4, <2>5, <3>1, <3>2, <3>3, Repeats
  <2>6. IsSequence(reports) /\ Run!CompleteRunIsReproducible
    BY DEF PlaceOK, RepeatOK
  <2>7. Run!CompleteRunIsReproducible'
    BY <2>1, <2>5, <2>6, RepeatAppend
  <2>8. QED
    BY <1>2, <1>3, <2>7 DEF RepeatOK
<1>5. CASE ~(Run!Report \/ Run!Summarize)
  <2>1. UNCHANGED reports
    BY <1>5 DEF Run!Next, Run!vars, Run!Launch, Run!StartModel, Run!StartCases, Run!ScoreCached,
         Run!CacheMiss, Run!AskFails, Run!Ask, Run!AskCase, Run!Answers, Run!Write, Run!Sync,
         Run!PutReturns, Run!PutCase, Run!WriteFails, Run!NextModel, Run!Interrupt, Run!PowerCut
  <2>2. Run!CompleteRunIsReproducible'
    BY <2>1 DEF RepeatOK, Run!CompleteRunIsReproducible
  <2>3. QED
    BY <1>2, <1>3, <2>2 DEF RepeatOK
<1>6. QED
  BY <1>4, <1>5

LEMMA RepeatInit == Run!Init => RepeatOK
<1> SUFFICES ASSUME Run!Init PROVE RepeatOK
  OBVIOUS
<1>1. reports = <<>> /\ rows = <<>> /\ file = <<>> /\ unterminated = FALSE /\ place = "stopped" /\ faults = 0
  BY DEF Run!Init
<1>2. Faultless
  BY <1>1, EmptyFacts DEF Faultless, MemoryOK, SnapshotOK, RowsTell, Running
<1>3. Run!CompleteRunIsReproducible
  BY <1>1 DEF Run!CompleteRunIsReproducible
<1>4. QED
  BY <1>1, <1>2, <1>3 DEF RepeatOK

(* A complete run is repeated from the cache, row for row, as long as      *)
(* nothing failed or was interrupted: ModelResponseCache and JsonlCache.   *)
THEOREM OfflineCompleteRunIsReproducible == OfflineSpec => []CompleteRunIsReproducible
<1>1. Run!Init => RowsOK
  BY EmptyFacts DEF Run!Init, RowsOK
<1>2. Run!Spec => []PlaceOK
  BY RunInit, PlaceStep, PTL DEF Run!Spec
<1>3. Run!Spec => []RowsOK
  BY <1>1, <1>2, RowsStep, PTL DEF Run!Spec
<1>4. Run!Spec => []RepeatOK
  BY <1>2, <1>3, RepeatInit, RepeatStep, PTL DEF Run!Spec
<1>5. RepeatOK => CompleteRunIsReproducible
  BY DEF RepeatOK, CompleteRunIsReproducible
<1>6. QED
  BY <1>4, <1>5, OfflineIsRun, PTL
=============================================================================
