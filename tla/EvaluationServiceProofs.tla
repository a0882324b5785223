---------------------- MODULE EvaluationServiceProofs ----------------------
(***************************************************************************)
(* Proofs about the solve server.  About EvaluationService for every set   *)
(* of threads, identifiers and decisions, every cache bound and every      *)
(* number of solves, and about RemoteExchange, where clients call it and   *)
(* its server is restarted, for every set of backends as well: the order   *)
(* in which entries are evicted plays no part, an eviction may drop any.   *)
(* About AdapterProcess, in the last part, for every set of process        *)
(* identifiers and every bound on requests: nothing a solver forks,        *)
(* detaches or orphans survives an exchange that does not say so.          *)
(***************************************************************************)
EXTENDS RemoteExchange, AdapterProcess, FiniteSetTheorems, NaturalsInduction, WellFoundedInduction, TLAPS

(* Where the threads are and what they ask for.                            *)
ControlOK ==
  /\ pc \in [Threads -> Places]
  /\ request \in [Threads -> Requests]
  /\ answer = [t \in Threads |-> answer[t]]

(* The slot has one holder at most.                                        *)
SlotOK == slot = {} \/ \E t \in Threads : slot = {t}

(* A response is retained for the decision it was solved for.              *)
CacheOK ==
  \A id \in DOMAIN cache : cache[id].body.fingerprint = cache[id].fingerprint

(* A thread that is about to store has a body.                             *)
StoreOK ==
  \A t \in Threads :
    pc[t] = "store" => answer[t].error = "none" /\ "body" \in DOMAIN answer[t]

(* The inductive invariant: the properties, and what they need.            *)
IInv ==
  /\ ControlOK /\ SlotOK /\ CacheOK /\ StoreOK
  /\ OneSolverAtATime
  /\ InFlightIsRunning
  /\ RetainedIsNotSolvedAgain
  /\ AnswerIsForItsDecision

-----------------------------------------------------------------------------
LEMMA InitEstablishes == Init => IInv
<1> SUFFICES ASSUME Init PROVE IInv
  OBVIOUS
<1>1. ControlOK /\ SlotOK /\ CacheOK /\ StoreOK
  BY DEF Init, ControlOK, SlotOK, CacheOK, StoreOK, Places, Holding, Raised
<1>2. OneSolverAtATime
  BY DEF Init, OneSolverAtATime, Holding
<1>3. InFlightIsRunning /\ RetainedIsNotSolvedAgain
  BY DEF Init, InFlightIsRunning, RetainedIsNotSolvedAgain, Running
<1>4. AnswerIsForItsDecision
  BY DEF Init, AnswerIsForItsDecision, Raised
<1>5. QED
  BY <1>1, <1>2, <1>3, <1>4 DEF IInv

(* A request and the answer to it belong to one thread, so a step of one   *)
(* thread that touches only its own place, slot and answer leaves the rest *)
(* as they were; each lemma below is one action.                           *)
LEMMA PostPreserves ==
  ASSUME IInv, NEW t \in Threads, NEW r \in Requests, Post(t, r) PROVE IInv'
<1> USE DEF IInv, Post, Goto, Answer, Raised
<1>1. ControlOK' /\ SlotOK' /\ CacheOK' /\ StoreOK'
  BY DEF ControlOK, SlotOK, CacheOK, StoreOK, Places, Holding
<1>2. OneSolverAtATime'
  BY DEF ControlOK, OneSolverAtATime, Holding
<1>3. InFlightIsRunning' /\ RetainedIsNotSolvedAgain'
  BY DEF ControlOK, InFlightIsRunning, RetainedIsNotSolvedAgain, Running, Id, IsCached
<1>4. AnswerIsForItsDecision'
  BY DEF ControlOK, AnswerIsForItsDecision
<1>5. QED
  BY <1>1, <1>2, <1>3, <1>4

LEMMA ReplayPreserves ==
  ASSUME IInv, NEW t \in Threads, NEW next \in {"idle", "forget"},
         Replay(t, next),
         \/ pc[t] = "check" /\ next = "idle"
         \/ pc[t] = "recheck" /\ next = "forget"
  PROVE  IInv'
<1> USE DEF IInv, Replay, Goto
<1>1. ControlOK' /\ SlotOK' /\ CacheOK' /\ StoreOK'
  BY DEF ControlOK, SlotOK, CacheOK, StoreOK, Places, Holding, Answer, Raised, Returned
<1>2. OneSolverAtATime'
  BY DEF ControlOK, OneSolverAtATime, Holding
<1>3. InFlightIsRunning' /\ RetainedIsNotSolvedAgain'
  BY DEF ControlOK, InFlightIsRunning, RetainedIsNotSolvedAgain, Running, Id, IsCached
<1>4. AnswerIsForItsDecision'
  BY DEF ControlOK, CacheOK, AnswerIsForItsDecision, Answer, Raised, Returned, Id, IsCached
<1>5. QED
  BY <1>1, <1>2, <1>3, <1>4

LEMMA CheckRunningPreserves ==
  ASSUME IInv, NEW t \in Threads, pc[t] = "check", CheckRunning(t) PROVE IInv'
<1> USE DEF IInv, CheckRunning, Goto, Answer, Raised
<1>1. ControlOK' /\ SlotOK' /\ CacheOK' /\ StoreOK'
  BY DEF ControlOK, SlotOK, CacheOK, StoreOK, Places, Holding
<1>2. OneSolverAtATime'
  BY DEF ControlOK, OneSolverAtATime, Holding
<1>3. InFlightIsRunning' /\ RetainedIsNotSolvedAgain'
  BY DEF ControlOK, InFlightIsRunning, RetainedIsNotSolvedAgain, Running, Id, IsCached
<1>4. AnswerIsForItsDecision'
  BY DEF ControlOK, AnswerIsForItsDecision
<1>5. QED
  BY <1>1, <1>2, <1>3, <1>4

LEMMA AcquirePreserves ==
  ASSUME IInv, NEW t \in Threads, Acquire(t) PROVE IInv'
<1> USE DEF IInv, Acquire, Goto, Answer, Raised
<1>1. ControlOK' /\ SlotOK' /\ CacheOK' /\ StoreOK'
  BY DEF ControlOK, SlotOK, CacheOK, StoreOK, Places, Holding
<1>2. OneSolverAtATime'
  BY DEF ControlOK, OneSolverAtATime, Holding
<1>3. InFlightIsRunning' /\ RetainedIsNotSolvedAgain'
  BY DEF ControlOK, InFlightIsRunning, RetainedIsNotSolvedAgain, Running, Id, IsCached
<1>4. AnswerIsForItsDecision'
  BY DEF ControlOK, AnswerIsForItsDecision
<1>5. QED
  BY <1>1, <1>2, <1>3, <1>4

(* Marking needs the second look: it is what keeps a retained response     *)
(* from being solved again.                                                *)
LEMMA MarkInFlightPreserves ==
  ASSUME IInv, NEW t \in Threads, pc[t] = "recheck", MarkInFlight(t) PROVE IInv'
<1> USE DEF IInv, MarkInFlight, Goto
<1>1. ControlOK' /\ SlotOK' /\ CacheOK' /\ StoreOK'
  BY DEF ControlOK, SlotOK, CacheOK, StoreOK, Places, Holding
<1>2. OneSolverAtATime'
  BY DEF ControlOK, OneSolverAtATime, Holding
<1>3. InFlightIsRunning'
  <2>1. \A u \in Threads \ {t} : pc[u] \notin Holding
    BY DEF OneSolverAtATime, Holding
  <2>2. \A u \in Threads : Running(u)' => u = t
    BY <2>1 DEF ControlOK, Running, Holding
  <2>3. pc'[t] = "solve" /\ Id(t)' = Id(t)
    BY DEF ControlOK, Id
  <2>4. \A id \in DOMAIN inFlight' : id = Id(t)
    BY <2>1 DEF InFlightIsRunning, Holding
  <2>5. Id(t) \in DOMAIN inFlight' /\ inFlight'[Id(t)] = request[t].fingerprint
    OBVIOUS
  <2>6. QED
    BY <2>2, <2>3, <2>4, <2>5 DEF InFlightIsRunning
<1>4. RetainedIsNotSolvedAgain'
  BY DEF ControlOK, RetainedIsNotSolvedAgain, Running, Id, IsCached
<1>5. AnswerIsForItsDecision'
  BY DEF AnswerIsForItsDecision
<1>6. QED
  BY <1>1, <1>2, <1>3, <1>4, <1>5

LEMMA SolvePreserves ==
  ASSUME IInv, NEW t \in Threads, Solve(t) PROVE IInv'
<1> USE DEF IInv, Solve, Goto, Answer, Raised, Returned
<1>1. ControlOK' /\ SlotOK' /\ CacheOK' /\ StoreOK'
  BY DEF ControlOK, SlotOK, CacheOK, StoreOK, Places, Holding
<1>2. OneSolverAtATime'
  BY DEF ControlOK, OneSolverAtATime, Holding
<1>3. InFlightIsRunning'
  BY DEF ControlOK, InFlightIsRunning, Running, Id
<1>4. RetainedIsNotSolvedAgain'
  BY DEF ControlOK, RetainedIsNotSolvedAgain, Running, Id, IsCached
<1>5. AnswerIsForItsDecision'
  BY DEF ControlOK, AnswerIsForItsDecision
<1>6. QED
  BY <1>1, <1>2, <1>3, <1>4, <1>5

(* The stored identifier was not retained, and no other thread is solving. *)
LEMMA StorePreserves ==
  ASSUME IInv, NEW t \in Threads, Store(t) PROVE IInv'
<1> USE DEF IInv
<1> DEFINE entry == [fingerprint |-> request[t].fingerprint, body |-> answer[t].body]
<1>1. PICK gone :
        cache' = [id \in (DOMAIN cache \cup {Id(t)}) \ gone |->
                    IF id = Id(t) THEN entry ELSE cache[id]]
  BY DEF Store
<1>2. /\ pc[t] = "store"
      /\ pc' = [pc EXCEPT ![t] = "forget"]
      /\ UNCHANGED <<inFlight, slot, request, answer, solves>>
  BY DEF Store, Goto
<1>3. entry.body.fingerprint = entry.fingerprint
  BY <1>2 DEF StoreOK, AnswerIsForItsDecision
<1> HIDE DEF entry
<1>4. CacheOK'
  BY <1>1, <1>3 DEF CacheOK
<1>5. ControlOK' /\ SlotOK' /\ StoreOK'
  BY <1>2 DEF ControlOK, SlotOK, StoreOK, Places, Holding
<1>6. OneSolverAtATime'
  BY <1>2 DEF ControlOK, OneSolverAtATime, Holding
<1>7. InFlightIsRunning'
  BY <1>2 DEF ControlOK, InFlightIsRunning, Running, Id
<1>8. RetainedIsNotSolvedAgain'
  BY <1>2 DEF ControlOK, OneSolverAtATime, RetainedIsNotSolvedAgain, Running, Holding
<1>9. AnswerIsForItsDecision'
  BY <1>2 DEF AnswerIsForItsDecision
<1>10. QED
  BY <1>4, <1>5, <1>6, <1>7, <1>8, <1>9

LEMMA ForgetPreserves ==
  ASSUME IInv, NEW t \in Threads, Forget(t) PROVE IInv'
<1> USE DEF IInv, Forget, Goto
<1>1. ControlOK' /\ SlotOK' /\ CacheOK' /\ StoreOK'
  BY DEF ControlOK, SlotOK, CacheOK, StoreOK, Places, Holding
<1>2. OneSolverAtATime'
  BY DEF ControlOK, OneSolverAtATime, Holding
<1>3. InFlightIsRunning'
  <2>1. \A u \in Threads \ {t} : pc[u] \notin Holding /\ pc'[u] = pc[u]
    BY DEF ControlOK, OneSolverAtATime, Holding
  <2>2. DOMAIN inFlight' = {}
    BY <2>1 DEF InFlightIsRunning, Holding
  <2>3. \A u \in Threads : ~Running(u)'
    BY <2>1 DEF ControlOK, Running, Holding
  <2>4. QED
    BY <2>2, <2>3 DEF InFlightIsRunning
<1>4. RetainedIsNotSolvedAgain'
  BY DEF ControlOK, RetainedIsNotSolvedAgain, Running, Id, IsCached
<1>5. AnswerIsForItsDecision'
  BY DEF AnswerIsForItsDecision
<1>6. QED
  BY <1>1, <1>2, <1>3, <1>4, <1>5

LEMMA ReleasePreserves ==
  ASSUME IInv, NEW t \in Threads, Release(t) PROVE IInv'
<1> USE DEF IInv, Release, Goto
<1>1. slot = {t} /\ slot' = {}
  BY DEF OneSolverAtATime, Holding
<1>2. ControlOK' /\ SlotOK' /\ CacheOK' /\ StoreOK'
  BY <1>1 DEF ControlOK, SlotOK, CacheOK, StoreOK, Places, Holding
<1>3. OneSolverAtATime'
  BY <1>1 DEF ControlOK, OneSolverAtATime, Holding
<1>4. InFlightIsRunning' /\ RetainedIsNotSolvedAgain'
  BY DEF ControlOK, InFlightIsRunning, RetainedIsNotSolvedAgain, Running, Id, IsCached
<1>5. AnswerIsForItsDecision'
  BY DEF AnswerIsForItsDecision
<1>6. QED
  BY <1>2, <1>3, <1>4, <1>5

LEMMA StepPreserves == IInv /\ [Next]_vars => IInv'
<1> SUFFICES ASSUME IInv, [Next]_vars PROVE IInv'
  OBVIOUS
<1>1. CASE UNCHANGED vars
  BY <1>1 DEF vars, IInv, ControlOK, SlotOK, CacheOK, StoreOK, OneSolverAtATime,
     InFlightIsRunning, RetainedIsNotSolvedAgain, AnswerIsForItsDecision,
     Running, Id, IsCached
<1>2. ASSUME NEW t \in Threads, NEW r \in Requests, Post(t, r) PROVE IInv'
  BY <1>2, PostPreserves
<1>3. ASSUME NEW t \in Threads, Evaluate(t) PROVE IInv'
  <2>1. CASE FirstLook(t)
    BY <2>1, ReplayPreserves, CheckRunningPreserves DEF FirstLook
  <2>2. CASE Acquire(t)
    BY <2>2, AcquirePreserves
  <2>3. CASE SecondLook(t)
    BY <2>3, ReplayPreserves, MarkInFlightPreserves DEF SecondLook
  <2>4. CASE Solve(t)
    BY <2>4, SolvePreserves
  <2>5. CASE Store(t)
    BY <2>5, StorePreserves
  <2>6. CASE Forget(t)
    BY <2>6, ForgetPreserves
  <2>7. CASE Release(t)
    BY <2>7, ReleasePreserves
  <2>8. QED
    BY <1>3, <2>1, <2>2, <2>3, <2>4, <2>5, <2>6, <2>7 DEF Evaluate
<1>4. QED
  BY <1>1, <1>2, <1>3 DEF Next

(* Every reachable state satisfies the inductive invariant.                *)
THEOREM ServiceInvariant == Spec => []IInv
BY InitEstablishes, StepPreserves, PTL DEF Spec

(* The slot excludes: one thread at most is between taking and releasing   *)
(* it, whichever of evaluate()'s exits it takes.                           *)
THEOREM ServiceOneSolver == Spec => []OneSolverAtATime
<1>1. IInv => OneSolverAtATime
  BY DEF IInv
<1>2. QED
  BY <1>1, ServiceInvariant, PTL

(* No identifier stays in flight once its solve ended, and none that runs  *)
(* is missing.                                                             *)
THEOREM ServiceInFlight == Spec => []InFlightIsRunning
<1>1. IInv => InFlightIsRunning
  BY DEF IInv
<1>2. QED
  BY <1>1, ServiceInvariant, PTL

(* A retained response is never solved again.                              *)
THEOREM ServiceSolvesOnce == Spec => []RetainedIsNotSolvedAgain
<1>1. IInv => RetainedIsNotSolvedAgain
  BY DEF IInv
<1>2. QED
  BY <1>1, ServiceInvariant, PTL

(* No caller is given the body of another decision.                        *)
THEOREM ServiceAnswers == Spec => []AnswerIsForItsDecision
<1>1. IInv => AnswerIsForItsDecision
  BY DEF IInv
<1>2. QED
  BY <1>1, ServiceInvariant, PTL

(* A retained response is replaced by no other.                            *)
THEOREM ServiceImmutable == Spec => RetainedIsImmutable
<1> DEFINE Kept == \A id \in DOMAIN cache : id \in DOMAIN cache' => cache'[id] = cache[id]
<1>1. IInv /\ [Next]_vars => [Kept]_vars
  <2> SUFFICES ASSUME IInv, [Next]_vars PROVE Kept \/ UNCHANGED vars
    OBVIOUS
  <2>1. CASE cache' = cache
    BY <2>1
  <2>2. ASSUME NEW t \in Threads, Store(t) PROVE Kept
    <3>1. ~IsCached(Id(t))
      BY <2>2 DEF IInv, RetainedIsNotSolvedAgain, Running, Store
    <3>2. QED
      BY <2>2, <3>1 DEF Store, IsCached
  <2>3. ASSUME NEW t \in Threads, Evaluate(t) \/ \E r \in Requests : Post(t, r)
        PROVE  cache' = cache \/ Store(t)
    BY <2>3 DEF Evaluate, Post, FirstLook, SecondLook, Replay, CheckRunning, Acquire,
       MarkInFlight, Solve, Forget, Release
  <2>4. QED
    BY <2>1, <2>2, <2>3 DEF Next
<1>2. QED
  BY <1>1, ServiceInvariant, PTL DEF Spec, RetainedIsImmutable

-----------------------------------------------------------------------------
(* The exchange (RemoteExchange): what players a decision has seen.        *)

\* What the profile counts after each of the first n events.
Counts(f, d, n) ==
  f = [i \in 0..n |-> IF i = 0 THEN [now |-> d.seats, peak |-> 0]
                      ELSE Counted(f[i - 1], d.events[i])]

\* A property of numbers that fails has a least number where it does.
LEMMA LeastNumber ==
  ASSUME NEW B, B \subseteq Nat, B # {}
  PROVE  \E k \in B : \A l \in B : k <= l
<1>1. PICK k \in B : \A l \in B : ~(<<l, k>> \in OpToRel(<, Nat))
  BY NatLessThanWellFounded, WFMin
<1>2. \A l \in B : l \in Nat /\ k \in Nat /\ ~(l < k)
  BY <1>1 DEF OpToRel
<1>3. QED
  BY <1>2

LEMMA CountsExist ==
  ASSUME NEW d, NEW n \in Nat
  PROVE  \E f : Counts(f, d, n)
<1> DEFINE B == {k \in Nat : ~\E f : Counts(f, d, k)}
<1>1. SUFFICES ASSUME B # {} PROVE FALSE
  BY Zenon
<1>2. PICK k \in B : \A l \in B : k <= l
  <2> HIDE DEF B
  <2>1. B \subseteq Nat
    BY DEF B
  <2>2. QED
    BY <1>1, <2>1, LeastNumber
<1>3. k \in Nat /\ ~\E f : Counts(f, d, k)
  BY Zenon
<1>4. CASE k = 0
  <2>1. PICK f : f = [i \in 0..0 |-> [now |-> d.seats, peak |-> 0]]
    OBVIOUS
  <2>2. f = [i \in 0..k |-> IF i = 0 THEN [now |-> d.seats, peak |-> 0]
                            ELSE Counted(f[i - 1], d.events[i])]
    BY <1>4, <2>1
  <2>3. QED
    BY <1>3, <2>2, Zenon DEF Counts
<1>5. CASE k # 0
  <2>1. k - 1 \in Nat /\ ~(k <= k - 1)
    BY <1>3, <1>5
  <2>2. PICK h : Counts(h, d, k - 1)
    BY <1>2, <2>1
  <2>3. PICK g : g = [i \in 0..k |-> IF i \in 0 .. k - 1 THEN h[i]
                                     ELSE Counted(h[i - 1], d.events[i])]
    OBVIOUS
  <2>4. ASSUME NEW i \in 0..k
        PROVE  g[i] = IF i = 0 THEN [now |-> d.seats, peak |-> 0]
                      ELSE Counted(g[i - 1], d.events[i])
    <3>1. i # 0 => i - 1 \in 0 .. k - 1 /\ i - 1 \in 0..k
      BY <1>3
    <3>2. i # 0 => g[i - 1] = h[i - 1]
      BY <2>3, <3>1
    <3>3. i = 0 => i \in 0 .. k - 1
      BY <1>3, <1>5
    <3>4. i \in 0 .. k - 1 => h[i] = IF i = 0 THEN [now |-> d.seats, peak |-> 0]
                                     ELSE Counted(h[i - 1], d.events[i])
      BY <2>2 DEF Counts
    <3>5. g[i] = IF i = 0 THEN [now |-> d.seats, peak |-> 0]
                 ELSE Counted(h[i - 1], d.events[i])
      BY <2>3, <3>3, <3>4
    <3>6. QED
      BY <3>2, <3>5
  <2>5. g = [i \in 0..k |-> IF i = 0 THEN [now |-> d.seats, peak |-> 0]
                            ELSE Counted(g[i - 1], d.events[i])]
    BY <2>3, <2>4
  <2>6. QED
    BY <1>3, <2>5, Zenon DEF Counts
<1>6. QED
  BY <1>4, <1>5

LEMMA ProfileFacts ==
  ASSUME NEW d, d.events \in Seq(STRING)
  PROVE  \E f : Counts(f, d, Len(d.events)) /\ PlayerProfile(d) = f[Len(d.events)]
<1>1. PICK f : f = CHOOSE g : Counts(g, d, Len(d.events))
  OBVIOUS
<1>2. PlayerProfile(d) = f[Len(d.events)]
  BY <1>1, Zenon DEF PlayerProfile, Counts
<1>3. Len(d.events) \in Nat
  OBVIOUS
<1>4. Counts(f, d, Len(d.events))
  BY <1>1, <1>3, CountsExist, Zenon
<1>5. QED
  BY <1>2, <1>4

Folds(d, n) == {i \in 1..n : d.events[i] = "FOLD"}
FlopDealt(d, n) == \E j \in 1..n : d.events[j] = "DEAL_FLOP"
FoldsBefore(d, n) ==
  {i \in 1..n : d.events[i] = "FOLD" /\ \E j \in 1..n : i < j /\ d.events[j] = "DEAL_FLOP"}

CountsRight(f, d, n) ==
  /\ f[n].now = d.seats - Cardinality(Folds(d, n))
  /\ FlopDealt(d, n) => f[n].peak = d.seats - Cardinality(FoldsBefore(d, n))
  /\ ~FlopDealt(d, n) => f[n].peak = 0

LEMMA NextCount ==
  ASSUME NEW d, d.seats \in Nat, NEW f, NEW n \in Nat \ {0},
         f[n] = Counted(f[n - 1], d.events[n]), CountsRight(f, d, n - 1)
  PROVE  CountsRight(f, d, n)
<1>1. /\ n - 1 \in Nat /\ 1..n = (1 .. n - 1) \cup {n} /\ n \notin 1 .. n - 1
      /\ IsFiniteSet(1 .. n - 1) /\ n \in 1..n
  <2>1. n - 1 \in Int /\ 1 \in Int
    OBVIOUS
  <2>2. IsFiniteSet(1 .. n - 1)
    BY <2>1, FS_Interval
  <2>3. QED
    BY <2>2
<1>2. Folds(d, n - 1) \subseteq 1 .. n - 1 /\ IsFiniteSet(Folds(d, n - 1))
  BY <1>1, FS_Subset DEF Folds
<1>3. Cardinality(Folds(d, n - 1)) \in Nat
  BY <1>2, FS_CardinalityType
<1>4. CASE d.events[n] = "FOLD"
  <2>1. Folds(d, n) = Folds(d, n - 1) \cup {n}
    BY <1>1, <1>4 DEF Folds
  <2>2. Cardinality(Folds(d, n)) = Cardinality(Folds(d, n - 1)) + 1
    BY <1>1, <1>2, <2>1, FS_AddElement
  <2>3. FoldsBefore(d, n) = FoldsBefore(d, n - 1)
    BY <1>1, <1>4 DEF FoldsBefore
  <2>4. FlopDealt(d, n) <=> FlopDealt(d, n - 1)
    BY <1>1, <1>4 DEF FlopDealt
  <2>5. f[n].now = f[n - 1].now - 1 /\ f[n].peak = f[n - 1].peak
    BY <1>4 DEF Counted
  <2>6. QED
    BY <1>3, <2>2, <2>3, <2>4, <2>5 DEF CountsRight
<1>5. CASE d.events[n] = "DEAL_FLOP"
  <2>1. Folds(d, n) = Folds(d, n - 1)
    BY <1>1, <1>5 DEF Folds
  <2>2. FoldsBefore(d, n) = Folds(d, n - 1)
    BY <1>1, <1>5 DEF FoldsBefore, Folds
  <2>3. f[n].now = f[n - 1].now /\ f[n].peak = f[n - 1].now /\ FlopDealt(d, n)
    BY <1>1, <1>5 DEF Counted, FlopDealt
  <2>4. QED
    BY <2>1, <2>2, <2>3 DEF CountsRight
<1>6. CASE d.events[n] \notin {"FOLD", "DEAL_FLOP"}
  <2>1. Folds(d, n) = Folds(d, n - 1)
    BY <1>1, <1>6 DEF Folds
  <2>2. FoldsBefore(d, n) = FoldsBefore(d, n - 1)
    BY <1>1, <1>6 DEF FoldsBefore
  <2>3. FlopDealt(d, n) <=> FlopDealt(d, n - 1)
    BY <1>1, <1>6 DEF FlopDealt
  <2>4. f[n].now = f[n - 1].now /\ f[n].peak = f[n - 1].peak
    BY <1>6 DEF Counted
  <2>5. QED
    BY <2>1, <2>2, <2>3, <2>4 DEF CountsRight
<1>7. QED
  BY <1>4, <1>5, <1>6

\* The profile's peak is the number of players that saw the flop.
LEMMA PeakIsWhoSawFlop ==
  ASSUME NEW d \in Fingerprints
  PROVE  /\ SawFlop(d) \in Int /\ Peak(d) \in Int
         /\ Street(d) = "POSTFLOP" => SawFlop(d) <= Peak(d)
         /\ d.events = <<>> => PlayerProfile(d).now = d.seats
<1>1. d.seats \in Nat /\ d.events \in Seq(STRING) /\ (d.events # <<>> => d.street = "PREFLOP")
  BY ExchangeAssumption
<1>2. PICK f : Counts(f, d, Len(d.events)) /\ PlayerProfile(d) = f[Len(d.events)]
  BY <1>1, ProfileFacts
<1>3. PICK m \in Nat : m = Len(d.events) /\ DOMAIN d.events = 1..m
  BY <1>1
<1>4. \A n \in 0..m : CountsRight(f, d, n)
  <2> DEFINE B == {n \in 0..m : ~CountsRight(f, d, n)}
  <2>1. SUFFICES ASSUME B # {} PROVE FALSE
    OBVIOUS
  <2>2. PICK k \in B : \A l \in B : k <= l
    <3> HIDE DEF B
    <3>1. B \subseteq Nat
      BY DEF B
    <3>2. QED
      BY <2>1, <3>1, LeastNumber
  <2>3. k \in 0..m /\ ~CountsRight(f, d, k)
    OBVIOUS
  <2>4. \A i \in 0..m : f[i] = IF i = 0 THEN [now |-> d.seats, peak |-> 0]
                               ELSE Counted(f[i - 1], d.events[i])
    BY <1>2, <1>3 DEF Counts
  <2>5. k # 0
    <3>1. Folds(d, 0) = {} /\ ~FlopDealt(d, 0)
         /\ f[0].now = d.seats /\ f[0].peak = 0
      BY <2>4 DEF Folds, FlopDealt
    <3>2. Cardinality(Folds(d, 0)) = 0
      BY <3>1, FS_EmptySet
    <3>3. CountsRight(f, d, 0)
      BY <1>1, <3>1, <3>2 DEF CountsRight
    <3>4. QED
      BY <2>3, <3>3
  <2>6. k - 1 \in 0..m /\ ~(k <= k - 1) /\ k \in Nat \ {0}
    BY <2>3, <2>5
  <2>7. CountsRight(f, d, k - 1)
    BY <2>2, <2>6
  <2>8. f[k] = Counted(f[k - 1], d.events[k])
    BY <2>3, <2>4, <2>5
  <2>9. QED
    BY <1>1, <2>3, <2>6, <2>7, <2>8, NextCount
<1>5. CountsRight(f, d, m)
  BY <1>3, <1>4
<1>6. SawFlop(d) = d.seats - Cardinality(FoldsBefore(d, m))
  BY <1>3 DEF SawFlop, FoldsBefore
<1>7. IsFiniteSet(Folds(d, m)) /\ IsFiniteSet(FoldsBefore(d, m))
  <2>0. 1 \in Int /\ m \in Int
    BY <1>3
  <2>1. IsFiniteSet(1..m)
    BY <2>0, FS_Interval
  <2>2. Folds(d, m) \subseteq 1..m /\ FoldsBefore(d, m) \subseteq 1..m
    BY DEF Folds, FoldsBefore
  <2>3. QED
    BY <2>1, <2>2, FS_Subset
<1>8. Cardinality(Folds(d, m)) \in Nat /\ Cardinality(FoldsBefore(d, m)) \in Nat
  BY <1>7, FS_CardinalityType
<1>9. PlayerProfile(d) = f[m]
  BY <1>2, <1>3
<1>10. ASSUME Street(d) = "POSTFLOP"
       PROVE  SawFlop(d) <= Peak(d)
  <2>1. CASE FlopDealt(d, m)
    <3>1. f[m].peak = SawFlop(d) /\ f[m].peak \in Int /\ f[m].now \in Int
      BY <1>1, <1>5, <1>6, <1>8, <2>1 DEF CountsRight
    <3>2. QED
      BY <1>9, <3>1 DEF Peak
  <2>2. CASE ~FlopDealt(d, m)
    <3>1. d.events = <<>>
      BY <1>1, <1>3, <1>10, <2>2 DEF Street, FlopDealt
    <3>2. m = 0
      BY <1>3, <3>1
    <3>3. FoldsBefore(d, m) = {} /\ Folds(d, m) = {}
      BY <3>2 DEF Folds, FoldsBefore
    <3>4. f[m].now = d.seats /\ SawFlop(d) = d.seats /\ f[m].peak = 0
      BY <1>1, <1>2, <1>3, <1>5, <1>6, <3>2, <3>3, FS_EmptySet DEF CountsRight, Counts
    <3>5. QED
      BY <1>1, <1>9, <3>4 DEF Peak
  <2>3. QED
    BY <2>1, <2>2
<1>11. ASSUME d.events = <<>>
       PROVE  PlayerProfile(d).now = d.seats
  <2>1. m = 0
    BY <1>3, <1>11
  <2>2. QED
    BY <1>2, <1>9, <2>1 DEF Counts
<1>12. SawFlop(d) \in Int /\ Peak(d) \in Int
  <2>1. f[m].now \in Int /\ SawFlop(d) \in Int
    BY <1>1, <1>5, <1>6, <1>8 DEF CountsRight
  <2>2. CASE FlopDealt(d, m)
    <3>1. f[m].peak \in Int
      BY <1>1, <1>5, <1>8, <2>2 DEF CountsRight
    <3>2. QED
      BY <1>9, <2>1, <3>1 DEF Peak
  <2>3. CASE ~FlopDealt(d, m)
    BY <1>5, <1>9, <2>1, <2>3 DEF Peak, CountsRight
  <2>4. QED
    BY <2>2, <2>3
<1>13. QED
  BY <1>10, <1>11, <1>12

-----------------------------------------------------------------------------
(* What the exchange adds to the service: every body that is kept or on    *)
(* its way was answered by the router for its decision, and a client that  *)
(* waits asked for a decision its manifest covers.                         *)

MadeFor(answers, body) ==
  /\ body.solve \in DOMAIN answers
  /\ \E b \in Backends \cup {Pinned} : answers[body.solve] \in RouterAnswers(b, body.fingerprint)

MadeOK ==
  /\ backend \in Backends \cup {Pinned}
  /\ solves \in Nat /\ made = [n \in 1..solves |-> made[n]]
  /\ \A id \in DOMAIN cache : MadeFor(made, cache[id].body)
  /\ \A t \in Threads :
       answer[t].error = "none" /\ "body" \in DOMAIN answer[t] => MadeFor(made, answer[t].body)

(* A thread that is done has an answer.                                    *)
DoneOK ==
  \A t \in Threads :
    pc[t] \in {"store", "forget", "release"} \/ (t \in waiting /\ pc[t] = "idle")
      => answer[t].error # "none" \/ "body" \in DOMAIN answer[t]

WaitingOK ==
  \A t \in waiting :
    /\ t \in Threads
    /\ request[t].fingerprint.schema = 3 => SupportGaps(Pinned, request[t].fingerprint) = {}

ExchangeInv == IInv /\ MadeOK /\ DoneOK /\ WaitingOK

LEMMA ExchangeInitial == ExchangeInit => ExchangeInv
<1> SUFFICES ASSUME ExchangeInit PROVE ExchangeInv
  OBVIOUS
<1>1. IInv
  BY InitEstablishes DEF ExchangeInit
<1>2. MadeOK
  <2>1. made = [n \in 1..0 |-> made[n]]
    BY DEF ExchangeInit
  <2>2. QED
    BY <2>1 DEF ExchangeInit, Init, MadeOK, Raised
<1>3. DoneOK /\ WaitingOK
  BY DEF ExchangeInit, Init, DoneOK, WaitingOK
<1>4. QED
  BY <1>1, <1>2, <1>3 DEF ExchangeInv

\* What the router answered stays what it answered until a restart.
LEMMA StillMade ==
  ASSUME NEW n \in Nat, NEW m, m = [i \in 1..n |-> m[i]], NEW a, NEW body, MadeFor(m, body)
  PROVE  MadeFor(Append(m, a), body)
<1>1. m \in Seq(Range(m)) /\ Len(m) = n
  <2>1. m \in [1..n -> Range(m)]
    BY DEF Range
  <2>2. QED
    BY <2>1
<1>2. \A i \in 1..n : i \in DOMAIN Append(m, a) /\ Append(m, a)[i] = m[i]
  BY <1>1
<1>3. QED
  BY <1>2 DEF MadeFor

LEMMA NowMade ==
  ASSUME NEW n \in Nat, NEW m, m = [i \in 1..n |-> m[i]], NEW d,
         NEW b \in Backends \cup {Pinned}, NEW a \in RouterAnswers(b, d)
  PROVE  /\ MadeFor(Append(m, a), [fingerprint |-> d, solve |-> n + 1])
         /\ Append(m, a) = [i \in 1 .. n + 1 |-> Append(m, a)[i]]
<1>1. m \in Seq(Range(m)) /\ Len(m) = n
  <2>1. m \in [1..n -> Range(m)]
    BY DEF Range
  <2>2. QED
    BY <2>1
<1>2. Append(m, a)[n + 1] = a /\ DOMAIN Append(m, a) = 1 .. n + 1
  BY <1>1
<1>3. Append(m, a) = [i \in 1 .. n + 1 |-> Append(m, a)[i]]
  BY <1>1, <1>2
<1>4. QED
  BY <1>2, <1>3 DEF MadeFor

\* A thread that gets its answer without a solve.
LEMMA AnsweredOK ==
  ASSUME MadeOK, DoneOK, ControlOK, NEW t \in Threads, NEW result, NEW next,
         Answer(t, result), Goto(t, next),
         UNCHANGED <<cache, solves, made, backend, waiting>>,
         result.error # "none" \/ "body" \in DOMAIN result,
         result.error = "none" /\ "body" \in DOMAIN result => MadeFor(made, result.body)
  PROVE  MadeOK' /\ DoneOK'
<1>1. /\ answer'[t] = result /\ \A u \in Threads \ {t} : answer'[u] = answer[u]
      /\ \A u \in Threads \ {t} : pc'[u] = pc[u]
  BY DEF Answer, Goto, ControlOK
<1>2. MadeOK'
  <2>1. ASSUME NEW u \in Threads, answer'[u].error = "none", "body" \in DOMAIN answer'[u]
        PROVE  MadeFor(made, answer'[u].body)
    BY <1>1, <2>1 DEF MadeOK
  <2>2. QED
    BY <2>1 DEF MadeOK
<1>3. DoneOK'
  BY <1>1 DEF DoneOK
<1>4. QED
  BY <1>2, <1>3

\* A step of the service that solves nothing.
LEMMA QuietServe ==
  ASSUME ExchangeInv, NEW t \in Threads, Evaluate(t), ~Solve(t),
         UNCHANGED <<made, backend, waiting, restarts>>
  PROVE  MadeOK' /\ DoneOK'
<1> USE DEF ExchangeInv
<1>1. MadeOK /\ DoneOK /\ ControlOK
  BY DEF IInv
<1>2. ASSUME NEW next \in {"idle", "forget"}, Replay(t, next)
      PROVE  MadeOK' /\ DoneOK'
  <2>1. PICK result : Answer(t, result) /\ \/ result = Returned(cache[Id(t)].body)
                                            \/ result = Raised("conflict")
    BY <1>2 DEF Replay
  <2>2. Goto(t, next) /\ UNCHANGED <<cache, solves>> /\ Id(t) \in DOMAIN cache
    BY <1>2 DEF Replay, IsCached
  <2>3. /\ result.error # "none" \/ "body" \in DOMAIN result
        /\ result.error = "none" /\ "body" \in DOMAIN result => MadeFor(made, result.body)
    BY <1>1, <2>1, <2>2 DEF Returned, Raised, MadeOK
  <2>4. QED
    BY <1>1, <2>1, <2>2, <2>3, AnsweredOK
<1>3. CASE CheckRunning(t) \/ Acquire(t)
  <2>1. UNCHANGED <<cache, solves>>
    BY <1>3 DEF CheckRunning, Acquire
  <2>2. \/ /\ UNCHANGED answer
           /\ Goto(t, "acquire") \/ Goto(t, "recheck")
        \/ /\ \E error \in {"in_progress", "conflict", "busy"} : Answer(t, Raised(error))
           /\ Goto(t, "idle")
    BY <1>3 DEF CheckRunning, Acquire
  <2>3. CASE UNCHANGED answer /\ (Goto(t, "acquire") \/ Goto(t, "recheck"))
    BY <1>1, <2>1, <2>3 DEF MadeOK, DoneOK, ControlOK, Goto
  <2>4. ASSUME NEW error \in {"in_progress", "conflict", "busy"},
               Answer(t, Raised(error)), Goto(t, "idle")
        PROVE  MadeOK' /\ DoneOK'
    <3>1. Raised(error).error # "none"
      BY DEF Raised
    <3>2. QED
      BY <1>1, <2>1, <2>4, <3>1, AnsweredOK
  <2>5. QED
    BY <2>2, <2>3, <2>4
<1>4. CASE MarkInFlight(t)
  BY <1>1, <1>4 DEF MarkInFlight, MadeOK, DoneOK, ControlOK, Goto
<1>5. CASE Store(t)
  <2>1. PICK gone : cache' = [id \in (DOMAIN cache \cup {Id(t)}) \ gone |->
                                IF id = Id(t)
                                THEN [fingerprint |-> request[t].fingerprint, body |-> answer[t].body]
                                ELSE cache[id]]
    BY <1>5 DEF Store
  <2>2. /\ pc[t] = "store" /\ pc' = [pc EXCEPT ![t] = "forget"]
        /\ UNCHANGED <<answer, solves>>
    BY <1>5 DEF Store, Goto
  <2>3. MadeFor(made, answer[t].body)
    BY <1>1, <2>2 DEF IInv, StoreOK, MadeOK
  <2>4. \A id \in DOMAIN cache' : MadeFor(made, cache'[id].body)
    BY <1>1, <2>1, <2>3 DEF MadeOK
  <2>5. MadeOK'
    BY <1>1, <2>2, <2>4 DEF MadeOK
  <2>6. DoneOK'
    BY <1>1, <2>2 DEF DoneOK, ControlOK
  <2>7. QED
    BY <2>5, <2>6
<1>6. CASE Forget(t) \/ Release(t)
  BY <1>1, <1>6 DEF Forget, Release, MadeOK, DoneOK, ControlOK, Goto
<1>7. QED
  BY <1>2, <1>3, <1>4, <1>5, <1>6 DEF Evaluate, FirstLook, SecondLook

LEMMA SolveServes ==
  ASSUME ExchangeInv, NEW t \in Threads, Solve(t), RecordSolve(t),
         UNCHANGED <<backend, waiting, restarts>>
  PROVE  MadeOK' /\ DoneOK'
<1>1. MadeOK /\ DoneOK /\ ControlOK
  BY DEF ExchangeInv, IInv
<1>2. solves \in Nat /\ solves + 1 # solves /\ made = [n \in 1..solves |-> made[n]]
  BY <1>1 DEF MadeOK
<1>3. CASE solves' = solves
  <2>1. made' = made /\ Answer(t, Raised("failed")) /\ Goto(t, "forget") /\ cache' = cache
    BY <1>2, <1>3 DEF Solve, RecordSolve
  <2>2. QED
    BY <1>1, <1>3, <2>1 DEF MadeOK, DoneOK, ControlOK, Answer, Raised, Goto
<1>4. CASE solves' # solves
  <2> DEFINE body == [fingerprint |-> request[t].fingerprint, solve |-> solves + 1]
  <2>1. /\ solves' = solves + 1 /\ Answer(t, Returned(body))
        /\ Goto(t, "store") /\ cache' = cache
    BY <1>4 DEF Solve
  <2>2. PICK a \in RouterAnswers(backend, request[t].fingerprint) : made' = Append(made, a)
    BY <1>4 DEF RecordSolve
  <2>3. MadeFor(made', body) /\ made' = [n \in 1..solves' |-> made'[n]]
    BY <1>1, <1>2, <2>1, <2>2, NowMade DEF MadeOK
  <2>4. \A other : MadeFor(made, other) => MadeFor(made', other)
    BY <1>2, <2>2, StillMade
  <2> HIDE DEF body
  <2>5. DoneOK'
    BY <1>1, <2>1 DEF DoneOK, ControlOK, Answer, Returned, Goto
  <2>6. ASSUME NEW u \in Threads, answer'[u].error = "none", "body" \in DOMAIN answer'[u]
        PROVE  MadeFor(made', answer'[u].body)
    BY <1>1, <2>1, <2>3, <2>4, <2>6 DEF MadeOK, ControlOK, Answer, Returned
  <2>7. MadeOK'
    BY <1>1, <1>2, <2>1, <2>3, <2>4, <2>6 DEF MadeOK
  <2>8. QED
    BY <2>5, <2>7
<1>5. QED
  BY <1>3, <1>4

LEMMA ServeStep == ASSUME ExchangeInv, NEW t \in Threads, Serve(t) PROVE ExchangeInv'
<1>1. Evaluate(t) /\ RecordSolve(t) /\ UNCHANGED <<backend, waiting, restarts>>
  BY DEF Serve
<1>2. IInv'
  BY <1>1, StepPreserves DEF Next, ExchangeInv
<1>3. UNCHANGED request
  BY <1>1 DEF Evaluate, FirstLook, SecondLook, Replay, CheckRunning, Acquire, MarkInFlight,
     Solve, Store, Forget, Release
<1>4. WaitingOK'
  BY <1>1, <1>3 DEF ExchangeInv, WaitingOK
<1>5. MadeOK' /\ DoneOK'
  <2>1. CASE Solve(t)
    BY <1>1, <2>1, SolveServes
  <2>2. CASE ~Solve(t)
    <3>1. UNCHANGED solves
      BY <1>1, <2>2 DEF Evaluate, FirstLook, SecondLook, Replay, CheckRunning, Acquire,
         MarkInFlight, Store, Forget, Release
    <3>2. UNCHANGED made
      BY <1>1, <3>1 DEF RecordSolve
    <3>3. QED
      BY <1>1, <2>2, <3>2, QuietServe
  <2>3. QED
    BY <2>1, <2>2
<1>6. QED
  BY <1>2, <1>4, <1>5 DEF ExchangeInv

LEMMA CallStep ==
  ASSUME ExchangeInv, NEW t \in Threads, NEW r \in Requests, Call(t, r) PROVE ExchangeInv'
<1>1. Post(t, r) /\ waiting' = waiting \cup {t} /\ UNCHANGED <<backend, made, restarts>>
  BY DEF Call
<1>2. IInv'
  BY <1>1, StepPreserves DEF Next, ExchangeInv
<1>3. ControlOK
  BY DEF ExchangeInv, IInv
<1>4. MadeOK' /\ DoneOK'
  BY <1>1, <1>3 DEF ExchangeInv, MadeOK, DoneOK, ControlOK, Post, Answer, Raised, Goto
<1>5. WaitingOK'
  BY <1>1, <1>3 DEF ExchangeInv, WaitingOK, ControlOK, Call, Post
<1>6. QED
  BY <1>2, <1>4, <1>5 DEF ExchangeInv

\* A restart starts from nothing.
LEMMA RestartStep == ASSUME ExchangeInv, Restart PROVE ExchangeInv'
<1> USE DEF Restart
<1>1. NoRequest \in [Threads -> Requests]
  <2>1. ASSUME NEW t \in Threads PROVE \E r : r \in Requests
    BY DEF ExchangeInv, IInv, ControlOK
  <2>2. QED
    BY <2>1 DEF NoRequest
<1>2. IInv'
  <2>1. ControlOK' /\ SlotOK' /\ CacheOK' /\ StoreOK'
    BY <1>1 DEF ControlOK, SlotOK, CacheOK, StoreOK, Places, Holding, Raised
  <2>2. OneSolverAtATime'
    BY DEF OneSolverAtATime, Holding
  <2>3. InFlightIsRunning' /\ RetainedIsNotSolvedAgain'
    BY DEF InFlightIsRunning, RetainedIsNotSolvedAgain, Running
  <2>4. AnswerIsForItsDecision'
    BY DEF AnswerIsForItsDecision, Raised
  <2>5. QED
    BY <2>1, <2>2, <2>3, <2>4 DEF IInv
<1>3. MadeOK'
  <2>1. solves \in Nat /\ DOMAIN made = 1..solves
    BY DEF ExchangeInv, MadeOK
  <2>2. made' = [n \in 1..solves' |-> made'[n]]
    BY <2>1
  <2>3. QED
    BY <2>1, <2>2 DEF MadeOK, Raised
<1>4. DoneOK' /\ WaitingOK'
  BY DEF DoneOK, WaitingOK
<1>5. QED
  BY <1>2, <1>3, <1>4 DEF ExchangeInv

LEMMA ExchangeStep == ExchangeInv /\ [ExchangeNext]_allVars => ExchangeInv'
<1> SUFFICES ASSUME ExchangeInv, [ExchangeNext]_allVars PROVE ExchangeInv'
  OBVIOUS
<1>1. ASSUME UNCHANGED <<vars, made, backend>>, waiting' \subseteq waiting PROVE ExchangeInv'
  <2>1. IInv'
    BY <1>1, StepPreserves DEF ExchangeInv
  <2>2. MadeOK' /\ DoneOK' /\ WaitingOK'
    BY <1>1 DEF ExchangeInv, MadeOK, DoneOK, WaitingOK, vars
  <2>3. QED
    BY <2>1, <2>2 DEF ExchangeInv
<1>2. CASE UNCHANGED allVars
  BY <1>1, <1>2 DEF allVars, vars
<1>3. ASSUME NEW t \in Threads, Respond(t) \/ GiveUp(t) PROVE ExchangeInv'
  BY <1>1, <1>3 DEF Respond, GiveUp
<1>4. QED
  BY <1>2, <1>3, ServeStep, CallStep, RestartStep DEF ExchangeNext

\* What the client's checks leave of what the router may answer.
LEMMA AcceptedFacts ==
  ASSUME NEW d \in Fingerprints, d.schema = 3, SupportGaps(Pinned, d) = {},
         NEW b, NEW a \in RouterAnswers(b, d), a.solved,
         WireAccepts(Pinned, d, a), ExactAllowed(Pinned, d, a)
  PROVE  /\ a.by = Pinned /\ a.legal
         /\ Street(d) = "POSTFLOP" => SawFlop(d) <= Pinned.maxPlayers
         /\ a.exact /\ PlayerProfile(d).now < d.seats => Pinned.bunching
<1>1. a.proof = Pinned /\ a.legal
  BY DEF WireAccepts
<1>2. a # NoClaim
  BY DEF NoClaim
<1>3. a.by = Pinned
  <2>1. CASE ~b.external
    <3>1. PICK c \in [proof : {b}, legal : {FALSE}, exact : {FALSE}] : a = Claimed(b, c)
      BY <1>2, <2>1 DEF RouterAnswers
    <3>2. QED
      BY <1>1, <3>1 DEF Claimed
  <2>2. CASE b.external
    <3>1. PICK c \in Claims : WireAccepts(b, d, c) /\ a = Claimed(b, c)
      BY <1>2, <2>2 DEF RouterAnswers
    <3>2. c.proof = b
      BY <3>1 DEF WireAccepts
    <3>3. QED
      BY <1>1, <3>1, <3>2 DEF Claimed
  <2>3. QED
    BY <2>1, <2>2
<1>4. Street(d) = "POSTFLOP" => ~(Peak(d) > Pinned.maxPlayers)
  <2>1. "too_many" \notin SupportGaps(Pinned, d)
    OBVIOUS
  <2>2. QED
    BY <2>1, Zenon DEF SupportGaps
<1>5. Street(d) = "POSTFLOP" => SawFlop(d) <= Pinned.maxPlayers
  BY <1>4, PeakIsWhoSawFlop, ExchangeAssumption
<1>6. ASSUME a.exact, PlayerProfile(d).now < d.seats
      PROVE  Pinned.bunching
  <2>1. ExactnessGaps(Pinned, d) = {}
    BY <1>6 DEF ExactAllowed
  <2>2. d.events # <<>>
    BY <1>6, PeakIsWhoSawFlop, ExchangeAssumption
  <2>3. "bunching" \notin ExactnessGaps(Pinned, d)
    BY <2>1
  <2>4. QED
    BY <1>6, <2>2, <2>3, Zenon DEF ExactnessGaps
<1>7. QED
  BY <1>1, <1>3, <1>5, <1>6

(* What every reachable state of the exchange satisfies, restarts included. *)
THEOREM ExchangeInvariant == ExchangeSpec => []ExchangeInv
BY ExchangeInitial, ExchangeStep, PTL DEF ExchangeSpec

(* Clients that give up and a server that is restarted, perhaps on another *)
(* backend, take nothing from the service's promises: server.py, evaluate().*)
THEOREM ExchangeKeepsService ==
  ExchangeSpec => [](/\ OneSolverAtATime /\ InFlightIsRunning
                     /\ RetainedIsNotSolvedAgain /\ AnswerIsForItsDecision)
<1>1. ExchangeInv => /\ OneSolverAtATime /\ InFlightIsRunning
                     /\ RetainedIsNotSolvedAgain /\ AnswerIsForItsDecision
  BY DEF ExchangeInv, IInv
<1>2. QED
  BY <1>1, ExchangeInvariant, PTL

(* What a v3 client accepts was solved for its decision by the backend it  *)
(* pinned, is legal, is of a backend for as many players as saw the flop,  *)
(* and exact only if folded cards are accounted for; for every set of      *)
(* decisions, backends and restarts: multiway_client.request_structured(). *)
THEOREM ExchangeAcceptedIsBound == ExchangeSpec => []AcceptedIsBound
<1>1. ASSUME ExchangeInv
      PROVE  AcceptedIsBound
  <2> SUFFICES ASSUME NEW t \in Threads, Answered(t), answer[t].error = "none",
                      request[t].fingerprint.schema = 3,
                      Accepts(request[t].fingerprint, answer[t].body)
               PROVE  LET d == request[t].fingerprint
                          body == answer[t].body
                          a == made[body.solve]
                      IN  /\ body.fingerprint = d
                          /\ a.by = Pinned /\ a.legal
                          /\ Street(d) = "POSTFLOP" => SawFlop(d) <= Pinned.maxPlayers
                          /\ a.exact /\ PlayerProfile(d).now < d.seats => Pinned.bunching
    BY DEF AcceptedIsBound
  <2>1. t \in waiting /\ pc[t] = "idle"
    BY DEF Answered
  <2>2. "body" \in DOMAIN answer[t]
    BY <1>1, <2>1 DEF ExchangeInv, DoneOK
  <2>3. PICK d : d = request[t].fingerprint
    OBVIOUS
  <2>4. d \in Fingerprints
    BY <1>1, <2>3 DEF ExchangeInv, IInv, ControlOK, Requests
  <2>5. SupportGaps(Pinned, d) = {}
    BY <1>1, <2>1, <2>3 DEF ExchangeInv, WaitingOK
  <2>6. PICK a : a = made[answer[t].body.solve]
    OBVIOUS
  <2>7. /\ answer[t].body.fingerprint = d /\ a.solved
        /\ WireAccepts(Pinned, d, a) /\ ExactAllowed(Pinned, d, a)
    BY <2>3, <2>6 DEF Accepts
  <2>8. \E b \in Backends \cup {Pinned} : a \in RouterAnswers(b, d)
    BY <1>1, <2>2, <2>6, <2>7 DEF ExchangeInv, MadeOK, MadeFor
  <2>9. /\ a.by = Pinned /\ a.legal
        /\ Street(d) = "POSTFLOP" => SawFlop(d) <= Pinned.maxPlayers
        /\ a.exact /\ PlayerProfile(d).now < d.seats => Pinned.bunching
    BY <2>3, <2>4, <2>5, <2>7, <2>8, AcceptedFacts
  <2>10. QED
    BY <2>3, <2>6, <2>7, <2>9
<1>2. QED
  BY <1>1, ExchangeInvariant, PTL

-----------------------------------------------------------------------------
(* The adapter processes: how the server is left once it has answered.     *)
Settled == {"answered", "error", "protocol", "timeout"}

(* Parents descend: whatever set of processes is singled out, one of them  *)
(* has its parent outside.  A cycle of orphans would hide from the scans,  *)
(* which look only at the server's own children.                           *)
Rooted == \A S \in SUBSET Existing : S # {} => \E p \in S : parent[p] \notin S

ProcessOK ==
  /\ running \cap doomed = {} /\ Alive \cap zombie = {} /\ Existing \subseteq Pids
  /\ parent \in [Pids -> Pids \cup {Server}]
  /\ \A p \in Existing : parent[p] \in Alive \cup {Server}
  /\ old \subseteq Existing /\ grouped \subseteq Existing /\ holders \subseteq Alive

ServerOK ==
  /\ <<phase, site>> \in Whereabouts /\ served \in 0..MaxRequests /\ enabled \in BOOLEAN
  /\ leader \in Pids \cup {NoPid}
  /\ registered \subseteq {"stdin", "outputs"}
  /\ outcome \in {"none", "disabled", "unsupported", "tooLong", "completed", "containment"}
                   \cup Settled

(* Where the server relies on a clean slate: nothing exists when it starts *)
(* a solver or returns, nor when it is idle after a settled request; what  *)
(* was there before the exchange is gone throughout it.                    *)
CleanOK ==
  /\ phase \in {"spawn", "return"} => Existing = {}
  /\ phase = "idle" /\ outcome \in Settled => Existing = {}
  /\ phase \in {"exchange", "wait"} \/ site = "loop" => old = {}

AdapterIInv == Rooted /\ ProcessOK /\ ServerOK /\ CleanOK

-----------------------------------------------------------------------------
(* A set of process identifiers has a least one, which os.fork() takes.    *)
LEMMA MinIsMember ==
  ASSUME NEW S \in SUBSET Nat, S # {} PROVE Min(S) \in S
<1> DEFINE R == {pair \in Nat \X Nat : pair[1] < pair[2]}
<1>1. R = OpToRel(<, Nat)
  BY DEF OpToRel
<1> HIDE DEF R
<1>2. PICK x \in S : \A y \in S : ~(<<y, x>> \in R)
  BY <1>1, NatLessThanWellFounded, WFMin
<1>3. \A y \in Nat : y < x => <<y, x>> \in R
  BY DEF R
<1>4. ASSUME NEW y \in S PROVE x =< y
  <2>1. x \in Nat /\ y \in Nat
    OBVIOUS
  <2>2. ~(y < x)
    BY <1>2, <1>3, <2>1
  <2>3. QED
    BY <2>1, <2>2
<1>5. QED
  BY <1>4 DEF Min

(* A set of processes without a child of the server is empty: its members  *)
(* would all descend from each other.                                      *)
LEMMA OrphansAreAdopted ==
  ASSUME Rooted, ProcessOK,
         NEW S \in SUBSET Existing, Alive \subseteq S, S \cap DirectChildren = {}
  PROVE  S = {}
<1>1. \A p \in S : parent[p] \in S
  BY DEF ProcessOK, DirectChildren
<1>2. QED
  BY <1>1 DEF Rooted

LEMMA NoChildrenNothingExists ==
  ASSUME Rooted, ProcessOK, DirectChildren = {} PROVE Existing = {}
BY OrphansAreAdopted DEF Existing

(* A new process has no children yet, so it closes no cycle.               *)
LEMMA StartedFacts ==
  ASSUME AdapterIInv, NEW by \in running \cup {Server}, Free # {}, Started(Min(Free), by),
         UNCHANGED <<doomed, zombie>>
  PROVE  /\ Min(Free) \in Pids \ Existing
         /\ Existing' = Existing \cup {Min(Free)}
         /\ Rooted'
         /\ parent' \in [Pids -> Pids \cup {Server}]
         /\ \A p \in Existing' : parent'[p] \in Alive' \cup {Server}
<1> DEFINE pid == Min(Free)
<1> USE DEF AdapterIInv
<1>1. pid \in Pids \ Existing
  <2>1. Free \in SUBSET Nat
    BY AdapterAssumption DEF Free
  <2>2. QED
    BY <2>1, MinIsMember DEF Free
<1>2. /\ Existing' = Existing \cup {pid} /\ Alive' = Alive \cup {pid}
      /\ parent' = [parent EXCEPT ![pid] = by]
  BY DEF Started, Existing, Alive
<1> HIDE DEF pid
<1>3. by \in Pids \cup {Server} /\ by \in Alive \cup {Server} /\ by # pid
  BY <1>1, AdapterAssumption DEF ProcessOK, Existing, Alive, Server
<1>4. parent' \in [Pids -> Pids \cup {Server}]
  BY <1>1, <1>2, <1>3 DEF ProcessOK
<1>5. parent'[pid] = by /\ \A p \in Existing : parent'[p] = parent[p] /\ parent[p] # pid
  BY <1>1, <1>2, AdapterAssumption DEF ProcessOK, Existing, Alive, Server
<1>6. \A p \in Existing' : parent'[p] \in Alive' \cup {Server}
  BY <1>2, <1>3, <1>5 DEF ProcessOK
<1>7. Rooted'
  <2> SUFFICES ASSUME NEW S \in SUBSET Existing', S # {}
               PROVE  \E p \in S : parent'[p] \notin S
    BY DEF Rooted
  <2>1. CASE S \subseteq {pid}
    BY <1>3, <1>5, <2>1
  <2>2. CASE ~(S \subseteq {pid})
    <3>1. S \ {pid} \in SUBSET Existing /\ S \ {pid} # {}
      BY <1>2, <2>2
    <3>2. PICK p \in S \ {pid} : parent[p] \notin S \ {pid}
      BY <3>1 DEF Rooted
    <3>3. p \in Existing
      BY <3>1
    <3>4. QED
      BY <1>5, <3>2, <3>3
  <2>3. QED
    BY <2>1, <2>2
<1>8. QED
  BY <1>1, <1>2, <1>4, <1>6, <1>7 DEF pid

(* The children of a dead process come to the server, and those of a       *)
(* reaped one did when it died.                                            *)
LEMMA DeadFacts ==
  ASSUME AdapterIInv, NEW p \in Alive, Dead(p) PROVE Rooted' /\ ProcessOK' /\ Existing' = Existing
<1> USE DEF AdapterIInv
<1>1. Existing' = Existing /\ Alive' = Alive \ {p}
  BY DEF Dead, Existing, Alive, ProcessOK
<1>2. Existing \subseteq Pids /\ Server \notin Pids
  BY AdapterAssumption DEF ProcessOK, Server
<1>3. \A q \in Existing : parent'[q] = IF parent[q] = p THEN Server ELSE parent[q]
  BY <1>2 DEF Dead
<1>4. Rooted'
  <2> SUFFICES ASSUME NEW S \in SUBSET Existing, S # {}
               PROVE  \E q \in S : parent'[q] \notin S
    BY <1>1 DEF Rooted
  <2>1. PICK q \in S : parent[q] \notin S
    BY DEF Rooted
  <2>2. QED
    BY <1>2, <1>3, <2>1
<1>5. ProcessOK'
  <2>1. parent' \in [Pids -> Pids \cup {Server}]
    BY DEF Dead, ProcessOK
  <2>2. \A q \in Existing' : parent'[q] \in Alive' \cup {Server}
    BY <1>1, <1>3 DEF ProcessOK
  <2>3. /\ running' \cap doomed' = {} /\ Alive' \cap zombie' = {} /\ Existing' \subseteq Pids
        /\ old' \subseteq Existing' /\ grouped' \subseteq Existing' /\ holders' \subseteq Alive'
    BY <1>1 DEF Dead, ProcessOK, Existing, Alive
  <2>4. QED
    BY <2>1, <2>2, <2>3 DEF ProcessOK
<1>6. QED
  BY <1>1, <1>4, <1>5

LEMMA ReapFacts ==
  ASSUME AdapterIInv, NEW pids, Reap(pids), UNCHANGED <<running, doomed, holders>>
  PROVE  /\ Rooted' /\ ProcessOK'
         /\ Existing' = Existing \ (zombie \cap pids) /\ Alive' = Alive
         /\ old' \subseteq old
<1> DEFINE gone == zombie \cap pids
<1> USE DEF AdapterIInv
<1>1. Alive' = Alive /\ zombie' = zombie \ gone /\ Existing' = Existing \ gone
  BY DEF Reap, Existing, Alive, ProcessOK
<1>2. Existing \subseteq Pids /\ Server \notin Pids
  BY AdapterAssumption DEF ProcessOK, Server
<1>3. \A q \in Existing' : parent'[q] = parent[q]
  BY <1>1, <1>2 DEF Reap
<1>4. parent' \in [Pids -> Pids \cup {Server}]
  BY DEF Reap, ProcessOK
<1>5. old' = old \ gone /\ grouped' = grouped \ gone
  BY DEF Reap
<1> HIDE DEF gone
<1>6. Rooted'
  <2> SUFFICES ASSUME NEW S \in SUBSET Existing', S # {}
               PROVE  \E q \in S : parent'[q] \notin S
    BY DEF Rooted
  <2>1. PICK q \in S : parent[q] \notin S
    BY <1>1 DEF Rooted
  <2>2. QED
    BY <1>3, <2>1
<1>7. ProcessOK'
  <2>1. \A q \in Existing' : parent'[q] \in Alive' \cup {Server}
    BY <1>1, <1>3 DEF ProcessOK
  <2>2. running' \cap doomed' = {} /\ Alive' \cap zombie' = {} /\ Existing' \subseteq Pids
    BY <1>1, <1>2 DEF ProcessOK
  <2>3. old' \subseteq Existing' /\ grouped' \subseteq Existing' /\ holders' \subseteq Alive'
    BY <1>1, <1>5 DEF ProcessOK
  <2>4. QED
    BY <1>4, <2>1, <2>2, <2>3 DEF ProcessOK
<1>8. QED
  BY <1>1, <1>5, <1>6, <1>7 DEF gone

(* A signal changes no family: what is killed exists until it is reaped.   *)
LEMMA KillFacts ==
  ASSUME AdapterIInv, NEW pids, Kill(pids), UNCHANGED <<zombie, parent, old, grouped, holders>>
  PROVE  Rooted' /\ ProcessOK' /\ Existing' = Existing
<1> USE DEF AdapterIInv
<1>1. Alive' = Alive /\ Existing' = Existing
  BY DEF Kill, Alive, Existing
<1>2. running' \cap doomed' = {}
  BY DEF Kill, ProcessOK
<1>3. QED
  BY <1>1, <1>2 DEF Rooted, ProcessOK

LEMMA StillFacts ==
  ASSUME AdapterIInv, UNCHANGED <<running, doomed, zombie, parent, grouped, holders>>,
         old' = old \/ old' = Existing
  PROVE  Rooted' /\ ProcessOK' /\ Existing' = Existing
<1>1. Alive' = Alive /\ Existing' = Existing
  BY DEF Alive, Existing
<1>2. QED
  BY <1>1 DEF AdapterIInv, Rooted, ProcessOK

-----------------------------------------------------------------------------
LEMMA AdapterInitEstablishes == AdapterInit => AdapterIInv
<1> SUFFICES ASSUME AdapterInit PROVE AdapterIInv
  OBVIOUS
<1>1. ProcessOK /\ Rooted
  <2>1. PICK foreign \in {{}, {Min(Pids)}} : running = foreign
    BY DEF AdapterInit
  <2>2. running \subseteq Pids
    BY <2>1, MinIsMember, AdapterAssumption
  <2>3. Existing = running /\ Alive = running
    BY DEF AdapterInit, Existing, Alive
  <2>4. QED
    BY <2>2, <2>3, AdapterAssumption DEF AdapterInit, ProcessOK, Rooted, Server
<1>2. ServerOK
  <2>1. <<phase, site>> \in Whereabouts
    BY DEF AdapterInit, Whereabouts
  <2>2. served \in 0..MaxRequests
    <3>1. served = 0
      BY DEF AdapterInit
    <3>2. QED
      BY <3>1, AdapterAssumption
  <2>3. enabled \in BOOLEAN /\ leader \in Pids \cup {NoPid} /\ registered = {} /\ outcome = "none"
    BY DEF AdapterInit
  <2>4. QED
    BY <2>1, <2>2, <2>3 DEF ServerOK
<1>3. CleanOK
  BY DEF AdapterInit, CleanOK, Settled
<1>4. QED
  BY <1>1, <1>2, <1>3 DEF AdapterIInv

(* A step of the solver leaves the server where it is, and it brings no    *)
(* process back.                                                           *)
LEMMA CleanKept ==
  ASSUME AdapterIInv, UNCHANGED ServerIdle, Existing = {} => Existing' = {}, old' \subseteq old
  PROVE  ServerOK' /\ CleanOK'
<1>1. ServerOK'
  BY DEF AdapterIInv, ServerOK, ServerIdle, child, Whereabouts, Settled
<1>2. CleanOK'
  BY DEF AdapterIInv, CleanOK, ServerIdle, Settled
<1>3. QED
  BY <1>1, <1>2

LEMMA ProcessPreserves ==
  ASSUME AdapterIInv, NEW p \in Pids, Process(p) PROVE AdapterIInv'
<1>1. CASE Fork(p)
  <2>1. p \in running /\ Free # {} /\ Started(Min(Free), p) /\ UNCHANGED <<doomed, zombie, old>>
        /\ UNCHANGED ServerIdle
    BY <1>1 DEF Fork
  <2>2. /\ Min(Free) \in Pids \ Existing /\ Existing' = Existing \cup {Min(Free)} /\ Rooted'
        /\ parent' \in [Pids -> Pids \cup {Server}]
        /\ \A q \in Existing' : parent'[q] \in Alive' \cup {Server}
    BY <2>1, StartedFacts
  <2>3. /\ grouped' \subseteq grouped \cup {Min(Free)}
        /\ holders' \subseteq holders \cup {Min(Free)}
        /\ running' = running \cup {Min(Free)}
    BY <1>1 DEF Fork, Started
  <2>4. ProcessOK'
    BY <2>1, <2>2, <2>3 DEF AdapterIInv, ProcessOK, Existing, Alive
  <2>5. ServerOK' /\ CleanOK'
    BY <2>1, CleanKept DEF Existing, Alive
  <2>6. QED
    BY <2>2, <2>4, <2>5 DEF AdapterIInv
<1>2. CASE LeaveGroup(p) \/ ClosePipes(p)
  <2>1. Existing' = Existing /\ Alive' = Alive /\ UNCHANGED <<running, doomed, zombie, parent, old>>
        /\ grouped' \subseteq grouped /\ holders' \subseteq holders /\ UNCHANGED ServerIdle
    BY <1>2 DEF LeaveGroup, ClosePipes, Existing, Alive
  <2>2. Rooted' /\ ProcessOK'
    BY <2>1 DEF AdapterIInv, Rooted, ProcessOK
  <2>3. ServerOK' /\ CleanOK'
    BY <2>1, CleanKept
  <2>4. QED
    BY <2>2, <2>3 DEF AdapterIInv
<1>3. CASE Exit(p) \/ Killed(p)
  <2>1. p \in Alive /\ Dead(p)
    BY <1>3 DEF Exit, Killed, Alive
  <2>2. Rooted' /\ ProcessOK' /\ Existing' = Existing
    BY <2>1, DeadFacts
  <2>3. ServerOK' /\ CleanOK'
    BY <2>1, <2>2, CleanKept DEF Dead
  <2>4. QED
    BY <2>2, <2>3 DEF AdapterIInv
<1>4. CASE ReapChild(p)
  <2>1. Reap({p}) /\ UNCHANGED <<running, doomed, holders>> /\ UNCHANGED ServerIdle
    BY <1>4 DEF ReapChild
  <2>2. Rooted' /\ ProcessOK' /\ Existing' \subseteq Existing /\ old' \subseteq old
    BY <2>1, ReapFacts
  <2>3. ServerOK' /\ CleanOK'
    BY <2>1, <2>2, CleanKept
  <2>4. QED
    BY <2>2, <2>3 DEF AdapterIInv
<1>5. QED
  BY <1>1, <1>2, <1>3, <1>4 DEF Process

LEMMA DeadlinesPreserve ==
  ASSUME AdapterIInv, DeadlinePasses \/ CleanupDeadlinePasses PROVE AdapterIInv'
<1>1. UNCHANGED <<running, doomed, zombie, parent, grouped, holders, old, phase, site, served,
                  enabled, leader, registered, outcome>>
  BY DEF DeadlinePasses, CleanupDeadlinePasses, world, child
<1>2. Rooted' /\ ProcessOK' /\ Existing' = Existing
  BY <1>1, StillFacts
<1>3. ServerOK' /\ CleanOK'
  BY <1>1, <1>2 DEF AdapterIInv, ServerOK, CleanOK, Whereabouts, Settled
<1>4. QED
  BY <1>2, <1>3 DEF AdapterIInv

-----------------------------------------------------------------------------
(* The steps that take a request in.  An exchange is started only where    *)
(* the server has no child left, hence nothing exists.                     *)
LEMMA DeclinePreserves ==
  ASSUME AdapterIInv, Decline \/ Refuse PROVE AdapterIInv'
<1>1. /\ MayServe /\ served' = served + 1 /\ ToPhase("idle")
      /\ outcome' \in {"disabled", "unsupported", "tooLong", "containment"}
      /\ leader' = NoPid /\ registered' = {} /\ enabled' = enabled
      /\ UNCHANGED <<running, doomed, zombie, parent, grouped, holders>>
      /\ old' = old \/ old' = Existing
  BY DEF Decline, Refuse, End, world
<1>2. Rooted' /\ ProcessOK'
  BY <1>1, StillFacts
<1>3. ServerOK'
  <2>1. served' \in 0..MaxRequests
    BY <1>1, AdapterAssumption DEF AdapterIInv, ServerOK, MayServe
  <2>2. <<phase', site'>> \in Whereabouts
    BY <1>1 DEF ToPhase, Whereabouts
  <2>3. QED
    BY <1>1, <2>1, <2>2 DEF AdapterIInv, ServerOK
<1>4. CleanOK'
  BY <1>1 DEF CleanOK, ToPhase, Settled
<1>5. QED
  BY <1>2, <1>3, <1>4 DEF AdapterIInv

LEMMA AcceptPreserves ==
  ASSUME AdapterIInv, Accept PROVE AdapterIInv'
<1>1. /\ MayServe /\ served' = served + 1 /\ enabled' = TRUE /\ outcome' = "none"
      /\ UNCHANGED <<running, doomed, zombie, parent, grouped, holders, leader, registered>>
      /\ old' = Existing
      /\ \/ DirectChildren = {} /\ ToPhase("spawn")
         \/ GotoCleanup("scan", "before")
  BY DEF Accept, StartCleanup, child
<1>2. Rooted' /\ ProcessOK' /\ Existing' = Existing
  BY <1>1, StillFacts
<1>3. ServerOK'
  <2>1. served' \in 0..MaxRequests
    BY <1>1, AdapterAssumption DEF AdapterIInv, ServerOK, MayServe
  <2>2. <<phase', site'>> \in Whereabouts
    BY <1>1 DEF ToPhase, GotoCleanup, Whereabouts, Sites
  <2>3. QED
    BY <1>1, <2>1, <2>2 DEF AdapterIInv, ServerOK
<1>4. CleanOK'
  <2>1. CASE DirectChildren = {} /\ ToPhase("spawn")
    BY <1>1, <1>2, <2>1, NoChildrenNothingExists DEF AdapterIInv, CleanOK, ToPhase
  <2>2. CASE GotoCleanup("scan", "before")
    BY <2>2 DEF CleanOK, GotoCleanup
  <2>3. QED
    BY <1>1, <2>1, <2>2
<1>5. QED
  BY <1>2, <1>3, <1>4 DEF AdapterIInv

LEMMA SpawnPreserves ==
  ASSUME AdapterIInv, Spawn PROVE AdapterIInv'
<1> DEFINE pid == Min(Free)
<1>1. /\ phase = "spawn" /\ Free # {} /\ Started(pid, Server)
      /\ grouped' = {pid} /\ holders' = {pid} /\ leader' = pid
      /\ registered' = {"stdin", "outputs"} /\ ToPhase("exchange")
      /\ UNCHANGED <<doomed, zombie, old, served, enabled, outcome>>
  BY DEF Spawn
<1>2. Existing = {} /\ old = {} /\ running = {}
  BY <1>1 DEF AdapterIInv, CleanOK, ProcessOK, Existing, Alive
<1>3. /\ pid \in Pids \ Existing /\ Existing' = Existing \cup {pid} /\ Rooted'
      /\ parent' \in [Pids -> Pids \cup {Server}]
      /\ \A q \in Existing' : parent'[q] \in Alive' \cup {Server}
  BY <1>1, StartedFacts
<1>4. running' = running \cup {pid}
  BY <1>1 DEF Started
<1> HIDE DEF pid
<1>5. ProcessOK'
  BY <1>1, <1>2, <1>3, <1>4 DEF AdapterIInv, ProcessOK, Existing, Alive
<1>6. ServerOK'
  <2>1. <<phase', site'>> \in Whereabouts
    BY <1>1 DEF ToPhase, Whereabouts
  <2>2. QED
    BY <1>1, <1>3, <2>1 DEF AdapterIInv, ServerOK
<1>7. CleanOK'
  BY <1>1, <1>2 DEF CleanOK, ToPhase
<1>8. QED
  BY <1>3, <1>5, <1>6, <1>7 DEF AdapterIInv

-----------------------------------------------------------------------------
(* The exchange.  It only reads what the solver does; whatever it decides, *)
(* it neither starts a process nor forgets what was there before.          *)
LEMMA RaiseFacts ==
  ASSUME AdapterIInv, NEW error \in Settled, Raise(error) PROVE AdapterIInv'
<1>1. /\ outcome' = error /\ phase' = "kill" /\ site' = "final"
      /\ UNCHANGED <<running, doomed, zombie, parent, old, grouped, holders, served, enabled,
                     leader, registered>>
  BY DEF Raise, GotoCleanup, world, child
<1>2. Rooted' /\ ProcessOK'
  BY <1>1, StillFacts
<1>3. ServerOK' /\ CleanOK'
  BY <1>1 DEF AdapterIInv, ServerOK, CleanOK, Whereabouts
<1>4. QED
  BY <1>2, <1>3 DEF AdapterIInv

LEMMA UnregisterPreserves ==
  ASSUME AdapterIInv, NEW stream, Unregister(stream) PROVE AdapterIInv'
<1>1. /\ registered' \subseteq registered
      /\ UNCHANGED <<running, doomed, zombie, parent, old, grouped, holders, phase, site, served,
                     enabled, leader, outcome>>
  BY DEF Unregister, world
<1>2. Rooted' /\ ProcessOK' /\ Existing' = Existing
  BY <1>1, StillFacts
<1>3. ServerOK' /\ CleanOK'
  BY <1>1, <1>2 DEF AdapterIInv, ServerOK, CleanOK, Whereabouts, Settled
<1>4. QED
  BY <1>2, <1>3 DEF AdapterIInv

LEMMA ExchangePreserves ==
  ASSUME AdapterIInv, Exchange \/ RequestTaken \/ OutputTooLong PROVE AdapterIInv'
<1>1. CASE RequestTaken \/ StdinBroken \/ OutputsEnd
  BY <1>1, UnregisterPreserves DEF RequestTaken, StdinBroken, OutputsEnd
<1>2. CASE OutputTooLong \/ ExchangeTimesOut \/ LeaderOverdue
  BY <1>2, RaiseFacts DEF OutputTooLong, ExchangeTimesOut, LeaderOverdue, Settled
<1>3. CASE QuietAfterExit \/ LeaderExited
  <2>1. /\ Reap({leader}) /\ UNCHANGED <<running, doomed, holders>>
        /\ UNCHANGED <<served, enabled, leader, registered>>
        /\ phase \in {"exchange", "wait"} /\ phase' = "kill"
        /\ site' \in {"loop", "final"} /\ outcome' \in {outcome, "completed"}
    BY <1>3 DEF QuietAfterExit, LeaderExited, PollLeader, GotoCleanup, InLoop
  <2>2. Rooted' /\ ProcessOK' /\ old' \subseteq old
    BY <2>1, ReapFacts
  <2>3. ServerOK' /\ CleanOK'
    BY <2>1, <2>2 DEF AdapterIInv, ServerOK, CleanOK, Whereabouts
  <2>4. QED
    BY <2>2, <2>3 DEF AdapterIInv
<1>4. CASE StreamsClosed
  <2>1. /\ phase = "exchange" /\ phase' = "wait" /\ site' = "none"
        /\ UNCHANGED <<running, doomed, zombie, parent, old, grouped, holders, served, enabled,
                       leader, registered, outcome>>
    BY <1>4 DEF StreamsClosed, ToPhase, world, child
  <2>2. Rooted' /\ ProcessOK'
    BY <2>1, StillFacts
  <2>3. ServerOK' /\ CleanOK'
    BY <2>1 DEF AdapterIInv, ServerOK, CleanOK, Whereabouts
  <2>4. QED
    BY <2>2, <2>3 DEF AdapterIInv
<1>5. QED
  BY <1>1, <1>2, <1>3, <1>4 DEF Exchange

-----------------------------------------------------------------------------
(* The cleanup.                                                            *)
LEMMA KillPreserves ==
  ASSUME AdapterIInv, NEW from \in Sites, (from # "before" /\ KillGroup(from)) \/ Scan(from)
  PROVE  AdapterIInv'
<1>1. /\ UNCHANGED <<zombie, parent, old, grouped, holders, served, enabled, leader, registered,
                     outcome>>
      /\ \E pids : Kill(pids)
      /\ phase \in {"kill", "scan"} /\ site = from /\ site' = from
      /\ \/ phase' = "waitLeader" /\ from # "before"
         \/ phase' = "reap"
  BY DEF KillGroup, Scan, AtCleanup, GotoCleanup, child
<1>2. Rooted' /\ ProcessOK' /\ Existing' = Existing
  BY <1>1, KillFacts
<1>3. ServerOK' /\ CleanOK'
  BY <1>1, <1>2 DEF AdapterIInv, ServerOK, CleanOK, Whereabouts, Sites
<1>4. QED
  BY <1>2, <1>3 DEF AdapterIInv

LEMMA WaitLeaderPreserves ==
  ASSUME AdapterIInv, NEW from \in Sites, WaitLeader(from) PROVE AdapterIInv'
<1>1. /\ Reap({leader}) /\ UNCHANGED <<running, doomed, holders>>
      /\ UNCHANGED <<served, enabled, leader, registered, outcome>>
      /\ phase = "waitLeader" /\ phase' = "scan" /\ site = from /\ site' = from
  BY DEF WaitLeader, PollLeader, StartCleanup, AtCleanup, GotoCleanup
<1>2. Rooted' /\ ProcessOK' /\ old' \subseteq old
  BY <1>1, ReapFacts
<1>3. ServerOK' /\ CleanOK'
  BY <1>1, <1>2 DEF AdapterIInv, ServerOK, CleanOK, Whereabouts, Sites
<1>4. QED
  BY <1>2, <1>3 DEF AdapterIInv

(* A cleanup that gives up ends in a containment error.                    *)
LEMMA SurvivorsPreserve ==
  ASSUME AdapterIInv, NEW from \in Sites, LeaderSurvives(from) \/ DescendantsSurvive(from) PROVE AdapterIInv'
<1>1. /\ outcome' = "containment" /\ phase' = "idle" /\ site' = "none" /\ leader' = NoPid
      /\ registered' = {} /\ UNCHANGED <<served, enabled>>
  BY DEF LeaderSurvives, DescendantsSurvive, End, ToPhase
<1>2. Rooted' /\ ProcessOK'
  <2>1. CASE LeaderSurvives(from)
    BY <2>1, StillFacts DEF LeaderSurvives, world
  <2>2. CASE DescendantsSurvive(from)
    BY <2>2, ReapFacts DEF DescendantsSurvive
  <2>3. QED
    BY <2>1, <2>2
<1>3. ServerOK' /\ CleanOK'
  BY <1>1 DEF AdapterIInv, ServerOK, CleanOK, Whereabouts, Settled
<1>4. QED
  BY <1>2, <1>3 DEF AdapterIInv

(* The heart of it: a cleanup resumes only after a look that left no child *)
(* of the server, and then no process is left at all.                      *)
LEMMA ReapAndRescanPreserves ==
  ASSUME AdapterIInv, NEW from \in Sites, ReapAndRescan(from) PROVE AdapterIInv'
<1>1. /\ Reap(adopted) /\ UNCHANGED <<running, doomed, holders>>
      /\ UNCHANGED <<served, enabled, leader, registered, outcome>>
      /\ phase = "reap" /\ site = from
      /\ \/ Remaining = {} /\ ToPhase(Resumed(from))
         \/ phase' = "scan" /\ site' = from
  BY DEF ReapAndRescan, AtCleanup, GotoCleanup, child
<1>2. /\ Rooted' /\ ProcessOK' /\ old' \subseteq old /\ Alive' = Alive
      /\ Existing' = Existing \ (zombie \cap adopted)
  BY <1>1, ReapFacts
<1>3. CASE Remaining = {} /\ ToPhase(Resumed(from))
  <2>1. Existing' = {}
    <3>1. Alive \subseteq Existing' /\ Existing' \cap DirectChildren = {}
      BY <1>2, <1>3 DEF AdapterIInv, ProcessOK, Remaining, Existing
    <3>2. QED
      BY <1>2, <3>1, OrphansAreAdopted DEF AdapterIInv
  <2>2. /\ site' = "none" /\ phase' = Resumed(from)
        /\ Resumed(from) \in {"spawn", "exchange", "return"}
        /\ Resumed(from) = "exchange" => from = "loop"
    BY <1>3 DEF ToPhase, Resumed, Sites
  <2>3. ServerOK' /\ CleanOK'
    BY <1>1, <1>2, <2>1, <2>2 DEF AdapterIInv, ServerOK, CleanOK, Whereabouts
  <2>4. QED
    BY <1>2, <2>3 DEF AdapterIInv
<1>4. CASE phase' = "scan" /\ site' = from
  <2>1. ServerOK' /\ CleanOK'
    BY <1>1, <1>2, <1>4 DEF AdapterIInv, ServerOK, CleanOK, Whereabouts, Sites
  <2>2. QED
    BY <1>2, <2>1 DEF AdapterIInv
<1>5. QED
  BY <1>1, <1>3, <1>4

LEMMA ReturnPreserves ==
  ASSUME AdapterIInv, SpawnFails \/ Return PROVE AdapterIInv'
<1>1. /\ phase \in {"spawn", "return"} /\ phase' = "idle" /\ site' = "none" /\ leader' = NoPid
      /\ registered' = {}
      /\ UNCHANGED <<running, doomed, zombie, parent, old, grouped, holders, served, enabled>>
      /\ outcome' \in {"error", "protocol", "answered", outcome}
  BY DEF SpawnFails, Return, End, ToPhase, world
<1>2. Rooted' /\ ProcessOK' /\ Existing' = Existing
  BY <1>1, StillFacts
<1>3. ServerOK' /\ CleanOK'
  BY <1>1, <1>2 DEF AdapterIInv, ServerOK, CleanOK, Whereabouts, Settled
<1>4. QED
  BY <1>2, <1>3 DEF AdapterIInv

-----------------------------------------------------------------------------
LEMMA AdapterStepPreserves == AdapterIInv /\ [AdapterNext]_adapterVars => AdapterIInv'
<1> SUFFICES ASSUME AdapterIInv, [AdapterNext]_adapterVars PROVE AdapterIInv'
  OBVIOUS
<1>1. CASE \E p \in Pids : Process(p)
  BY <1>1, ProcessPreserves
<1>2. CASE DeadlinePasses \/ CleanupDeadlinePasses
  BY <1>2, DeadlinesPreserve
<1>3. CASE Decline \/ Refuse \/ Accept \/ Spawn
  BY <1>3, DeclinePreserves, AcceptPreserves, SpawnPreserves
<1>4. CASE Exchange \/ RequestTaken \/ OutputTooLong
  BY <1>4, ExchangePreserves
<1>5. CASE Terminate
  BY <1>5, KillPreserves, WaitLeaderPreserves, SurvivorsPreserve, ReapAndRescanPreserves
    DEF Terminate
<1>6. CASE SpawnFails \/ Return
  BY <1>6, ReturnPreserves
<1>7. CASE UNCHANGED adapterVars
  <2>1. UNCHANGED <<running, doomed, zombie, parent, old, grouped, holders>> /\ UNCHANGED ServerIdle
    BY <1>7 DEF adapterVars, world, ServerIdle
  <2>2. Rooted' /\ ProcessOK' /\ Existing' = Existing
    BY <2>1, StillFacts
  <2>3. ServerOK' /\ CleanOK'
    BY <2>1, <2>2, CleanKept
  <2>4. QED
    BY <2>2, <2>3 DEF AdapterIInv
<1>8. QED
  BY <1>1, <1>2, <1>3, <1>4, <1>5, <1>6, <1>7 DEF AdapterNext, ServerStep

(* The invariant holds of every behaviour, whatever the solver does.       *)
THEOREM AdapterInvariant == AdapterSpec => []AdapterIInv
<1>1. QED
  BY AdapterInitEstablishes, AdapterStepPreserves, PTL DEF AdapterSpec

(* Every variable keeps its type, and a process that exists has a living   *)
(* parent or the server.                                                   *)
THEOREM AdapterKeepsTypes == AdapterSpec => []AdapterTypeOK
<1>1. AdapterIInv => AdapterTypeOK
  BY DEF AdapterIInv, ProcessOK, ServerOK, AdapterTypeOK, Settled
<1>2. QED
  BY <1>1, AdapterInvariant, PTL

(* An exchange that ends, other than by a containment error, has left no   *)
(* process behind: _terminate_process() finds detached ones and orphans.   *)
THEOREM AdapterLeavesNothing == AdapterSpec => []NothingOutlivesItsRequest
<1>1. AdapterIInv => NothingOutlivesItsRequest
  BY DEF AdapterIInv, CleanOK, NothingOutlivesItsRequest, Settled
<1>2. QED
  BY <1>1, AdapterInvariant, PTL

(* A solver is started only on a clean slate, so what an earlier request   *)
(* left never runs beside it, not even a request whose cleanup failed.     *)
THEOREM AdapterOneTree == AdapterSpec => []OneTreeAtATime
<1>1. AdapterIInv => OneTreeAtATime
  BY DEF AdapterIInv, CleanOK, OneTreeAtATime
<1>2. QED
  BY <1>1, AdapterInvariant, PTL

=============================================================================
