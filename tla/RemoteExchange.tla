--------------------------- MODULE RemoteExchange ---------------------------
(***************************************************************************)
(* A remote solve, end to end: the clients (gto_remote/client.py,          *)
(* multiway_client.py) that post a decision and judge what comes back, the *)
(* HTTP exchange (server.py, GTORequestHandler), the service behind it     *)
(* (EvaluationService) and the backend it routes to (external_backend.py), *)
(* whose adapter is trusted with nothing.                                  *)
(*                                                                         *)
(* One thread serves one connection, so a client is the other end of a     *)
(* thread.  A fingerprint hashes the whole decision and stands for it.     *)
(***************************************************************************)
EXTENDS EvaluationService

CONSTANTS
  Backends,      \* the backends an operator may deploy, with their manifests
  Pinned,        \* the backend whose manifest the clients were given
  MaxRestarts    \* bound of the model: restarts of the server

VARIABLES
  backend,    \* what the server routes to
  waiting,    \* the threads whose client still waits for the response
  made,       \* history: what the n-th solve answered, and who really made it
  restarts

allVars == <<cache, recency, inFlight, slot, pc, request, answer, solves,
             backend, waiting, made, restarts>>

-----------------------------------------------------------------------------
\* A decision is [schema, seats, street, events]: the players dealt in and the
\* public events that count players, replayed from the first preflop action;
\* <<>> when a v2 state carries no transcript and its players are those left.
ASSUME ExchangeAssumption ==
  /\ Pinned.maxPlayers \in Nat
  /\ \A d \in Fingerprints :
       /\ d.seats \in Nat /\ d.events \in Seq(STRING)
       /\ d.events # <<>> => d.street = "PREFLOP"

Street(d) == IF \E i \in DOMAIN d.events : d.events[i] = "DEAL_FLOP"
             THEN "POSTFLOP" ELSE d.street

\* The players left now and the most that were left since the flop.
Counted(seen, event) ==
  [now |-> IF event = "FOLD" THEN seen.now - 1 ELSE seen.now,
   peak |-> IF event = "DEAL_FLOP" THEN seen.now ELSE seen.peak]

PlayerProfile(d) ==
  LET after[n \in 0..Len(d.events)] ==
        IF n = 0 THEN [now |-> d.seats, peak |-> 0] ELSE Counted(after[n - 1], d.events[n])
  IN  after[Len(d.events)]

Peak(d) == LET seen == PlayerProfile(d)
           IN  IF seen.peak > seen.now THEN seen.peak ELSE seen.now

\* Why a backend cannot represent the decision at all.
SupportGaps(b, d) ==
  {gap \in {"players", "preflop", "postflop", "too_many", "not_a_tree", "no_transcript"} :
     CASE gap = "players" -> PlayerProfile(d).now < 2
       [] gap = "preflop" -> b.preflop = "NONE"
       [] gap = "postflop" -> Street(d) = "POSTFLOP" /\ b.postflop = "NONE"
       [] gap = "too_many" -> Street(d) = "POSTFLOP" /\ Peak(d) > b.maxPlayers
       [] gap = "not_a_tree" -> Street(d) = "POSTFLOP" /\ Peak(d) > 2
                                  /\ b.postflop # "MULTIWAY_TREE"
       [] gap = "no_transcript" -> d.events = <<>>
            /\ IF Street(d) = "POSTFLOP" THEN PlayerProfile(d).now > 2 \/ b.stateful
               ELSE b.preflop = "SOLVED_TREE"}

\* Why a solution of it must be called approximate.
ExactnessGaps(b, d) ==
  SupportGaps(b, d) \cup
  {gap \in {"policy", "conditioning", "not_retained", "history", "bunching", "abstracted"} :
     CASE gap = "policy" -> Street(d) = "PREFLOP" /\ b.preflop # "SOLVED_TREE"
       [] gap = "conditioning" -> Street(d) = "POSTFLOP" /\ ~b.allStreets
       [] gap = "not_retained" -> Street(d) = "POSTFLOP" /\ ~b.stateful
       [] gap = "history" -> Street(d) = "POSTFLOP" /\ d.events = <<>>
       [] gap = "bunching" -> d.events # <<>> /\ PlayerProfile(d).now < d.seats
                                /\ ~b.bunching
       [] gap = "abstracted" -> ~b.exactGame}

MultiwayPath(d) ==
  IF Street(d) = "PREFLOP" THEN PlayerProfile(d).now > 2 ELSE Peak(d) > 2

\* The checks of a v3 response, the same function on both sides: the proof
\* must name the manifest and the policy must be legal.  v2 carries prose, in
\* which no policy is known to be legal.
WireUnpinned(b, d, claim) == IF d.schema = 3 THEN claim.legal ELSE ~claim.legal
WireAccepts(b, d, claim) ==
  IF d.schema = 3 THEN claim.proof = b /\ claim.legal ELSE ~claim.legal

ExactAllowed(b, d, claim) == claim.exact => ExactnessGaps(b, d) = {}

\* What an adapter may print for a solved decision.
Claims == [proof : Backends, legal : BOOLEAN, exact : BOOLEAN]

\* A backend that declines, and an adapter that fails or is refused, are an
\* unsolved outcome; under v2 the backend signs for its adapter.
NoClaim == [solved |-> FALSE]
Claimed(b, claim) == [solved |-> TRUE, by |-> b, proof |-> claim.proof,
                      legal |-> claim.legal, exact |-> claim.exact]

Declines(b, d) == SupportGaps(b, d) # {} \/ (d.schema = 2 /\ MultiwayPath(d))

RouterAnswers(b, d) ==
  {NoClaim} \cup
  IF ~b.external THEN {Claimed(b, c) : c \in [proof : {b}, legal : {FALSE}, exact : {FALSE}]}
  ELSE IF Declines(b, d) THEN {}
  ELSE {Claimed(b, IF d.schema = 2 THEN [c EXCEPT !.proof = b] ELSE c) :
          c \in {c \in Claims : WireAccepts(b, d, c) /\ ExactAllowed(b, d, c)}}

-----------------------------------------------------------------------------
\* What an idle thread was last asked does not matter before it is asked.
NoRequest == [t \in Threads |-> CHOOSE r \in Requests : TRUE]

\* The operator gave the clients the manifest of what he deployed.
ExchangeInit ==
  /\ Init
  /\ request = NoRequest
  /\ backend = Pinned
  /\ waiting = {}
  /\ made = <<>>
  /\ restarts = 0

CanCall(t) == t \notin waiting /\ pc[t] = "idle"

\* A client posts: its own manifest covers the decision, the server accepts
\* the exchange, and its backend speaks the schema.  A call refused by one of
\* them, or whose connection fails first, leaves no trace.
Call(t, r) ==
  /\ CanCall(t)
  /\ r.fingerprint.schema = 3 => SupportGaps(Pinned, r.fingerprint) = {}
  /\ r.fingerprint.schema \in backend.schemas
  /\ Post(t, r)
  /\ waiting' = waiting \cup {t}
  /\ UNCHANGED <<backend, made, restarts>>

\* A solve ends with what the router answers.
RecordSolve(t) ==
  IF solves' = solves THEN UNCHANGED made
  ELSE \E a \in RouterAnswers(backend, request[t].fingerprint) : made' = Append(made, a)

Serve(t) ==
  /\ Evaluate(t)
  /\ RecordSolve(t)
  /\ UNCHANGED <<backend, waiting, restarts>>

\* The client's judgement of a response to its decision d; the rest of what
\* may come back is a failed or an unsolved call.
Accepts(d, body) ==
  LET a == made[body.solve]
  IN  /\ body.fingerprint = d
      /\ a.solved
      /\ d.schema = 3 => WireAccepts(Pinned, d, a) /\ ExactAllowed(Pinned, d, a)

\* A response is on its way to t's client.
Answered(t) == t \in waiting /\ pc[t] = "idle"

Respond(t) ==
  /\ Answered(t)
  /\ waiting' = waiting \ {t}
  /\ UNCHANGED vars
  /\ UNCHANGED <<backend, made, restarts>>

\* The client times out, or its connection breaks; the thread works on.
GiveUp(t) ==
  /\ t \in waiting /\ pc[t] # "idle"
  /\ waiting' = waiting \ {t}
  /\ UNCHANGED vars
  /\ UNCHANGED <<backend, made, restarts>>

\* The server's process ends, and with it its daemon threads, its cache and
\* tables, and the connections; it starts again, perhaps on another backend.
\* Nothing of what was solved before is left to be answered.
Restart ==
  /\ restarts < MaxRestarts
  /\ restarts' = restarts + 1
  /\ backend' \in Backends
  /\ cache' = [id \in {} |-> {}] /\ recency' = <<>>
  /\ inFlight' = [id \in {} |-> {}] /\ slot' = {}
  /\ pc' = [t \in Threads |-> "idle"]
  /\ request' = NoRequest
  /\ answer' = [t \in Threads |-> Raised("none")]
  /\ waiting' = {}
  /\ made' = [n \in DOMAIN made |-> NoClaim]
  /\ UNCHANGED solves

ExchangeNext ==
  \/ Restart
  \/ \E t \in Threads :
       \/ \E r \in Requests : Call(t, r)
       \/ Serve(t) \/ Respond(t) \/ GiveUp(t)

\* The server's threads run and its responses arrive; nobody has to call, to
\* give up or to restart the server.
ExchangeSpec ==
  /\ ExchangeInit /\ [][ExchangeNext]_allVars
  /\ \A t \in Threads : WF_allVars(Serve(t)) /\ WF_allVars(Respond(t))

-----------------------------------------------------------------------------
\* The players who had not folded when the flop came.
SawFlop(d) ==
  d.seats - Cardinality({i \in DOMAIN d.events :
    d.events[i] = "FOLD" /\ \E j \in DOMAIN d.events : i < j /\ d.events[j] = "DEAL_FLOP"})

(* What a v3 client accepts as solved was solved for the decision it asked   *)
(* about, by the backend whose manifest it Pinned (whatever the server was *)
(* restarted with), is legal there, comes from a backend for as many       *)
(* players as saw the flop, and is called exact only when the cards folded *)
(* players took away are modelled (multiway_client.request_structured).    *)
AcceptedIsBound ==
  \A t \in Threads :
    LET d == request[t].fingerprint
        body == answer[t].body
        a == made[body.solve]
    IN  Answered(t) /\ answer[t].error = "none" /\ d.schema = 3 /\ Accepts(d, body) =>
          /\ body.fingerprint = d
          /\ a.by = Pinned /\ a.legal
          /\ Street(d) = "POSTFLOP" => SawFlop(d) <= Pinned.maxPlayers
          /\ a.exact /\ PlayerProfile(d).now < d.seats => Pinned.bunching

(* Every call ends, and the thread that served it is free again: no caller *)
(* waits for the solver or for another caller, and a client that gave up   *)
(* does not strand its thread (server.py, EvaluationService.evaluate).     *)
EveryCallEnds == \A t \in Threads : []<>(t \notin waiting /\ pc[t] = "idle")
=============================================================================
