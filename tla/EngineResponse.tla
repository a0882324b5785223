---------------------------- MODULE EngineResponse ----------------------------
(* What the local engine writes for a request, and what its client accepts *)
(* of it (gto_oracle/engine_client.py, parse_engine_response() and         *)
(* parse_continuation_response()).                                         *)
(*                                                                         *)
(* The engine is not trusted: any of its fields may be off.  A response    *)
(* that echoes the request has This in the fields compared with it.        *)
(* Weights, frequencies and reaches are whole numbers of small units, so   *)
(* that the comparisons up to rounding are exact.                          *)
EXTENDS Naturals, Sequences, FiniteSets, FiniteSetsExt, SequencesExt, Functions

Operations == {"solve_root", "solve_node", "solve_path"}
This == "this"
Other == "other"

\* The request: the weights of the ranges, the menu of the node, the target
\* exploitability and the iterations allowed.
InputRange == [ace |-> 2, king |-> 1]
Modeled == {"CHECK", "BET"}
Target == 1
MaxIterations == 2
Sure == 2          \* a frequency of one
Full == 6          \* a reach of one

SumOver(entries, Of(_)) == FoldSeq(LAMBDA e, sum : Of(e) + sum, 0, entries)

-----------------------------------------------------------------------------
(* The checks.                                                             *)

Envelope(r, operation) == r.id = This /\ r.operation = operation

\* The context, the pinned solver and the request the engine says it solved.
Provenance(r, context) ==
  r.context = context /\ r.solver = This /\ r.request = This /\ r.memory = This

\* The same street, board and player.
SameNode(r) == r.node = This

ActionsAlign(r) == r.actions # <<>> /\ IsInjective(r.actions) /\ ToSet(r.actions) = Modeled

\* A mixed strategy over the actions, worth what its actions are worth.
Strategy(r, e) ==
  /\ Len(e.frequencies) = Len(r.actions) /\ Len(e.evs) = Len(r.actions)
  /\ SumOver(e.frequencies, LAMBDA f : f) = Sure
  /\ Sure * e.ev = SumOver([i \in DOMAIN e.evs |-> e.frequencies[i] * e.evs[i]], LAMBDA x : x)

Distinct(entries) == IsInjective([i \in DOMAIN entries |-> entries[i].combo])
Covered(entries) == {e.combo : e \in ToSet(entries)}

\* Weights that the ranges of the request can lead to, normalised.
Weighed(entries, total) ==
  /\ Distinct(entries)
  /\ \A e \in ToSet(entries) : /\ e.combo \in DOMAIN InputRange
                               /\ e.input = InputRange[e.combo]
                               /\ e.joint > 0
                               /\ e.reach \in 1..Full
                               /\ e.reach * total = Full * e.joint
  /\ SumOver(entries, LAMBDA e : e.joint) = total

\* A root has every combo of both players; only the acting one has actions.
RootPlayer(entries, total) ==
  /\ total > 0
  /\ Weighed(entries, total)
  /\ Covered(entries) = DOMAIN InputRange

ComboPolicies(r) ==
  /\ {p.player : p \in ToSet(r.players)} = {"OOP", "IP"} /\ Len(r.players) = 2
  /\ \A p \in ToSet(r.players) :
       /\ RootPlayer(p.entries, p.total)
       /\ \A e \in ToSet(p.entries) :
            IF p.player = "OOP" THEN Strategy(r, e) ELSE e.frequencies = <<>>

\* Further down only the combos that get there; none gains weight.
Reached(entries, total) ==
  /\ total > 0 /\ entries # <<>>
  /\ \A e \in ToSet(entries) : e.path > 0 /\ e.path <= e.input
  /\ Weighed(entries, total)

NodePolicies(r) ==
  /\ Reached(r.policies, r.total)
  /\ \A e \in ToSet(r.policies) : Strategy(r, e)

ConditionalRanges(r) ==
  /\ {p.player : p \in ToSet(r.ranges)} = {"OOP", "IP"} /\ Len(r.ranges) = 2
  /\ \A p \in ToSet(r.ranges) : Reached(p.entries, p.total)

\* The target is reached or the iterations are used up.
Convergence(r) ==
  /\ r.iterations \in 0..MaxIterations
  /\ r.reached => r.exploitability <= Target
  /\ ~r.reached => r.exploitability >= Target /\ r.iterations = MaxIterations

Accepted(r, operation, context) ==
  /\ Envelope(r, operation) /\ r.status = "ok"
  /\ Provenance(r, context)
  /\ SameNode(r)
  /\ ActionsAlign(r)
  /\ CASE operation = "solve_root" -> ComboPolicies(r)
       [] operation = "solve_node" -> NodePolicies(r)
       [] operation = "solve_path" -> NodePolicies(r) /\ ConditionalRanges(r)
  /\ Convergence(r)

-----------------------------------------------------------------------------
(* Responses: a right one, and every one that differs from it in one field *)
(* or in the claims about its convergence.                                 *)

Entry(combo, joint, reach) ==
  [combo |-> combo, input |-> InputRange[combo], path |-> InputRange[combo],
   joint |-> joint, reach |-> reach, frequencies |-> <<1, 1>>, evs |-> <<0, 2>>, ev |-> 1]
Silenced(e) == [e EXCEPT !.frequencies = <<>>]

Ace == Entry("ace", 2, 4)
King == Entry("king", 1, 2)
BothCombos == <<Ace, King>>

Right(operation, context) ==
  [id |-> This, operation |-> operation, status |-> "ok", context |-> context, solver |-> This,
   request |-> This, memory |-> This, node |-> This, actions |-> <<"CHECK", "BET">>,
   total |-> 3, policies |-> BothCombos,
   players |-> <<[player |-> "OOP", total |-> 3, entries |-> BothCombos],
                 [player |-> "IP", total |-> 3, entries |-> <<Silenced(Ace), Silenced(King)>>]>>,
   ranges |-> <<[player |-> "OOP", total |-> 3, entries |-> BothCombos],
                [player |-> "IP", total |-> 3, entries |-> BothCombos]>>,
   iterations |-> 1, exploitability |-> 0, reached |-> TRUE]

\* Only the ace gets there; both, twice; none; too much weight, or too little;
\* another combo; a strategy that is none, or is worth something else.
Flawed ==
  {<<>>, <<Ace>>, <<Ace, Ace>>, <<Ace, King, King>>, <<Ace, [King EXCEPT !.input = 2]>>,
   <<Ace, [King EXCEPT !.path = 2]>>, <<Ace, [King EXCEPT !.joint = 2]>>,
   <<Ace, [King EXCEPT !.combo = "queen"]>>, <<Ace, [King EXCEPT !.reach = 4]>>,
   <<Ace, [King EXCEPT !.frequencies = <<1, 0>>]>>, <<Ace, [King EXCEPT !.ev = 2]>>}
OnlyAce == <<Entry("ace", 3, 6)>>

\* Each operation has fields of its own.
ResultFields(operation) ==
  CASE operation = "solve_root" -> {"players"}
    [] operation = "solve_node" -> {"policies", "total"}
    [] operation = "solve_path" -> {"policies", "total", "ranges"}

OwnDepartures ==
  ({"policies"} \X (Flawed \cup {OnlyAce}))
    \cup ({"total"} \X {0, 2})
    \cup ({"players", "ranges"} \X
            {<<[player |-> "OOP", total |-> t, entries |-> entries],
               [player |-> p, total |-> 3, entries |-> BothCombos]>> :
                 t \in {0, 3}, p \in {"OOP", "IP"}, entries \in Flawed \cup {OnlyAce}})

Departures(context) ==
  ({"id", "operation", "solver", "request", "memory", "node"} \X {Other})
    \cup {<<"status", "error">>}
    \cup ({"context"} \X ({"offline", "owned_simulator"} \ {context}))
    \cup ({"actions"} \X {<<>>, <<"CHECK">>, <<"CHECK", "CHECK">>, <<"CHECK", "BET", "RAISE">>})

Responses(operation, context) ==
  LET right == Right(operation, context)
      own == {d \in OwnDepartures : d[1] \in ResultFields(operation)}
  IN  {[right EXCEPT ![d[1]] = d[2]] : d \in Departures(context) \cup own}
        \cup {[right EXCEPT !.iterations = i, !.exploitability = x, !.reached = b] :
                i \in {1, MaxIterations, MaxIterations + 1}, x \in {0, Target, Target + 1},
                b \in BOOLEAN}

(* What an accepted response is taken for: the strategy of a node of the   *)
(* request for combos of its range, whose reaches are a distribution, and  *)
(* a result that is as good as it says.                                    *)
AnswersRequest(r) ==
  LET of == IF r.operation = "solve_root"
            THEN {p.entries : p \in {q \in ToSet(r.players) : q.player = "OOP"}}
            ELSE {r.policies}
  IN  /\ r.id = This /\ r.request = This /\ r.node = This /\ r.solver = This
      /\ \A entries \in of :
           /\ Covered(entries) \subseteq DOMAIN InputRange
           /\ SumOver(entries, LAMBDA e : e.reach) = Full
           /\ \A e \in ToSet(entries) : SumOver(e.frequencies, LAMBDA f : f) = Sure
      /\ r.reached => r.exploitability <= Target

(* A closed statement about the checks, decided by evaluating it: proofs   *)
(* about the cache start from it, since its sums are folds.                *)
ASSUME AcceptedAnswers ==
  \A operation \in Operations, context \in {"offline", "owned_simulator"} :
    \A r \in Responses(operation, context) :
      Accepted(r, operation, context) => AnswersRequest(r)
=============================================================================
