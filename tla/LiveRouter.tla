----------------------------- MODULE LiveRouter -----------------------------
(* What the live strategy router makes of a reconstructed state            *)
(* (live_gto.py, live_gto_continuation.py): the preflop policy, the ranges *)
(* and the solve that it asks for, or its refusal; the checks a request    *)
(* must pass (gto_oracle/models.py, continuation.py); and the last check   *)
(* of an advised amount against the table (poker_assistant.py).            *)
(*                                                                         *)
(* One solver unit is one chip.  Solving is OracleCache's subject: here    *)
(* only the question is of interest, and whether its answers can be        *)
(* played.                                                                 *)
EXTENDS SolverSpot

CONSTANTS
  SizeTolerancePct,    \* GTO_..._SIZE_TOLERANCE_PCT, in abstract mode
  MaxStackErrorPct,    \* GTO_..._MAX_STACK_ERROR_PCT
  BetPct               \* GTO_BET_SIZE_PCT

ASSUME RouterAssumption ==
  SizeTolerancePct \in Nat /\ MaxStackErrorPct \in Nat /\ BetPct \in Nat

Modes == {"exact", "abstract", "charts"}
NoSpec == [asked |-> FALSE]
Distance(a, b) == IF a < b THEN b - a ELSE a - b
HalfUp(numerator, denominator) == (2 * numerator + denominator) \div (2 * denominator)

-----------------------------------------------------------------------------
(* Stack buckets and tolerances.                                           *)

EffectiveStacks(seen) ==
  {Lesser(seen.initial[hero], seen.initial[s]) : s \in (Seats \ seen.folded) \ {hero}}

\* The stack a bucket is furthest from, relative to that stack.
WorstMatch(bucket, stacks) ==
  CHOOSE v \in stacks :
    \A w \in stacks : Distance(bucket, v) * w >= Distance(bucket, w) * v

CloserOrLess(a, b, stacks) ==
  LET v == WorstMatch(a, stacks)
      w == WorstMatch(b, stacks)
      left == Distance(a, v) * w
      right == Distance(b, w) * v
  IN  left < right \/ (left = right /\ a <= b)

NearestBucket(seen) ==
  LET stacks == EffectiveStacks(seen)
  IN  CHOOSE b \in Buckets : \A c \in Buckets : CloserOrLess(b, c, stacks)

BucketFits(seen, mode) ==
  LET bucket == NearestBucket(seen)
      worst == WorstMatch(bucket, EffectiveStacks(seen))
  IN  IF mode = "exact"
      THEN \A s \in Seats : Near(seen.initial[s], bucket, 5 * BigBlind)
      ELSE Distance(bucket, worst) * 100 <= MaxStackErrorPct * worst

Greater(a, b) == IF a < b THEN b ELSE a

MatchTolerances(seen, mode) ==
  [s \in Seats |->
     IF mode = "exact" \/ seen.paid[s] <= BigBlind THEN 5 * BigBlind
     ELSE Greater(5 * BigBlind, seen.paid[s] * SizeTolerancePct)]

-----------------------------------------------------------------------------
(* BlueprintRangeProvider._resolve().                                      *)

\* What the frame says of Hero's own decision agrees with itself.
DecisionAgrees(state, seen) ==
  LET owed == Max(Range(seen.paid)) - seen.paid[hero]
  IN  /\ seen.actor = hero /\ hero \notin seen.allIn
      /\ Near(state.call, owed, 5 * BigBlind)
      /\ Near(state.heroBet, seen.paid[hero], 5 * BigBlind)
      /\ Near(state.heroStack + state.heroBet, seen.initial[hero], 5 * BigBlind)
      /\ IF owed > 0 THEN "CALL" \in state.buttons /\ "CHECK" \notin state.buttons
         ELSE "CHECK" \in state.buttons /\ "CALL" \notin state.buttons

Resolve(state, mode) ==
  LET seen == state.observation
      stack == NearestBucket(seen)
      tolerance == MatchTolerances(seen, mode)
  IN  CASE ~seen.known -> NoLine
        [] seen.known /\ ~BucketFits(seen, mode) -> NoLine
        [] seen.known /\ BucketFits(seen, mode) /\ seen.terminal ->
             ResolveTerminalHandoff(stack, seen, tolerance)
        [] seen.known /\ BucketFits(seen, mode) /\ ~seen.terminal ->
             IF DecisionAgrees(state, seen) THEN ResolveDecision(stack, seen, tolerance)
             ELSE NoLine

-----------------------------------------------------------------------------
(* The preflop policy.                                                     *)

MoneySteps(steps) == {i \in DOMAIN steps : steps[i].label # FoldLabel}

\* A raise's size survives only until its maker puts in more.
SizesKnown(steps) ==
  \A i \in DOMAIN steps : steps[i].label \in {Raise, AllIn} =>
    ~\E j \in MoneySteps(steps) : j > i /\ steps[j].actor = steps[i].actor

\* The raises as they were observed, not as the tree has them.
ObservedRaises(seen, steps) ==
  FoldLeft(LAMBDA acc, step :
             LET target == seen.paid[step.actor]
                 size == target - acc.highest
             IN  CASE step.label \notin {Raise, AllIn} -> acc
                   [] step.label = AllIn /\ size <= 0 -> acc
                   [] step.label = Raise /\ (size <= 0 \/ size < acc.full) ->
                        [acc EXCEPT !.sound = FALSE]
                   [] OTHER -> [acc EXCEPT !.highest = target, !.full = Greater(@, size)],
           [highest |-> BigBlind, full |-> BigBlind, sound |-> TRUE], steps)

ReconstructsRaises(seen, steps) ==
  /\ SizesKnown(steps)
  /\ ObservedRaises(seen, steps).sound
  /\ ObservedRaises(seen, steps).highest = Max(Range(seen.paid))

\* Hero's all-in is for what Hero has; any other target is the tree's.
DisplayTarget(label, tree, state) ==
  CASE label = AllIn -> state.heroStack + state.heroBet
    [] label = Raise -> RaiseTarget(tree)
    [] OTHER -> NoAmount

PolicyKind(label, state) ==
  CASE label = Call /\ state.call = 0 -> "CHECK"
    [] label = Call /\ state.call > 0 -> "CALL"
    [] label = FoldLabel -> "FOLD"
    [] OTHER -> "RAISE"

ButtonFor(label, state) ==
  CASE label = Raise -> {"RAISE", "BET"}
    [] label = AllIn -> {"ALL-IN", "RAISE", "BET"}
    [] OTHER -> {PolicyKind(label, state)}

RaiseIsLegal(label, target, full, state, highest) ==
  LET total == state.heroStack + state.heroBet
  IN  \/ target = NoAmount
      \/ /\ target <= total /\ target > highest
         /\ label = AllIn \/ (target < total /\ target >= highest + full)

\* What one class of hands is told; nothing when any of it is refused.
PolicyOf(class, found, state, mode) ==
  LET seen == state.observation
      tree == found.state
      menu == Menu(tree, found.stack)
      reach == WalkReaches(found)[hero][class]
      labels == {l \in menu : Weight(reach, class, l, menu) > 0}
      highest == Max(Range(seen.paid))
      full == IF mode = "exact" THEN tree.lastFullRaise
              ELSE ObservedRaises(seen, found.steps).full
      legal(l) == /\ ButtonFor(l, state) \cap state.buttons # {}
                  /\ l = Raise /\ mode = "abstract" => ReconstructsRaises(seen, found.steps)
                  /\ RaiseIsLegal(l, DisplayTarget(l, tree, state), full, state, highest)
  IN  IF \E l \in labels : ~legal(l) THEN {}
      ELSE {[kind |-> PolicyKind(l, state), to |-> DisplayTarget(l, tree, state)] : l \in labels}

PreflopPolicy(state, mode) ==
  LET found == Resolve(state, mode)
  IN  IF found = NoLine THEN {}
      ELSE UNION {PolicyOf(class, found, state, mode) : class \in Classes}

-----------------------------------------------------------------------------
(* Ranges of the two players after the flop.                               *)

NoRanges == [known |-> FALSE]

\* Both must have survived the preflop round of this hand.
VerifiedHandoff(state) ==
  /\ state.observation.known
  /\ state.observation.terminal \/ state.observation.positionOnly
  /\ state.villain # NoSeat
  /\ {hero, state.villain} \cap state.observation.folded = {}

ChartRanges(state) ==
  IF VerifiedHandoff(state)
  THEN [known |-> TRUE, hero |-> Classes, villain |-> Classes]
  ELSE NoRanges

\* Refused unless Hero's own cards are in Hero's range: some are.
BlueprintRanges(state, mode) ==
  LET seen == state.observation
      found == Resolve(state, mode)
      reach == WalkReaches(found)
      of(seat) == ExpandPositionReach(reach, seat)
  IN  IF ~VerifiedHandoff(state) THEN NoRanges
      ELSE IF ~seen.terminal \/ found = NoLine THEN NoRanges
      ELSE IF of(hero) = {} \/ of(state.villain) = {} THEN NoRanges
      ELSE [known |-> TRUE, hero |-> of(hero), villain |-> of(state.villain)]

RangesFor(state, mode) ==
  IF mode = "charts" THEN ChartRanges(state) ELSE BlueprintRanges(state, mode)

-----------------------------------------------------------------------------
(* The request for one street: _eligibility_reason(), build_live_spec().   *)

Bets == {"BET", "ALL-IN"}
Effective(state) == Lesser(state.heroStack, state.villainStack)

SupportedHistory(state) ==
  LET untouched == state.call = 0 /\ state.heroBet = 0 /\ state.villainBet = 0
      faced == /\ state.observedBet > 0 /\ state.heroBet = 0
               /\ state.villainBet = state.observedBet /\ state.call = state.observedBet
               /\ state.observedBet <= Effective(state)
  IN  \/ state.history = <<>> /\ state.oop /\ state.rootConfirmed /\ untouched
      \/ state.history = <<"CHECK">> /\ ~state.oop /\ untouched
      \/ state.history = <<"BET">> /\ ~state.oop /\ faced
      \/ state.history = <<"CHECK", "BET">> /\ state.oop /\ faced

IsEligible(state) ==
  /\ state.mapped /\ state.street \in 2..4 /\ state.villains = 1
  /\ VerifiedHandoff(state)
  /\ state.pot > 0 /\ Effective(state) > 0
  /\ SupportedHistory(state)
  /\ IF state.call = 0 THEN "CHECK" \in state.buttons /\ Bets \cap state.buttons # {}
     ELSE /\ {"FOLD", "CALL"} \subseteq state.buttons
          /\ Effective(state) > state.observedBet => {"RAISE", "ALL-IN"} \cap state.buttons # {}

Sized(kind, to) == [kind |-> kind, to |-> to]
Unsized(kind) == [kind |-> kind, to |-> NoAmount]

RootActions(state) ==
  LET effective == Effective(state)
      wanted == Greater(1, HalfUp(state.pot * BetPct, 100))
      aggressive == IF "BET" \notin state.buttons \/ wanted >= effective
                    THEN Sized("ALL-IN", effective) ELSE Sized("BET", wanted)
  IN  {Unsized("CHECK"), aggressive}

RaiseOverBet(state) ==
  LET to == Lesser(Effective(state), HalfUp(state.call * 5, 2))
  IN  CASE Effective(state) <= state.call -> {}
        [] Effective(state) > state.call /\ "RAISE" \in state.buttons ->
             {Sized(IF to = Effective(state) THEN "ALL-IN" ELSE "RAISE", to)}
        [] OTHER -> {Sized("ALL-IN", Effective(state))}

HistoryActions(state) ==
  [i \in DOMAIN state.history |->
     IF state.history[i] = "CHECK" THEN Unsized("CHECK")
     ELSE Sized(IF state.observedBet = Effective(state) THEN "ALL-IN" ELSE "BET",
                state.observedBet)]

BuildLiveSpec(state) ==
  [asked |-> TRUE, street |-> state.street, actor |-> IF state.oop THEN "OOP" ELSE "IP",
   pot |-> state.pot, effective |-> Effective(state), facing |-> state.call,
   modeled |-> IF state.call = 0 THEN RootActions(state)
               ELSE {Unsized("FOLD"), Unsized("CALL")} \cup RaiseOverBet(state),
   path |-> HistoryActions(state), invested |-> <<0, 0>>]

\* The next full raise after the sized actions of this street.
MinimumFullRaiseTo(history, facing) ==
  LET walk == FoldLeft(LAMBDA acc, action :
                LET size == action.to - acc.to
                IN  CASE action.to = NoAmount -> acc
                      [] action.to # NoAmount /\ size <= 0 -> [acc EXCEPT !.sound = FALSE]
                      [] action.to # NoAmount /\ size > 0 /\ size < acc.full ->
                           [acc EXCEPT !.to = action.to, !.sound = @ /\ action.kind = "ALL-IN"]
                      [] OTHER -> [acc EXCEPT !.to = action.to, !.full = size],
                [to |-> 0, full |-> 0, sound |-> TRUE], history)
  IN  IF walk.sound /\ walk.to >= facing /\ walk.full > 0 THEN walk.to + walk.full
      ELSE 2 * facing

\* TreeConfig refuses a menu that is not poker.
AcceptedTree(spec) ==
  LET kinds == {a.kind : a \in spec.modeled}
  IN  /\ spec.pot > 0 /\ spec.effective > 0 /\ spec.facing <= spec.effective
      /\ IF spec.facing = 0 THEN "CHECK" \in kinds /\ kinds \cap {"FOLD", "CALL", "RAISE"} = {}
         ELSE {"FOLD", "CALL"} \subseteq kinds /\ kinds \cap {"CHECK", "BET"} = {}
      /\ \A a \in spec.modeled \cup ToSet(spec.path) :
           /\ a.to <= spec.effective
           /\ a.kind = "ALL-IN" => a.to = spec.effective
      /\ \A a \in spec.modeled :
           a.kind = "RAISE" => /\ a.to > spec.facing
                               /\ a.to >= MinimumFullRaiseTo(spec.path, spec.facing)

-----------------------------------------------------------------------------
(* The request for a whole hand: live_gto_continuation.py.                 *)

\* The two who saw the flop, the first to act and the other.
FlopPair == IF Cardinality(Live(flop)) = 2 THEN OrderedAfter(0, Live(flop)) ELSE <<>>

ReplayedTarget(seat) == hand.remaining[seat] + hand.streetPaid[seat]

CurrentRootActions(effective) ==
  LET wanted == Greater(1, Lesser(HalfUp(Total(hand.totalPaid) * BetPct, 100), effective))
  IN  {Unsized("CHECK"), Sized(IF wanted = effective THEN "ALL-IN" ELSE "BET", wanted)}

CurrentRaise(effective) ==
  LET least == IF MinimumRaiseTo(hand) = NoAmount THEN effective ELSE MinimumRaiseTo(hand)
      to == Lesser(effective, Greater(least, HalfUp(hand.highest * 5, 2)))
      possible == {"RAISE_TO", "ALL_IN_TO"} \cap LegalActions(hand) # {}
  IN  {a \in {Sized(IF to = effective THEN "ALL-IN" ELSE "RAISE", to)} :
         possible /\ effective > hand.highest}

CurrentNodeActions(villain) ==
  LET effective == Lesser(ReplayedTarget(hero), ReplayedTarget(villain))
  IN  IF Facing(hand, hero) = 0 THEN CurrentRootActions(effective)
      ELSE {Unsized("FOLD"), Unsized("CALL")} \cup CurrentRaise(effective)

\* The visible buttons must offer what the transcript says is possible.
ButtonsAgree(state, actions) ==
  \A a \in actions :
    CASE a.kind = "BET" -> "BET" \in state.buttons
      [] a.kind = "RAISE" -> {"RAISE", "ALL-IN"} \cap state.buttons # {}
      [] a.kind = "ALL-IN" /\ Facing(hand, hero) = 0 -> Bets \cap state.buttons # {}
      [] a.kind = "ALL-IN" /\ Facing(hand, hero) > 0 -> {"RAISE", "ALL-IN"} \cap state.buttons # {}
      [] OTHER -> a.kind \in state.buttons

StepKind(event) ==
  CASE event.kind = "BET_TO" -> "BET" [] event.kind = "RAISE_TO" -> "RAISE"
    [] event.kind = "ALL_IN_TO" -> "ALL-IN" [] OTHER -> event.kind

StepOf(event) ==
  IF event.kind \in {"BET_TO", "RAISE_TO", "ALL_IN_TO"}
  THEN Sized(StepKind(event), event.to) ELSE Unsized(StepKind(event))

PathFromHistory == [i \in DOMAIN path |-> StepOf(path[i])]

BuildContinuationSpec(state) ==
  LET pair == FlopPair
      villain == IF hero = pair[1] THEN pair[2] ELSE pair[1]
      actions == CurrentNodeActions(villain)
  IN  IF pair = <<>> THEN NoSpec
      ELSE IF \/ Live(hand) # Live(flop)
              \/ hero \notin ToSet(pair) \/ state.villain # villain
              \/ state.oop # (hero = pair[1]) \/ ~ButtonsAgree(state, actions)
      THEN NoSpec
      ELSE [asked |-> TRUE, street |-> hand.street,
            actor |-> IF hero = pair[1] THEN "OOP" ELSE "IP",
            pot |-> Total(flop.totalPaid),
            effective |-> Lesser(flop.remaining[pair[1]], flop.remaining[pair[2]]),
            facing |-> Facing(hand, hero), modeled |-> actions, path |-> PathFromHistory,
            invested |-> [i \in 1..2 |-> flop.remaining[pair[i]] - hand.remaining[pair[i]]]]

AcceptedContinuation(spec) ==
  LET kinds == {a.kind : a \in spec.modeled}
      mine == IF spec.actor = "OOP" THEN 1 ELSE 2
  IN  /\ spec.pot > 0 /\ spec.effective > 0 /\ spec.facing <= spec.effective
      /\ \A a \in spec.modeled \cup ToSet(spec.path) : a.to <= spec.effective
      /\ \A i \in 1..2 : spec.invested[i] <= spec.effective
      /\ spec.facing = spec.invested[3 - mine] - spec.invested[mine]
      /\ IF spec.facing = 0 THEN "CHECK" \in kinds /\ kinds \cap {"FOLD", "CALL", "RAISE"} = {}
         ELSE {"FOLD", "CALL"} \subseteq kinds /\ kinds \cap {"CHECK", "BET"} = {}

\* Ranges of a whole hand are those of its flop, with nobody's cards seen.
FlopRangeState(state) ==
  [state EXCEPT !.street = 2, !.pot = Total(flop.totalPaid), !.heroBet = 0, !.villainBet = 0,
                !.call = 0, !.buttons = {"CHECK", "BET"}, !.rootConfirmed = TRUE,
                !.history = <<>>, !.mapped = TRUE, !.observedBet = 0,
                !.heroStack = flop.remaining[hero],
                !.villainStack = IF state.villain = NoSeat THEN 0
                                 ELSE flop.remaining[state.villain]]

-----------------------------------------------------------------------------
(* LiveGTORouter.evaluate(): the question put to the engine, if any.       *)

StreetSpec(state, mode) ==
  IF ~IsEligible(state) THEN NoSpec
  ELSE IF ~AcceptedTree(BuildLiveSpec(state)) \/ ~RangesFor(state, mode).known THEN NoSpec
  ELSE BuildLiveSpec(state)

HandSpec(state, mode) ==
  LET spec == BuildContinuationSpec(state)
  IN  IF ~spec.asked THEN NoSpec
      ELSE IF ~AcceptedContinuation(spec) \/ ~RangesFor(FlopRangeState(state), mode).known
      THEN NoSpec
      ELSE spec

\* With charts the seats will do where the wagers were not captured.
StateFor(mode) ==
  IF mode = "charts" THEN PositionContinuity(frames, LiveState(frames)) ELSE LiveState(frames)

-----------------------------------------------------------------------------
(* validate_strategy_amount(): whatever is advised, by whomever.           *)

ValidateActionSizeByBlind(f, action) ==
  CASE action.kind \in {"CHECK", "FOLD"} -> action.to = NoAmount
    [] action.kind = "CALL" -> CallAmount(f) > 0
    [] action.kind = "BET" ->
         action.to > 0 /\ action.to <= ReplayedTarget(hero)
    [] action.kind = "RAISE" ->
         action.to > f.hand.highest /\ action.to <= ReplayedTarget(hero)

ValidateActionSize(f, action) ==
  LET total == Stack(f, hero) + Bet(f, hero)
      least == f.hand.highest + Greater(BigBlind, CallAmount(f))
  IN  CASE action.kind \in {"CHECK", "FOLD"} -> action.to = NoAmount
        [] action.kind = "CALL" -> CallAmount(f) > 0
        [] action.kind = "BET" ->
             action.to > 0 /\ action.to <= total /\ action.to >= Lesser(BigBlind, total)
        [] action.kind = "RAISE" ->
             /\ action.to <= total /\ action.to > f.hand.highest
             /\ action.to >= least \/ action.to = total

ValidateStrategyAmount(f, buttons, action) ==
  LET total == Stack(f, hero) + Bet(f, hero)
      allIn == /\ "ALL-IN" \in buttons /\ action.to = total
               /\ action.kind = IF CallAmount(f) > 0 THEN "RAISE" ELSE "BET"
  IN  (action.kind \in buttons \/ allIn) /\ ValidateActionSize(f, action)

-----------------------------------------------------------------------------
(* What an amount means at the table.                                      *)

EventFor(action) ==
  LET most == MaxTarget(hand, hero)
  IN  CASE action.kind \in {"FOLD", "CHECK"} ->
             [kind |-> action.kind, seat |-> hero, to |-> NoAmount]
        [] action.kind = "CALL" -> [kind |-> "CALL", seat |-> hero, to |-> CallTarget(hand, hero)]
        [] action.kind \notin {"FOLD", "CHECK", "CALL"} /\ action.to = most ->
             [kind |-> "ALL_IN_TO", seat |-> hero, to |-> most]
        [] OTHER -> [kind |-> IF hand.highest = 0 THEN "BET_TO" ELSE "RAISE_TO",
                     seat |-> hero, to |-> action.to]

Playable(action) == Accepts(hand, EventFor(action))

AdvisedActions == [kind : {"FOLD", "CHECK", "CALL"}, to : {NoAmount}]
                    \cup [kind : {"BET", "RAISE"}, to : Amounts]

\* What passes the last check can be played: the least raise is guessed from
\* the chips Hero has to call.
CheckedAmountsArePlayable ==
  \A action \in AdvisedActions :
    ValidateStrategyAmount(Last(frames), Buttons(Last(frames)), action) => Playable(action)

\* Hero may put in for all that the other has, whatever that is.
CoversVillain(action) ==
  \E v \in Live(hand) \ {hero} : action.to = ReplayedTarget(v)

PolicyIsPlayable(mode) ==
  hand.street = 1 =>
    \A action \in PreflopPolicy(PreflopState(frames), mode) : Playable(action)

\* The hand the solver plays: two players, the same stack behind each.
TwoHanded(root, pair, effective) ==
  [root EXCEPT !.remaining = [s \in Seats |-> effective], !.streetPaid = Zero,
               !.folded = Seats \ ToSet(pair), !.allIn = {}, !.highest = 0,
               !.lastFullRaise = BigBlind, !.acted = {}, !.pending = pair,
               !.closed = FALSE, !.terminal = FALSE]

SolverEvent(h, step) ==
  CASE step.kind = "BET" -> [kind |-> "BET_TO", seat |-> Actor(h), to |-> step.to]
    [] step.kind = "RAISE" -> [kind |-> "RAISE_TO", seat |-> Actor(h), to |-> step.to]
    [] step.kind = "ALL-IN" -> [kind |-> "ALL_IN_TO", seat |-> Actor(h), to |-> step.to]
    [] step.kind = "CALL" -> [kind |-> "CALL", seat |-> Actor(h), to |-> CallTarget(h, Actor(h))]
    [] OTHER -> [kind |-> step.kind, seat |-> Actor(h), to |-> NoAmount]

Broken == [street |-> 0]

PlayedOn(h, step) ==
  CASE h # Broken /\ step.kind = "DEAL" /\ AcceptsDeal(h) -> AppliedDeal(h, Button)
    [] h # Broken /\ step.kind # "DEAL" /\ Accepts(h, SolverEvent(h, step)) ->
         Applied(h, SolverEvent(h, step))
    [] OTHER -> Broken

Played(root, steps) ==
  LET play[n \in 0..Len(steps)] == IF n = 0 THEN root ELSE PlayedOn(play[n - 1], steps[n])
  IN  play[Len(steps)]

\* The solver's hand is at Hero's decision, with Hero's chips at stake.
ReachesDecision(root, spec, pair, paid) ==
  LET end == Played(TwoHanded(root, pair, spec.effective), spec.path)
  IN  /\ end # Broken
      /\ Actor(end) = hero
      /\ (spec.actor = "OOP") = (hero = pair[1])
      /\ Facing(end, hero) = spec.facing
      /\ spec.pot + Total(end.totalPaid) - Total(root.totalPaid) = paid

\* What the engine is asked in this state, from which root, between whom.
Questions(mode) ==
  {q \in {[spec |-> StreetSpec(state, mode), pair |-> OrderedAfter(0, {hero, state.villain}),
           root |-> [hand EXCEPT !.totalPaid = [s \in Seats |-> @[s] - hand.streetPaid[s]]]] :
             state \in {StateFor(mode)}}
          \cup {[spec |-> HandSpec(state, mode), pair |-> FlopPair, root |-> flop] :
                  state \in {LiveState(frames)}} :
     q.spec.asked}

ModeledActionsArePlayable(mode) ==
  hand.street > 1 =>
    \A q \in Questions(mode) :
      \A action \in q.spec.modeled : Playable(action) \/ CoversVillain(action)

\* The line the hand is said to be at, before and after the flop.
Found(mode) ==
  Resolve(IF hand.street = 1 THEN PreflopState(frames) ELSE LiveState(frames), mode)

FoundLineIsPlayed(found) ==
  found # NoLine =>
    \/ found.trace = line
    \/ ~\E other \in Lines : other.stack = found.stack /\ other.trace = line

-----------------------------------------------------------------------------
(* A line that was played and is in the tree is the line found, before and *)
(* after the flop and in both modes of matching; the search may refuse it, *)
(* but never takes another for it.                                         *)
ResolvedLineIsPlayed ==
  Asked => \A mode \in {"exact", "abstract"} : FoundLineIsPlayed(Found(mode))

(* What the engine is asked about is the hand on the table: the actions    *)
(* of the request, played from its root between two players with its       *)
(* effective stack, are legal and lead to Hero's decision, with the bet    *)
(* Hero faces and the pot that is there.                                   *)
SpotIsWhatHappened ==
  Asked /\ hand.street > 1 =>
    \A mode \in Modes : \A q \in Questions(mode) :
      ReachesDecision(q.root, q.spec, q.pair, Total(hand.totalPaid))

(* Every action of a solved strategy, and every advised amount that passes *)
(* the last check, is one the table accepts, or puts in all that the other *)
(* player has.                                                             *)
AdviceIsPlayable ==
  Asked =>
    /\ \A mode \in {"exact", "abstract"} : PolicyIsPlayable(mode)
    /\ \A mode \in Modes : ModeledActionsArePlayable(mode)
    /\ CheckedAmountsArePlayable
=============================================================================
