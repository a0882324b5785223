----------------------------- MODULE SolverSpot -----------------------------
(* What the assistant reconstructs from the frames it captured of a hand:  *)
(* the preflop wagers (preflop_observation.py) and the state of the street *)
(* it is asked about (poker_assistant.py, build_live_gto_state).           *)
(*                                                                         *)
(* The environment is one hand, played by the rules of HandReplay with few *)
(* sizes of bets.  A frame is captured only when Hero is to act, and not   *)
(* every time; the labels of the positions may be misread, and what the    *)
(* players were last seen to do may not be legible.  The public transcript *)
(* of the hand is kept beside the frames: the history recorder has either  *)
(* all of it or nothing.                                                   *)
EXTENDS PreflopBlueprint

CONSTANTS
  Starts,        \* starting stacks of the table
  Heroes,        \* seats Hero may have
  OffTree,       \* a raise before the flop that the blueprint has not
  MaxFrames,     \* frames the manual history holds
  MaxStreet      \* last street played

ASSUME SpotAssumption ==
  /\ Starts \subseteq [Seats -> Nat \ {0}]
  /\ Heroes \subseteq Seats /\ OffTree \in Nat

VARIABLES
  hero,
  line,          \* the preflop actions: who, and what they had in after it
  flop,          \* the hand when the flop was dealt, or NoHand
  path,          \* the events since then
  frames

spotVars == <<start, hand, hero, line, flop, path, frames>>

NoHand == [street |-> 0]

-----------------------------------------------------------------------------
(* One frame.                                                              *)

Street(f) == f.hand.street
Stack(f, s) == f.hand.remaining[s]
Bet(f, s) == f.hand.streetPaid[s]
Folded(f) == f.hand.folded
\* A seat without chips that did not fold is all-in.
AllInSeats(f) == f.hand.allIn \ f.hand.folded
ActiveSeats(f) == Eligible(f.hand)
\* A frame whose positions disagree with the seats has no layout.
HasLayout(f) == f.clear
LiveIn(f) == Live(f.hand)
TotalPot(f) == Total(f.hand.totalPaid)

\* The call button shows no more than Hero has.
CallAmount(f) == Lesser(Facing(f.hand, hero), f.hand.remaining[hero])

\* One button raises or bets; it reads all-in when no smaller wager is left.
Buttons(f) ==
  LET legal == LegalActions(f.hand)
      sized == {"BET_TO", "RAISE_TO"} \cap legal
      more == MaxTarget(f.hand, hero) > f.hand.highest
  IN  (legal \cap {"FOLD", "CHECK", "CALL"})
        \cup {b \in {"BET"} : "BET_TO" \in sized}
        \cup {b \in {"RAISE"} : "RAISE_TO" \in sized}
        \cup {b \in {"ALL-IN"} : sized = {} /\ more /\ "ALL_IN_TO" \in legal}

\* The last thing each seat was seen to do on this street.
Silent == [s \in Seats |-> ""]
VisibleAction(event) ==
  CASE event.kind \in {"CHECK", "CALL", "FOLD"} -> event.kind
    [] event.kind = "BET_TO" -> "BET"
    [] event.kind = "RAISE_TO" -> "RAISE"
    [] event.kind = "ALL_IN_TO" -> "ALL-IN"
Said ==
  FoldLeft(LAMBDA said, event : IF event.kind = "DEAL" THEN Silent
                                ELSE [said EXCEPT ![event.seat] = VisibleAction(event)],
           Silent, path)

RelativePositionFromDealer(seat, villains) ==
  CASE villains = {} -> "UNKNOWN"
    [] villains # {} /\ \A v \in villains : seat < v -> "OOP"
    [] villains # {} /\ \A v \in villains : seat > v -> "IP"
    [] OTHER -> "SANDWICHED"

\* Postflop order: the seat after the dealer first, the dealer last.
RelativePosition(seat, villains) ==
  LET distance(s) == IF s = 0 THEN Players ELSE s
  IN  CASE villains = {} -> "UNKNOWN"
        [] villains # {} /\ \A v \in villains : distance(seat) < distance(v) -> "OOP"
        [] villains # {} /\ \A v \in villains : distance(seat) > distance(v) -> "IP"
        [] OTHER -> "SANDWICHED"

-----------------------------------------------------------------------------
(* preflop_observation.py: what everybody put in before the flop.          *)

NoObservation == [known |-> FALSE]

Observed(f, paid, folded, allIn, terminal) ==
  [known |-> TRUE, actor |-> IF terminal THEN NoSeat ELSE hero, paid |-> paid,
   folded |-> folded, allIn |-> allIn, terminal |-> terminal, positionOnly |-> FALSE,
   initial |-> [s \in Seats |-> Stack(f, s) + Bet(f, s)]]

CurrentDecision(f) ==
  IF ~HasLayout(f) \/ Actor(f.hand) # hero THEN NoObservation
  ELSE Observed(f, f.hand.streetPaid, Folded(f), AllInSeats(f), FALSE)

LatestValidPreflop(seen) ==
  LET usable == {i \in DOMAIN seen : Street(seen[i]) = 1 /\ HasLayout(seen[i])}
  IN  IF usable = {} THEN 0 ELSE Max(usable)

\* The first frame after it that is not of the preflop round.
FirstFlopAfter(seen, index) ==
  LET later == {i \in DOMAIN seen : i > index /\ Street(seen[i]) # 1}
  IN  IF later = {} \/ Street(seen[Min(later)]) # 2 THEN 0 ELSE Min(later)

\* A bet on the flop is no money of the preflop round.
Contribution(before, after, s) ==
  Stack(before, s) + Bet(before, s) - (Stack(after, s) + Bet(after, s))

FoldedPreflopByStatus(after, paid) == Folded(after)

\* Who matched the last wager and folded saw the flop.
FoldedPreflop(after, paid) ==
  {s \in Folded(after) : 100 * paid[s] + 5 * BigBlind < 100 * Max(Range(paid))}

TerminalFromHistory(seen) ==
  LET pre == LatestValidPreflop(seen)
      post == IF pre = 0 THEN 0 ELSE FirstFlopAfter(seen, pre)
      before == seen[pre]
      after == seen[post]
      paid == [s \in Seats |-> Contribution(before, after, s)]
      behind(s) == 100 * paid[s] + 5 * BigBlind < 100 * Max(Range(paid))
      refused == \/ \E s \in Seats : paid[s] < 0
                 \/ \E s \in ActiveSeats(after) : behind(s)
      jammed == {s \in AllInSeats(after) : Stack(after, s) + Bet(after, s) = 0}
  IN  IF post = 0 THEN NoObservation
      ELSE IF ~HasLayout(after) \/ refused THEN NoObservation
      ELSE Observed(before, paid, FoldedPreflop(after, paid), jammed, TRUE)

-----------------------------------------------------------------------------
(* Same-street history.                                                    *)

Signature(f) ==
  <<TotalPot(f), CallAmount(f), Folded(f), f.hand.remaining, f.hand.streetPaid>>

\* Every earlier frame of this street shows the very same table.
StreetRootConfirmed(seen) ==
  \A i \in 1 .. Len(seen) - 1 :
    Street(seen[i]) = Street(Last(seen)) => Signature(seen[i]) = Signature(Last(seen))

\* An earlier frame of Hero's own untouched decision, from which only the
\* chips bet since are missing.
IsSameStreetRoot(root, f, villain) ==
  /\ Street(root) = Street(f)
  /\ LiveIn(root) \ {hero} = {villain}
  /\ RelativePosition(hero, {villain}) = "OOP"
  /\ "CHECK" \in Buttons(root) /\ {"BET", "ALL-IN"} \cap Buttons(root) # {}
  /\ CallAmount(root) = 0
  /\ \A s \in Seats : Bet(root, s) = 0
  /\ root.said[villain] = ""
  /\ TotalPot(root) = TotalPot(f) - Total(f.hand.streetPaid)
  /\ \A s \in {hero, villain} : Stack(root, s) = Stack(f, s) + Bet(f, s)

HasSameStreetRoot(seen, villain) ==
  \E i \in 1 .. Len(seen) - 1 : IsSameStreetRoot(seen[i], Last(seen), villain)

-----------------------------------------------------------------------------
(* build_live_gto_state(): the street root, the actions since, or why not. *)

Villain(f) ==
  LET nonfolded == LiveIn(f) \ {hero}
      active == ActiveSeats(f) \ {hero}
  IN  IF Cardinality(active) = 1 THEN CHOOSE v \in active : TRUE
      ELSE IF Cardinality(nonfolded) = 1 THEN CHOOSE v \in nonfolded : TRUE
      ELSE NoSeat

OtherBets(f, villain) == \E s \in Seats \ {hero, villain} : Bet(f, s) > 0

NothingBet(f, villain) == CallAmount(f) = 0 /\ Bet(f, hero) = 0 /\ Bet(f, villain) = 0

\* A bet Hero answers with nothing in front of him is the first.
FirstBet(f, villain) ==
  /\ CallAmount(f) > 0
  /\ Bet(f, hero) = 0
  /\ Bet(f, villain) > 0
  /\ CallAmount(f) = Bet(f, villain)

Unmapped == <<"unmapped">>

HistoryAtRoot(seen, villain, position) ==
  LET f == Last(seen)
  IN  CASE position = "OOP" /\ StreetRootConfirmed(seen) /\ f.said[villain] = "" -> <<>>
        [] position = "IP" /\ StreetRootConfirmed(seen) /\ f.said[villain] \in {"", "CHECK"} ->
             <<"CHECK">>
        [] OTHER -> Unmapped

HistoryFacingBet(seen, villain, position) ==
  LET f == Last(seen)
  IN  CASE f.said[villain] \notin {"", "BET"} -> Unmapped
        [] f.said[villain] \in {"", "BET"} /\ position = "IP" /\ StreetRootConfirmed(seen) ->
             <<"BET">>
        [] /\ f.said[villain] \in {"", "BET"} /\ position = "OOP"
           /\ HasSameStreetRoot(seen, villain) -> <<"CHECK", "BET">>
        [] OTHER -> Unmapped

ActionHistory(seen, villain, position) ==
  LET f == Last(seen)
  IN  CASE villain = NoSeat \/ OtherBets(f, villain) -> Unmapped
        [] villain # NoSeat /\ ~OtherBets(f, villain) /\ NothingBet(f, villain) ->
             HistoryAtRoot(seen, villain, position)
        [] villain # NoSeat /\ ~OtherBets(f, villain) /\ FirstBet(f, villain) ->
             HistoryFacingBet(seen, villain, position)
        [] OTHER -> Unmapped

LiveState(seen) ==
  LET f == Last(seen)
      villain == Villain(f)
      position == RelativePosition(hero, LiveIn(f) \ {hero})
      history == ActionHistory(seen, villain, position)
      mine(s) == IF s = NoSeat THEN 0 ELSE Stack(f, s) + Bet(f, s)
  IN  [street |-> Street(f), villain |-> villain, oop |-> position = "OOP",
       villains |-> Cardinality(LiveIn(f) \ {hero}),
       pot |-> TotalPot(f) - Total(f.hand.streetPaid),
       heroStack |-> mine(hero), villainStack |-> mine(villain),
       heroBet |-> Bet(f, hero),
       villainBet |-> IF villain = NoSeat THEN 0 ELSE Bet(f, villain),
       call |-> CallAmount(f), buttons |-> Buttons(f),
       rootConfirmed |-> StreetRootConfirmed(seen),
       history |-> history, mapped |-> history # Unmapped,
       observedBet |-> IF history # Unmapped /\ CallAmount(f) > 0
                       THEN Bet(f, villain) ELSE 0,
       observation |-> TerminalFromHistory(seen)]

\* Before the flop nothing is asked of the street.
PreflopState(seen) ==
  LET f == Last(seen)
  IN  [street |-> 1, heroStack |-> Stack(f, hero), heroBet |-> Bet(f, hero),
       call |-> CallAmount(f), buttons |-> Buttons(f),
       observation |-> CurrentDecision(f)]

\* The charts need only the seats: the last preflop frame names them.
PositionContinuity(seen, state) ==
  LET pre == {i \in DOMAIN seen : Street(seen[i]) = 1}
      before == seen[Max(pre)]
      usable == /\ ~state.observation.known /\ pre # {} /\ state.villain # NoSeat
                /\ HasLayout(before) /\ HasLayout(Last(seen))
                /\ {hero, state.villain} \cap Folded(before) = {}
  IN  IF ~usable THEN state
      ELSE [state EXCEPT !.observation =
              [Observed(before, before.hand.streetPaid, Folded(before), AllInSeats(before), FALSE)
                 EXCEPT !.actor = NoSeat, !.positionOnly = TRUE]]

-----------------------------------------------------------------------------
(* The hand, and the frames captured of it.                                *)

SpotInit ==
  /\ start \in Starts
  /\ hand = Dealt(Button, start, 0)
  /\ hero \in Heroes
  /\ line = <<>> /\ flop = NoHand /\ path = <<>> /\ frames = <<>>

Asked == frames # <<>> /\ Last(frames).hand = hand

\* What may be misread, of all that is not checked against itself.
Readings == {"full", "no actions", "no positions"}

\* Bound: a decision is captured once at most.
TakeFrame(reading) ==
  /\ Actor(hand) = hero /\ ~Asked
  /\ Len(frames) < MaxFrames
  /\ frames' = Append(frames, [hand |-> hand,
                               said |-> IF reading = "no actions" THEN Silent ELSE Said,
                               clear |-> reading # "no positions"])
  /\ UNCHANGED <<start, hand, hero, line, flop, path>>

\* The sizes that are played: all-in, half the pot, the blueprint's raise.
Targets(h, seat) ==
  LET facing == Facing(h, seat)
      pot == Total(h.totalPaid)
  IN  IF h.street = 1
      THEN {MaxTarget(h, seat), OffTree,
            h.highest + ((pot + facing) * RaisePct) \div 100}
      ELSE {MaxTarget(h, seat), pot \div 2}

Events(h) ==
  LET seat == Actor(h)
      sized == IF h.street > 2 THEN {"BET_TO"} ELSE {"BET_TO", "RAISE_TO", "ALL_IN_TO"}
  IN  {e \in [kind : {"FOLD", "CHECK"}, seat : {seat}, to : {NoAmount}]
             \cup [kind : {"CALL"}, seat : {seat}, to : {CallTarget(h, seat)}]
             \cup [kind : sized, seat : {seat}, to : Targets(h, seat)] :
         Accepts(h, e) /\ (e.kind \in {"BET_TO", "RAISE_TO"} => e.to < MaxTarget(h, seat))}

PlayEvent(event) ==
  LET after == Applied(hand, event)
  IN  /\ hand' = after
      /\ line' = IF hand.street = 1
                 THEN Append(line, [actor |-> event.seat, paid |-> after.streetPaid[event.seat]])
                 ELSE line
      /\ path' = IF hand.street > 1 THEN Append(path, event) ELSE path
      /\ UNCHANGED <<start, hero, flop, frames>>

DealNextStreet ==
  LET dealt == AppliedDeal(hand, Button)
  IN  /\ AcceptsDeal(hand) /\ hand.street < MaxStreet
      /\ hand' = dealt
      /\ flop' = IF hand.street = 1 THEN dealt ELSE flop
      /\ path' = IF hand.street = 1 THEN path ELSE Append(path, [kind |-> "DEAL"])
      /\ UNCHANGED <<start, hero, line, frames>>

SpotNext ==
  \/ \E reading \in Readings : TakeFrame(reading)
  \/ /\ Actor(hand) # NoSeat /\ hero \notin hand.folded /\ Len(frames) < MaxFrames
     /\ \E event \in Events(hand) : PlayEvent(event)
  \/ DealNextStreet

SpotSpec == SpotInit /\ [][SpotNext]_spotVars

-----------------------------------------------------------------------------
(* The wagers, folds and all-ins of the preflop round that the frames give *)
(* are those of the hand, whichever frames there were, and whatever was    *)
(* bet or folded since: the solver's ranges start from the right node.     *)
HandoffIsTheHand ==
  LET seen == TerminalFromHistory(frames)
  IN  Asked /\ hand.street > 1 /\ seen.known =>
        /\ seen.paid = flop.totalPaid
        /\ seen.folded = flop.folded
        /\ seen.allIn = flop.allIn
        /\ seen.initial = start
=============================================================================
