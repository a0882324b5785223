----------------------------- MODULE HandReplay -----------------------------
(***************************************************************************)
(* The betting rules of one hand (gto_hand_history.py, class _Replay): the *)
(* engine that replays a public transcript from the forced bets to the     *)
(* current decision and refuses every illegal event.                       *)
(*                                                                         *)
(* Amounts are whole chips.  Seats are numbered by their place in          *)
(* `ordered_seats'; board cards are not modelled, only the streets.        *)
(***************************************************************************)
EXTENDS Integers, FiniteSets, Sequences, FiniteSetsExt, SequencesExt, Functions

CONSTANTS
  Players,       \* occupied seats
  SmallBlind, BigBlind,
  Stacks,        \* stacks a seat may start with
  Antes          \* antes a table may take

ASSUME ReplayAssumption ==
  /\ Players \in Nat /\ Players >= 2
  /\ SmallBlind \in Nat \ {0} /\ BigBlind \in Nat /\ SmallBlind <= BigBlind
  /\ IsFiniteSet(Stacks) /\ Stacks # {} /\ Stacks \subseteq Nat \ {0}
  /\ Antes \subseteq Nat

Seats == 0 .. Players - 1
Wagers == {"CALL", "BET_TO", "RAISE_TO", "ALL_IN_TO"}
NoSeat == -1
NoAmount == -1

Lesser(a, b) == IF a < b THEN a ELSE b
Zero == [s \in Seats |-> 0]
Total(amounts) ==
  LET sum[n \in 0..Players] == IF n = 0 THEN 0 ELSE sum[n - 1] + amounts[n - 1]
  IN  sum[Players]

-----------------------------------------------------------------------------
(* Who is in the hand, and in which order they act.                        *)

Live(h) == Seats \ h.folded
Eligible(h) == Live(h) \ h.allIn

NextSeat(seat) == (seat + 1) % Players

\* The seats of a list that are in a set, in the list's order.
Kept(seats, wanted) ==
  LET kept[n \in 0..Len(seats)] ==
        IF n = 0 THEN <<>>
        ELSE IF seats[n] \in wanted THEN Append(kept[n - 1], seats[n]) ELSE kept[n - 1]
  IN  kept[Len(seats)]

\* ... clockwise from the seat after `seat', that seat itself last.
OrderedAfter(seat, candidates) ==
  Kept([n \in 1..Players |-> (seat + n) % Players], candidates)

SmallBlindSeat(button) == IF Players = 2 THEN button ELSE NextSeat(button)
BigBlindSeat(button) == NextSeat(SmallBlindSeat(button))

NormalizeRoundEarly(h) ==
  LET eligible == Eligible(h)
      pending == Kept(h.pending, eligible)
  IN  IF Cardinality(Live(h)) <= 1
      THEN [h EXCEPT !.pending = <<>>, !.closed = TRUE, !.terminal = TRUE]
      ELSE IF Cardinality(eligible) <= 1
      THEN [h EXCEPT !.pending = <<>>, !.closed = TRUE]
      ELSE [h EXCEPT !.pending = pending, !.closed = @ \/ pending = <<>>]

NormalizeRound(h) ==
  LET eligible == Eligible(h)
      pending == Kept(h.pending, eligible)
      settled == \/ eligible = {}
                 \/ \E only \in eligible :
                      eligible = {only} /\ h.streetPaid[only] >= h.highest
  IN  IF Cardinality(Live(h)) <= 1
      THEN [h EXCEPT !.pending = <<>>, !.closed = TRUE, !.terminal = TRUE]
      ELSE IF settled
      THEN [h EXCEPT !.pending = <<>>, !.closed = TRUE]
      ELSE [h EXCEPT !.pending = pending, !.closed = @ \/ pending = <<>>]

Actor(h) == IF h.closed \/ h.pending = <<>> THEN NoSeat ELSE Head(h.pending)

-----------------------------------------------------------------------------
(* Paying.                                                                 *)

\* A forced bet takes what the stack has.
CommitDelta(h, seat, amount) ==
  LET paid == Lesser(amount, h.remaining[seat])
  IN  [h EXCEPT !.remaining[seat] = @ - paid,
                !.streetPaid[seat] = @ + paid,
                !.totalPaid[seat] = @ + paid,
                !.allIn = IF h.remaining[seat] = paid THEN @ \cup {seat} ELSE @]

\* Every seat's ante is dead money, no part of a bet.
Anted(h, ante) ==
  [h EXCEPT !.remaining = [s \in Seats |-> @[s] - Lesser(ante, @[s])],
            !.totalPaid = [s \in Seats |-> @[s] + Lesser(ante, h.remaining[s])],
            !.allIn = @ \cup {s \in Seats : h.remaining[s] <= ante}]

PayTo(h, seat, target) ==
  LET delta == target - h.streetPaid[seat]
  IN  [h EXCEPT !.remaining[seat] = @ - delta,
                !.streetPaid[seat] = target,
                !.totalPaid[seat] = @ + delta,
                !.allIn = IF h.remaining[seat] = delta THEN @ \cup {seat} ELSE @]

PostForcedBets(h, button, ante) ==
  LET small == CommitDelta(Anted(h, ante), SmallBlindSeat(button), SmallBlind)
      big == CommitDelta(small, BigBlindSeat(button), BigBlind)
  IN  [big EXCEPT !.highest = Max(Range(big.streetPaid))]

\* The hand before any voluntary action.
Dealt(button, start, ante) ==
  LET bare == [street |-> 1, remaining |-> start, streetPaid |-> Zero, totalPaid |-> Zero,
               folded |-> {}, allIn |-> {}, highest |-> 0, lastFullRaise |-> BigBlind,
               acted |-> {}, pending |-> <<>>, closed |-> FALSE, terminal |-> FALSE]
      posted == PostForcedBets(bare, button, ante)
  IN  NormalizeRound(
        [posted EXCEPT !.pending = OrderedAfter(BigBlindSeat(button), Eligible(posted))])

-----------------------------------------------------------------------------
(* Actions of the seat to act.                                             *)

Facing(h, seat) == h.highest - h.streetPaid[seat]
MaxTarget(h, seat) == h.streetPaid[seat] + h.remaining[seat]
CallTarget(h, seat) == Lesser(h.highest, MaxTarget(h, seat))

PassiveComplete(h, seat) ==
  NormalizeRound([h EXCEPT !.acted = @ \cup {seat}, !.pending = Tail(@)])

FullAggression(h, seat, raiseSize) ==
  NormalizeRound([h EXCEPT !.lastFullRaise = raiseSize, !.acted = {seat},
                           !.pending = OrderedAfter(seat, Eligible(h) \ {seat})])

\* Only those who still owe chips answer a short all-in.
ShortAllInAggression(h, seat) ==
  LET owing == {s \in Eligible(h) \ {seat} : h.streetPaid[s] < h.highest}
  IN  NormalizeRound([h EXCEPT !.acted = @ \cup {seat},
                               !.pending = OrderedAfter(seat, owing)])

MayRaise(h, seat) == seat \notin h.acted

Accepts(h, e) ==
  LET seat == Actor(h)
  IN  /\ ~h.terminal /\ ~h.closed
      /\ e.seat = seat
      /\ \/ e.kind = "FOLD" /\ e.to = NoAmount /\ Facing(h, seat) > 0
         \/ e.kind = "CHECK" /\ e.to = NoAmount /\ Facing(h, seat) = 0
         \/ e.kind = "CALL" /\ Facing(h, seat) > 0 /\ e.to = CallTarget(h, seat)
         \/ /\ e.kind = "BET_TO" /\ h.highest = 0
            /\ e.to > h.streetPaid[seat] /\ e.to <= MaxTarget(h, seat)
            /\ e.to - h.streetPaid[seat] >= BigBlind
         \/ /\ e.kind = "RAISE_TO" /\ h.highest > 0 /\ MayRaise(h, seat)
            /\ e.to > h.highest /\ e.to <= MaxTarget(h, seat)
            /\ e.to - h.highest >= h.lastFullRaise
         \/ /\ e.kind = "ALL_IN_TO"
            /\ e.to = MaxTarget(h, seat) /\ e.to > h.streetPaid[seat]
            /\ e.to > h.highest => MayRaise(h, seat)

\* A wager above the highest reopens the betting if it is a full raise.
Raised(h, e) ==
  LET paid == [PayTo(h, e.seat, e.to) EXCEPT !.highest = e.to]
      raiseSize == e.to - h.highest
  IN  IF e.kind # "ALL_IN_TO" \/ raiseSize >= h.lastFullRaise
      THEN FullAggression(paid, e.seat, raiseSize)
      ELSE ShortAllInAggression(paid, e.seat)

\* A hand is over when its river is bet out.
Ended(h) == [h EXCEPT !.terminal = @ \/ (h.street = 4 /\ h.closed)]

Applied(h, e) ==
  Ended(CASE e.kind = "FOLD" -> PassiveComplete([h EXCEPT !.folded = @ \cup {e.seat}], e.seat)
          [] e.kind = "CHECK" -> PassiveComplete(h, e.seat)
          [] e.kind \in Wagers /\ e.to <= h.highest ->
               PassiveComplete(PayTo(h, e.seat, e.to), e.seat)
          [] e.kind \in Wagers /\ e.to > h.highest -> Raised(h, e))

-----------------------------------------------------------------------------
(* The board.                                                              *)

AcceptsDeal(h) == h.closed /\ ~h.terminal /\ h.street < 4

AppliedDeal(h, button) ==
  LET next == [h EXCEPT !.street = @ + 1, !.streetPaid = Zero, !.highest = 0,
                        !.lastFullRaise = BigBlind, !.acted = {}, !.closed = FALSE]
  IN  Ended(NormalizeRound([next EXCEPT !.pending = OrderedAfter(button, Eligible(next))]))

-----------------------------------------------------------------------------
(* What a replayed state tells a caller: freeze() and _legal_actions().    *)

LegalActionsIgnoringRights(h) ==
  LET seat == Actor(h)
      room == MaxTarget(h, seat) - h.highest
  IN  IF seat = NoSeat
      THEN {}
      ELSE (IF Facing(h, seat) > 0 THEN {"FOLD", "CALL"} ELSE {"CHECK"})
             \cup {k \in {"BET_TO"} : h.highest = 0 /\ room >= BigBlind}
             \cup {k \in {"RAISE_TO"} : h.highest > 0 /\ room >= h.lastFullRaise}
             \cup {"ALL_IN_TO"}

LegalActions(h) ==
  LET seat == Actor(h)
      room == MaxTarget(h, seat) - h.highest
      canAggress == MayRaise(h, seat) /\ room > 0
      shortCall == Facing(h, seat) > 0 /\ h.remaining[seat] <= Facing(h, seat)
  IN  IF seat = NoSeat
      THEN {}
      ELSE (IF Facing(h, seat) > 0 THEN {"FOLD", "CALL"} ELSE {"CHECK"})
             \cup {k \in {"BET_TO"} : canAggress /\ h.highest = 0 /\ room >= BigBlind}
             \cup {k \in {"RAISE_TO"} : canAggress /\ h.highest > 0 /\ room >= h.lastFullRaise}
             \cup {k \in {"ALL_IN_TO"} : canAggress \/ shortCall}

MinimumRaiseTo(h) ==
  LET seat == Actor(h)
      candidate == IF h.highest = 0 THEN BigBlind ELSE h.highest + h.lastFullRaise
  IN  IF seat # NoSeat /\ MayRaise(h, seat) /\ MaxTarget(h, seat) > h.highest
           /\ MaxTarget(h, seat) >= candidate
      THEN candidate ELSE NoAmount

-----------------------------------------------------------------------------
(* A hand that is replayed event by event; HandEventRecorder has its       *)
(* behaviours.  The button has seat 0: turning the table changes nothing.  *)
VARIABLES
  start,     \* starting stacks
  hand

Button == 0

Act(kind, to) ==
  LET event == [kind |-> kind, seat |-> Actor(hand), to |-> to]
  IN  /\ Accepts(hand, event)
      /\ hand' = Applied(hand, event)
      /\ UNCHANGED start

Deal ==
  /\ AcceptsDeal(hand)
  /\ hand' = AppliedDeal(hand, Button)
  /\ UNCHANGED start

Amounts == 0 .. Max(Stacks)

-----------------------------------------------------------------------------
(* Every chip is in its owner's stack or in the pot, and the sets and      *)
(* lists of seats are what their names say.                                *)
TypeOK ==
  /\ hand.street \in 1..4
  /\ \A s \in Seats : hand.remaining[s] >= 0 /\ hand.streetPaid[s] \in 0..hand.totalPaid[s]
  /\ \A s \in Seats : hand.remaining[s] + hand.totalPaid[s] = start[s]
  /\ hand.allIn = {s \in Seats : hand.remaining[s] = 0}
  /\ hand.highest = Max(Range(hand.streetPaid))
  /\ IsInjective(hand.pending) /\ ToSet(hand.pending) \subseteq Eligible(hand)
  /\ hand.folded \cup hand.acted \subseteq Seats
  /\ hand.terminal => hand.closed

(* A betting round never closes on somebody who still owes chips or was    *)
(* never asked: when it closes between two players or more, everyone with  *)
(* chips has matched the highest bet, and has acted since the last full    *)
(* raise unless nobody is left to bet against.                             *)
RoundClosesMatched ==
  hand.closed /\ Cardinality(Live(hand)) > 1 =>
    /\ \A s \in Eligible(hand) : hand.streetPaid[s] = hand.highest
    /\ Cardinality(Eligible(hand)) > 1 => Eligible(hand) \subseteq hand.acted

(* The actions a replayed state offers are the ones the engine accepts,    *)
(* and its minimum raise is the least bet or raise it accepts: advice for  *)
(* an offered action can always be played.                                 *)
LegalActionsExact ==
  LET accepted(kind) ==
        {to \in Amounts \cup {NoAmount} :
           Accepts(hand, [kind |-> kind, seat |-> Actor(hand), to |-> to])}
      raises == accepted("BET_TO") \cup accepted("RAISE_TO")
  IN  /\ LegalActions(hand) = {kind \in {"FOLD", "CHECK"} \cup Wagers : accepted(kind) # {}}
      /\ MinimumRaiseTo(hand) = IF raises = {} THEN NoAmount ELSE Min(raises)
      /\ hand.closed \/ LegalActions(hand) # {}
=============================================================================
