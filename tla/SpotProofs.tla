----------------------------- MODULE SpotProofs -----------------------------
(***************************************************************************)
(* What the solver is asked about a hand, and what its answers have to do  *)
(* with that hand, for any number of seats, blinds, antes and finite set   *)
(* of stacks, in five parts:                                               *)
(*   - the spot of SolverSpot: what the frames of a hand hand over;        *)
(*   - the line of the blueprint: the history of the hand, played by the   *)
(*     rules of PreflopBlueprint, and the one that its search finds;       *)
(*   - the advice of LiveRouter: the actions that the solver is asked      *)
(*     about;                                                              *)
(*   - its policy before the flop;                                         *)
(*   - the hand that it asks the solver about, which is the hand.          *)
(***************************************************************************)
EXTENDS HandProofs, LiveRouter

-----------------------------------------------------------------------------
(* First part: the spot.                                                    *)
-----------------------------------------------------------------------------
(* What the frames of a hand tell the solver.                              *)

LEMMA TotalType ==
  ASSUME NEW amounts \in [Seats -> Nat]
  PROVE  Total(amounts) \in Nat
<1>0. Players \in Nat /\ Seats = 0 .. Players - 1
  BY ReplayAssumption DEF Seats
<1>1. PICK f : /\ Total(amounts) = f[Players] /\ f[0] = 0
               /\ \A n \in 1..Players : f[n] = f[n - 1] + amounts[n - 1]
  BY TotalFacts
<1> DEFINE B == {k \in 0..Players : f[k] \notin Nat}
<1>2. SUFFICES ASSUME B # {} PROVE FALSE
  BY <1>0, <1>1
<1>3. PICK k \in B : \A l \in B : k <= l
  <2> HIDE DEF B
  <2>1. B \subseteq Nat
    BY DEF B
  <2>2. QED
    BY <1>2, <2>1, LeastNumber
<1>4. k \in 0..Players /\ f[k] \notin Nat /\ k # 0
  BY <1>1
<1>5. k - 1 \in 0..Players /\ ~(k <= k - 1) /\ k \in 1..Players /\ k - 1 \in Seats
  BY <1>0, <1>4
<1>6. f[k - 1] \in Nat
  BY <1>3, <1>5
<1>7. f[k] = f[k - 1] + amounts[k - 1] /\ amounts[k - 1] \in Nat
  BY <1>1, <1>5
<1>8. QED
  BY <1>4, <1>6, <1>7

-----------------------------------------------------------------------------
(* The least raise.                                                        *)

LEMMA KeepsBets ==
  ASSUME NEW x \in HandType
  PROVE  LET g == Ended(NormalizeRound(x))
         IN  g.acted = x.acted /\ g.lastFullRaise = x.lastFullRaise /\ g.highest = x.highest
<1>1. PICK kept : kept = Kept(x.pending, Eligible(x))
  OBVIOUS
<1>2. PICK n : n = NormalizeRound(x)
  OBVIOUS
<1>3. \/ n = [x EXCEPT !.pending = <<>>, !.closed = TRUE, !.terminal = TRUE]
      \/ n = [x EXCEPT !.pending = <<>>, !.closed = TRUE]
      \/ n = [x EXCEPT !.pending = kept, !.closed = @ \/ kept = <<>>]
  BY <1>1, <1>2, Zenon DEF NormalizeRound
<1>4. /\ n.acted = x.acted /\ n.lastFullRaise = x.lastFullRaise /\ n.highest = x.highest
      /\ DOMAIN n = DOMAIN x
  BY <1>3 DEF HandType
<1>5. PICK over : over = (n.terminal \/ (n.street = 4 /\ n.closed))
  OBVIOUS
<1>6. Ended(n) = [n EXCEPT !.terminal = over]
  BY <1>5 DEF Ended
<1>7. /\ Ended(n).acted = n.acted /\ Ended(n).lastFullRaise = n.lastFullRaise
      /\ Ended(n).highest = n.highest
  BY <1>4, <1>6 DEF HandType
<1>8. QED
  BY <1>2, <1>4, <1>7

LEMMA PassiveKeepsBets ==
  ASSUME NEW x \in HandType, x.pending # <<>>, IsInjective(x.pending), NEW seat \in Seats
  PROVE  LET g == Ended(PassiveComplete(x, seat))
         IN  /\ g.acted = x.acted \cup {seat}
             /\ g.lastFullRaise = x.lastFullRaise /\ g.highest = x.highest
<1>1. PICK rest : rest = Tail(x.pending)
  OBVIOUS
<1>2. x.pending \in Seq(Seats)
  BY DEF HandType
<1>3. rest \in Seq(Seats)
  BY <1>1, <1>2, TailFacts
<1>4. PICK acted \in SUBSET Seats : acted = x.acted \cup {seat}
  BY DEF HandType
<1>5. PICK y : y = [x EXCEPT !.acted = acted, !.pending = rest]
  OBVIOUS
<1>6. /\ y \in HandType /\ y.acted = acted /\ y.lastFullRaise = x.lastFullRaise
      /\ y.highest = x.highest
  BY <1>3, <1>5 DEF HandType
<1>7. PassiveComplete(x, seat) = NormalizeRound(y)
  BY <1>1, <1>4, <1>5 DEF PassiveComplete
<1>8. QED
  BY <1>4, <1>6, <1>7, KeepsBets

\* Who has acted since the last full raise, and how much that was: only a
\* short all-in raises without starting anew.
Reopens(h, e, g) ==
  \/ /\ g.acted = h.acted \cup {e.seat} /\ g.lastFullRaise = h.lastFullRaise
     /\ g.highest >= h.highest
     /\ e.kind \in Wagers /\ e.to > h.highest =>
          e.kind = "ALL_IN_TO" /\ e.to - h.highest < h.lastFullRaise
  \/ /\ g.acted = {e.seat} /\ g.lastFullRaise = g.highest - h.highest
     /\ g.highest = e.to /\ e.to > h.highest
     /\ e.kind = "ALL_IN_TO" => g.lastFullRaise >= h.lastFullRaise

LEMMA RaisedReopens ==
  ASSUME NEW h \in HandType, NEW e, e.seat \in Seats, e.to \in Nat, e.to > h.highest,
         NEW x \in HandType, x = PayTo(h, e.seat, e.to),
         x.acted = h.acted, x.lastFullRaise = h.lastFullRaise
  PROVE  Reopens(h, e, Ended(Raised(h, e)))
<1>1. PICK seat \in Seats, target \in Nat : seat = e.seat /\ target = e.to
  OBVIOUS
<1>2. h.highest \in Nat /\ h.acted \in SUBSET Seats
  BY DEF HandType
<1>3. PICK size \in Nat \ {0} : size = target - h.highest
  <2>1. target - h.highest \in Nat \ {0}
    BY <1>1, <1>2
  <2>2. QED
    BY <2>1
<1>4. PICK paid : paid = [x EXCEPT !.highest = target]
  OBVIOUS
<1>5. /\ paid \in HandType /\ paid.highest = target /\ paid.acted = h.acted
      /\ paid.lastFullRaise = h.lastFullRaise
  BY <1>4 DEF HandType
<1>6. Eligible(paid) \subseteq Seats
  BY DEF Eligible, Live
<1>7. CASE e.kind # "ALL_IN_TO" \/ size >= h.lastFullRaise
  <2>1. PICK q : q = OrderedAfter(seat, Eligible(paid) \ {seat})
    OBVIOUS
  <2>2. q \in Seq(Seats)
    BY <1>6, <2>1, OrderedAfterFacts
  <2>3. PICK y : y = [paid EXCEPT !.lastFullRaise = size, !.acted = {seat}, !.pending = q]
    OBVIOUS
  <2>4. y \in HandType /\ y.acted = {seat} /\ y.lastFullRaise = size /\ y.highest = target
    BY <1>5, <2>2, <2>3 DEF HandType
  <2>5. FullAggression(paid, seat, size) = NormalizeRound(y)
    BY <2>1, <2>3 DEF FullAggression
  <2>6. Raised(h, e) = FullAggression(paid, seat, size)
    BY <1>1, <1>3, <1>4, <1>7 DEF Raised
  <2>7. PICK g : g = Ended(Raised(h, e))
    OBVIOUS
  <2>8. g.acted = {seat} /\ g.lastFullRaise = size /\ g.highest = target
    BY <2>4, <2>5, <2>6, <2>7, KeepsBets
  <2>9. QED
    BY <1>1, <1>3, <1>7, <2>7, <2>8 DEF Reopens
<1>8. CASE ~(e.kind # "ALL_IN_TO" \/ size >= h.lastFullRaise)
  <2>1. PICK q : q = OrderedAfter(seat, {s \in Eligible(paid) \ {seat} : paid.streetPaid[s] < paid.highest})
    OBVIOUS
  <2>2. q \in Seq(Seats)
    BY <1>6, <2>1, OrderedAfterFacts
  <2>3. PICK acted \in SUBSET Seats : acted = paid.acted \cup {seat}
    BY <1>2, <1>5
  <2>4. PICK y : y = [paid EXCEPT !.acted = acted, !.pending = q]
    OBVIOUS
  <2>5. /\ y \in HandType /\ y.acted = acted /\ y.lastFullRaise = h.lastFullRaise
        /\ y.highest = target
    BY <1>5, <2>2, <2>4 DEF HandType
  <2>6. ShortAllInAggression(paid, seat) = NormalizeRound(y)
    BY <2>1, <2>3, <2>4 DEF ShortAllInAggression
  <2>7. Raised(h, e) = ShortAllInAggression(paid, seat)
    BY <1>1, <1>3, <1>4, <1>8 DEF Raised
  <2>8. PICK g : g = Ended(Raised(h, e))
    OBVIOUS
  <2>9. g.acted = acted /\ g.lastFullRaise = h.lastFullRaise /\ g.highest = target
    BY <2>5, <2>6, <2>7, <2>8, KeepsBets
  <2>10. g.acted = h.acted \cup {e.seat} /\ g.highest >= h.highest
    BY <1>1, <1>2, <1>5, <2>3, <2>9
  <2>11. e.kind = "ALL_IN_TO" /\ e.to - h.highest < h.lastFullRaise
    <3>1. h.lastFullRaise \in Nat
      BY DEF HandType
    <3>2. QED
      BY <1>1, <1>3, <1>8, <3>1
  <2>12. QED
    BY <2>8, <2>9, <2>10, <2>11 DEF Reopens
<1>9. QED
  BY <1>7, <1>8

LEMMA ActReopens ==
  ASSUME NEW stacks, NEW h, HandOK(h, stacks), NEW e, NEW g, Acts(h, e, g)
  PROVE  Reopens(h, e, g)
<1>1. /\ Accepts(h, e) /\ g = Applied(h, e) /\ e.kind \in Kinds /\ e.to \in Nat \cup {NoAmount}
  BY DEF Acts, HandEvents
<1>2. PICK seat : seat = Actor(h)
  OBVIOUS
<1>3. ~h.closed /\ e.seat = seat
  BY <1>1, <1>2 DEF Accepts
<1>4. /\ h \in HandType /\ ChipsOK(h, stacks) /\ seat \in Seats /\ h.pending # <<>>
      /\ IsInjective(h.pending)
  BY <1>2, <1>3, ActorFacts
<1>5. h.highest \in Nat /\ h.highest >= h.highest
  BY <1>4 DEF HandType
<1>6. PICK low \in BOOLEAN : low <=> e.to <= h.highest
  OBVIOUS
<1>7. ~low <=> e.to > h.highest
  BY <1>1, <1>5, <1>6 DEF NoAmount
<1>8. CASE e.kind = "FOLD"
  <2>1. PICK folded \in SUBSET Seats : folded = h.folded \cup {seat}
    BY <1>4 DEF HandType
  <2>2. PICK x : x = [h EXCEPT !.folded = folded]
    OBVIOUS
  <2>3. /\ x \in HandType /\ x.pending = h.pending /\ x.acted = h.acted
        /\ x.highest = h.highest /\ x.lastFullRaise = h.lastFullRaise
    BY <1>4, <2>2 DEF HandType
  <2>4. g = Ended(PassiveComplete(x, seat))
    BY <1>1, <1>3, <1>6, <1>7, <1>8, <2>1, <2>2, AppliedCases
  <2>5. x.pending # <<>> /\ IsInjective(x.pending)
    BY <1>4, <2>3
  <2>6. /\ g.acted = x.acted \cup {seat}
        /\ g.lastFullRaise = x.lastFullRaise /\ g.highest = x.highest
    BY <1>4, <2>3, <2>4, <2>5, PassiveKeepsBets
  <2>7. e.kind \notin Wagers
    BY <1>8 DEF Wagers
  <2>8. QED
    BY <1>3, <1>5, <2>3, <2>6, <2>7 DEF Reopens
<1>9. CASE e.kind = "CHECK"
  <2>1. g = Ended(PassiveComplete(h, seat))
    BY <1>1, <1>3, <1>6, <1>7, <1>9, AppliedCases
  <2>2. /\ g.acted = h.acted \cup {seat}
        /\ g.lastFullRaise = h.lastFullRaise /\ g.highest = h.highest
    BY <1>4, <2>1, PassiveKeepsBets
  <2>3. e.kind \notin Wagers
    BY <1>9 DEF Wagers
  <2>4. QED
    BY <1>3, <1>5, <2>2, <2>3 DEF Reopens
<1>10. CASE e.kind \in Wagers
  <2>1. e.to \in Nat /\ e.to > h.streetPaid[seat] /\ e.to <= MaxTarget(h, seat)
    BY <1>1, <1>2, <1>10, WagerFacts
  <2>2. PICK x : x = PayTo(h, seat, e.to)
    OBVIOUS
  <2>3. h.streetPaid[seat] \in Nat
    BY <1>4 DEF HandType
  <2>4. e.to >= h.streetPaid[seat]
    BY <2>1, <2>3
  <2>5. /\ x \in HandType /\ x.pending = h.pending /\ x.acted = h.acted
        /\ x.highest = h.highest /\ x.lastFullRaise = h.lastFullRaise
    BY <1>4, <2>1, <2>2, <2>4, PayFacts
  <2>6. CASE low
    <3>1. g = Ended(PassiveComplete(x, seat))
      BY <1>1, <1>3, <1>6, <1>7, <1>10, <2>2, <2>6, AppliedCases
    <3>2. x.pending # <<>> /\ IsInjective(x.pending)
      BY <1>4, <2>5
    <3>3. /\ g.acted = x.acted \cup {seat}
          /\ g.lastFullRaise = x.lastFullRaise /\ g.highest = x.highest
      BY <1>4, <2>5, <3>1, <3>2, PassiveKeepsBets
    <3>4. ~(e.to > h.highest)
      BY <1>7, <2>6
    <3>5. QED
      BY <1>3, <1>5, <2>5, <3>3, <3>4 DEF Reopens
  <2>7. CASE ~low
    <3>1. g = Ended(Raised(h, e))
      BY <1>1, <1>6, <1>7, <1>10, <2>7, AppliedCases
    <3>2. e.to > h.highest
      BY <1>7, <2>7
    <3>3. Reopens(h, e, Ended(Raised(h, e)))
      BY <1>3, <1>4, <2>1, <2>2, <2>5, <3>2, RaisedReopens
    <3>4. QED
      BY <3>1, <3>3
  <2>8. QED
    BY <2>6, <2>7
<1>11. QED
  BY <1>1, <1>8, <1>9, <1>10 DEF Kinds

\* Who has not acted since the last full raise faces that much at least, or
\* the big blind is the least raise.
LeastRaise(h) ==
  \A s \in Seats : s \notin h.acted =>
    h.lastFullRaise <= BigBlind \/ h.lastFullRaise <= Facing(h, s)

LEMMA LeastRaiseKeeps ==
  ASSUME NEW stacks, NEW h, HandOK(h, stacks), LeastRaise(h), NEW g, Step(h, g)
  PROVE  LeastRaise(g)
<1>1. ASSUME Deals(h, g) PROVE LeastRaise(g)
  <2>1. g.lastFullRaise = BigBlind /\ BigBlind \in Nat
    BY <1>1, StreetFacts, ReplayAssumption
  <2>2. QED
    BY <2>1 DEF LeastRaise
<1>2. ASSUME NEW e, Acts(h, e, g) PROVE LeastRaise(g)
  <2>1. Reopens(h, e, g)
    BY <1>2, ActReopens
  <2>2. /\ Effect(h, e, g) /\ e.seat \in Seats /\ h \in HandType /\ g \in HandType
        /\ \A s \in Seats : /\ h.streetPaid[s] \in Nat /\ h.streetPaid[s] <= h.highest
                            /\ g.streetPaid[s] \in Nat
        /\ h.highest \in Nat /\ g.highest \in Nat
    BY <1>2, ActFacts
  <2>3. \A s \in Seats : s # e.seat => g.streetPaid[s] = h.streetPaid[s]
    BY <2>2 DEF Effect
  <2>4. h.lastFullRaise \in Nat /\ g.lastFullRaise \in Nat /\ BigBlind \in Nat
    BY <2>2, ReplayAssumption DEF HandType
  <2>5. ASSUME NEW s \in Seats, s \notin g.acted
        PROVE  g.lastFullRaise <= BigBlind \/ g.lastFullRaise <= Facing(g, s)
    <3>1. s # e.seat /\ g.streetPaid[s] = h.streetPaid[s]
      BY <2>1, <2>3, <2>5 DEF Reopens
    <3>2. CASE /\ g.acted = h.acted \cup {e.seat} /\ g.lastFullRaise = h.lastFullRaise
               /\ g.highest >= h.highest
      <4>1. h.lastFullRaise <= BigBlind \/ h.lastFullRaise <= Facing(h, s)
        BY <2>5, <3>2 DEF LeastRaise
      <4>2. QED
        BY <2>2, <2>4, <3>1, <3>2, <4>1 DEF Facing
    <3>3. CASE g.lastFullRaise = g.highest - h.highest
      BY <2>2, <2>4, <3>1, <3>3 DEF Facing
    <3>4. QED
      BY <2>1, <3>2, <3>3 DEF Reopens
  <2>6. QED
    BY <2>5 DEF LeastRaise
<1>3. QED
  BY <1>1, <1>2 DEF Step

-----------------------------------------------------------------------------
(* The frames of a hand.                                                   *)

\* Before the flop every chip paid is a bet, and whoever folded owed some.
Opening(h) ==
  /\ \A s \in Seats : h.totalPaid[s] = h.streetPaid[s]
  /\ \A s \in h.folded : h.streetPaid[s] < h.highest

\* The round before the flop is bet out: who is in it with chips has paid what
\* was asked, who folded paid less.
RoundPaid(h) ==
  \E top \in Nat :
    /\ \A s \in Seats : h.totalPaid[s] <= top
    /\ \E s \in Seats : h.totalPaid[s] = top
    /\ \A s \in h.folded : h.totalPaid[s] < top
    /\ \A s \in Seats : s \notin h.folded /\ s \notin h.allIn => h.totalPaid[s] = top

\* A state of the flop keeps what was paid before it.
OfFlop(h, f) ==
  /\ \A s \in Seats : h.remaining[s] + h.streetPaid[s] = f.remaining[s]
  /\ f.folded \subseteq h.folded

HandSeen(h) ==
  /\ HandOK(h, start) /\ Sound(h) /\ LeastRaise(h)
  /\ h.street = 1 => Opening(h)
  /\ h.street = 2 => OfFlop(h, flop)

SpotInv ==
  /\ start \in [Seats -> Nat \ {0}] /\ hero \in Seats
  /\ HandSeen(hand)
  /\ hand.street > 1 => HandOK(flop, start) /\ RoundPaid(flop)
  /\ \E S : frames \in Seq(S)
  /\ \A i \in 1..Len(frames) :
       /\ HandSeen(frames[i].hand) /\ frames[i].hand.street <= hand.street
       /\ Actor(frames[i].hand) = hero

LEMMA SpotInitKeeps == SpotInit => SpotInv /\ hand.street = 1
<1> SUFFICES ASSUME SpotInit PROVE SpotInv /\ hand.street = 1
  OBVIOUS
<1>1. /\ start \in [Seats -> Nat \ {0}] /\ hero \in Seats
      /\ hand = Dealt(Button, start, 0) /\ frames = <<>>
  BY SpotAssumption DEF SpotInit
<1>2. Button \in Seats /\ Players \in Nat /\ Seats = 0 .. Players - 1
  BY ReplayAssumption DEF Button, Seats
<1>3. PICK bound \in Nat : \A s \in Seats : start[s] <= bound
  <2> DEFINE paid == {start[s] : s \in Seats}
  <2>1. IsFiniteSet(paid)
    <3>1. start \in Surjection(Seats, paid)
      BY <1>1 DEF Surjection
    <3>2. QED
      BY <3>1, SeatsFinite, FS_Surjection
  <2>2. paid \subseteq Nat
    BY <1>1
  <2> HIDE DEF paid
  <2>3. PICK bound \in Nat : \A y \in paid : y <= bound
    BY <2>1, <2>2, FiniteIsBounded
  <2>4. QED
    BY <2>3 DEF paid
<1>4. PICK g : g = hand
  OBVIOUS
<1>5. /\ HandOK(g, start) /\ g.street = 1 /\ g.folded = {} /\ g.lastFullRaise = BigBlind
      /\ \A s \in Seats : g.totalPaid[s] = g.streetPaid[s] + Lesser(0, start[s])
  <2>1. PICK fee \in Nat : fee = 0
    OBVIOUS
  <2>2. g = Dealt(Button, start, fee)
    BY <1>1, <1>4, <2>1
  <2>3. /\ start \in [Seats -> Nat \ {0}] /\ bound \in Nat /\ fee \in Nat /\ Button \in Seats
        /\ \A s \in Seats : start[s] <= bound
    BY <1>1, <1>2, <1>3, <2>1
  <2>4. /\ HandOK(g, start) /\ g.street = 1 /\ g.folded = {} /\ g.lastFullRaise = BigBlind
        /\ \A s \in Seats : g.totalPaid[s] = g.streetPaid[s] + Lesser(fee, start[s])
    BY <2>2, <2>3, DealtFacts
  <2>5. QED
    BY <2>1, <2>4
<1>6. Opening(g) /\ Sound(g) /\ LeastRaise(g)
  <2>1. \A s \in Seats : g.streetPaid[s] \in Nat /\ start[s] \in Nat
    BY <1>1, <1>5 DEF HandOK, HandType
  <2>2. \A s \in Seats : g.totalPaid[s] = g.streetPaid[s]
    BY <1>5, <2>1 DEF Lesser
  <2>3. QED
    BY <1>5, <2>2, ReplayAssumption DEF Opening, Sound, LeastRaise
<1>7. HandSeen(hand) /\ ~(hand.street > 1) /\ hand.street = 1
  BY <1>4, <1>5, <1>6 DEF HandSeen
<1>8. frames \in Seq({0}) /\ Len(frames) = 0
  BY <1>1
<1>9. \A i \in 1..Len(frames) : FALSE
  BY <1>8
<1>10. QED
  BY <1>1, <1>7, <1>8, <1>9 DEF SpotInv

\* An action of one round.
LEMMA SeenAct ==
  ASSUME SpotInv, NEW e, NEW g, Acts(hand, e, g)
  PROVE  HandSeen(g) /\ g.street = hand.street
<1>1. HandOK(hand, start) /\ Sound(hand) /\ LeastRaise(hand) /\ HandSeen(hand)
  BY DEF SpotInv, HandSeen
<1>2. HandOK(g, start) /\ Sound(g) /\ LeastRaise(g)
  <2>1. Step(hand, g)
    BY DEF Step
  <2>2. QED
    BY <1>1, <2>1, StepKeeps, LeastRaiseKeeps
<1>3. /\ Effect(hand, e, g) /\ e.seat = Actor(hand) /\ e.seat \in Seats
      /\ e.seat \in Eligible(hand) /\ e.kind \in Kinds
      /\ hand \in HandType /\ g \in HandType /\ ChipsOK(hand, start) /\ ChipsOK(g, start)
      /\ \A s \in Seats : /\ hand.totalPaid[s] \in Nat /\ hand.streetPaid[s] \in Nat
                          /\ hand.remaining[s] \in Nat
                          /\ g.totalPaid[s] \in Nat /\ g.streetPaid[s] \in Nat
                          /\ g.remaining[s] \in Nat
                          /\ g.totalPaid[s] - g.streetPaid[s] = hand.totalPaid[s] - hand.streetPaid[s]
      /\ hand.highest \in Nat /\ g.highest \in Nat /\ g.street = hand.street
  BY <1>1, ActFacts
<1>4. /\ hand.folded \subseteq g.folded
      /\ \A s \in g.folded : s \in hand.folded \/ (s = e.seat /\ e.kind = "FOLD")
      /\ hand.highest <= g.highest
      /\ \A s \in Seats : s # e.seat => g.streetPaid[s] = hand.streetPaid[s]
      /\ e.kind \notin Wagers => g.streetPaid[e.seat] = hand.streetPaid[e.seat]
  BY <1>3 DEF Effect
<1>5. ASSUME g.street = 1 PROVE Opening(g)
  <2>1. Opening(hand)
    BY <1>1, <1>3, <1>5 DEF HandSeen
  <2>2. ASSUME NEW s \in g.folded PROVE g.streetPaid[s] < g.highest
    <3>1. s \in Seats
      BY <1>3 DEF HandType
    <3>2. CASE s \in hand.folded
      <4>1. s # e.seat
        BY <1>3, <3>2 DEF Eligible, Live
      <4>2. hand.streetPaid[s] < hand.highest
        BY <2>1, <3>2 DEF Opening
      <4>3. QED
        BY <1>3, <1>4, <3>1, <4>1, <4>2
    <3>3. CASE s = e.seat /\ e.kind = "FOLD"
      <4>1. Facing(hand, s) > 0
        BY <1>3, <3>3 DEF Acts, Accepts, Wagers
      <4>2. hand.streetPaid[s] < hand.highest
        BY <1>3, <3>1, <4>1 DEF Facing
      <4>3. g.streetPaid[s] = hand.streetPaid[s]
        BY <1>4, <3>3 DEF Wagers
      <4>4. QED
        BY <1>3, <1>4, <3>1, <4>2, <4>3
    <3>4. QED
      BY <1>4, <3>2, <3>3
  <2>3. \A s \in Seats : g.totalPaid[s] = g.streetPaid[s]
    BY <1>3, <2>1 DEF Opening
  <2>4. QED
    BY <2>2, <2>3 DEF Opening
<1>6. ASSUME g.street = 2 PROVE OfFlop(g, flop)
  <2>1. OfFlop(hand, flop)
    BY <1>1, <1>3, <1>6 DEF HandSeen
  <2>2. ASSUME NEW s \in Seats PROVE g.remaining[s] + g.streetPaid[s] = flop.remaining[s]
    <3>1. /\ hand.remaining[s] + hand.totalPaid[s] = start[s]
          /\ g.remaining[s] + g.totalPaid[s] = start[s]
          /\ hand.remaining[s] + hand.streetPaid[s] = flop.remaining[s]
      BY <1>3, <2>1 DEF ChipsOK, OfFlop
    <3>2. QED
      BY <1>3, <3>1
  <2>3. QED
    BY <1>4, <2>1, <2>2 DEF OfFlop
<1>7. QED
  BY <1>2, <1>3, <1>5, <1>6 DEF HandSeen

LEMMA StreetIsNat ==
  ASSUME NEW h, HandOK(h, start)
  PROVE  h.street \in 1..4 /\ h.street \in Nat
<1>1. h \in HandType
  BY DEF HandOK
<1>2. h.street \in 1..4
  BY <1>1 DEF HandType
<1>3. QED
  BY <1>2

\* Frames stay what they were while the hand goes on, on the same flop.
LEMMA FramesKeep ==
  ASSUME SpotInv, NEW g, HandOK(g, start), Sound(g), LeastRaise(g), g.street >= hand.street,
         hand' = g, start' = start, hero' = hero, frames' = frames,
         hand.street > 1 => flop' = flop,
         g.street = 1 => Opening(g),
         g.street > 1 => HandOK(flop', start) /\ RoundPaid(flop'),
         g.street = 2 => OfFlop(g, flop')
  PROVE  SpotInv'
<1>1. /\ start \in [Seats -> Nat \ {0}] /\ hero \in Seats /\ \E S : frames \in Seq(S)
      /\ \A i \in 1..Len(frames) :
           /\ HandSeen(frames[i].hand) /\ frames[i].hand.street <= hand.street
           /\ Actor(frames[i].hand) = hero
      /\ HandOK(hand, start)
  BY DEF SpotInv, HandSeen
<1>2. HandSeen(hand)'
  BY DEF HandSeen
<1>3. hand.street \in Nat /\ g.street \in Nat
  BY <1>1, StreetIsNat
<1>4. ASSUME NEW i \in 1..Len(frames)
      PROVE  HandSeen(frames[i].hand)' /\ frames[i].hand.street <= g.street
  <2>1. PICK h : h = frames[i].hand
    OBVIOUS
  <2>2. HandSeen(h) /\ h.street <= hand.street
    BY <1>1, <2>1
  <2>3. HandOK(h, start) /\ Sound(h) /\ LeastRaise(h) /\ (h.street = 1 => Opening(h))
        /\ (h.street = 2 => OfFlop(h, flop))
    BY <2>2 DEF HandSeen
  <2>4. h.street \in Nat
    BY <2>3, StreetIsNat
  <2>5. h.street = 2 => hand.street > 1
    BY <1>3, <2>2, <2>4
  <2>6. h.street = 2 => OfFlop(h, flop')
    BY <2>3, <2>5
  <2>7. PICK k : k = frames'[i].hand
    OBVIOUS
  <2>8. k = h
    BY <2>1, <2>7
  <2>9. HandSeen(frames[i].hand)'
    BY <2>3, <2>6, <2>7, <2>8 DEF HandSeen
  <2>10. h.street <= g.street
    BY <1>3, <2>2, <2>4
  <2>11. QED
    BY <2>1, <2>9, <2>10
<1>5. QED
  BY <1>1, <1>2, <1>3, <1>4 DEF SpotInv

\* The flop is dealt when the round before it is bet out.
LEMMA FlopFacts ==
  ASSUME NEW h, HandOK(h, start), Opening(h), NEW g, Deals(h, g)
  PROVE  RoundPaid(g) /\ OfFlop(g, g)
<1>1. /\ HandOK(g, start) /\ h \in HandType /\ g \in HandType /\ h.closed /\ ~h.terminal
      /\ g.totalPaid = h.totalPaid /\ g.folded = h.folded /\ g.allIn = h.allIn
      /\ \A s \in Seats : g.streetPaid[s] = 0
  BY StreetFacts
<1>2. ChipsOK(h, start) /\ \A s \in Eligible(h) : h.streetPaid[s] = h.highest
  <2>1. Cardinality(Live(h)) \in Nat /\ ~(Cardinality(Live(h)) <= 1)
    <3>1. Live(h) \in SUBSET Seats
      BY DEF Live
    <3>2. QED
      BY <1>1, <3>1, SeatsFinite DEF HandOK
  <2>2. Cardinality(Live(h)) > 1
    BY <2>1
  <2>3. QED
    BY <1>1, <2>2 DEF HandOK
<1>3. h.highest \in Nat /\ \A s \in Seats : g.remaining[s] \in Nat
  BY <1>1 DEF HandType
<1>4. RoundPaid(g)
  <2>1. \A s \in Seats : g.totalPaid[s] <= h.highest
    BY <1>1, <1>2 DEF ChipsOK, Opening
  <2>2. \E s \in Seats : g.totalPaid[s] = h.highest
    BY <1>1, <1>2 DEF ChipsOK, Opening
  <2>3. \A s \in g.folded : g.totalPaid[s] < h.highest
    <3>1. h.folded \subseteq Seats
      BY <1>1 DEF HandType
    <3>2. QED
      BY <1>1, <3>1 DEF Opening
  <2>4. \A s \in Seats : s \notin g.folded /\ s \notin g.allIn => g.totalPaid[s] = h.highest
    BY <1>1, <1>2 DEF Opening, Eligible, Live
  <2>5. QED
    BY <1>3, <2>1, <2>2, <2>3, <2>4 DEF RoundPaid
<1>5. OfFlop(g, g)
  BY <1>1, <1>3 DEF OfFlop
<1>6. QED
  BY <1>4, <1>5

LEMMA NextStreetKeeps ==
  ASSUME SpotInv, DealNextStreet
  PROVE  SpotInv'
<1>1. PICK g : g = AppliedDeal(hand, Button)
  OBVIOUS
<1>2. /\ Deals(hand, g) /\ hand' = g /\ start' = start /\ hero' = hero /\ frames' = frames
      /\ flop' = IF hand.street = 1 THEN g ELSE flop
  BY <1>1 DEF DealNextStreet, Deals
<1>3. /\ HandOK(hand, start) /\ Sound(hand) /\ LeastRaise(hand)
      /\ hand.street = 1 => Opening(hand)
      /\ hand.street > 1 => HandOK(flop, start) /\ RoundPaid(flop)
  BY DEF SpotInv, HandSeen
<1>4. HandOK(g, start) /\ Sound(g) /\ LeastRaise(g)
  <2>1. Step(hand, g)
    BY <1>2 DEF Step
  <2>2. QED
    BY <1>3, <2>1, StepKeeps, LeastRaiseKeeps
<1>5. g.street = hand.street + 1
  BY <1>2, <1>3, StreetFacts
<1>6. hand.street \in 1..4 /\ hand.street \in Nat
  BY <1>3, StreetIsNat
<1>7. /\ g.street >= hand.street /\ g.street # 1
      /\ hand.street > 1 => flop' = flop
  BY <1>2, <1>5, <1>6
<1>8. g.street > 1 => HandOK(flop', start) /\ RoundPaid(flop')
  <2>1. CASE hand.street = 1
    BY <1>2, <1>3, <1>4, <2>1, FlopFacts
  <2>2. CASE hand.street > 1
    BY <1>2, <1>3, <1>6, <2>2
  <2>3. QED
    BY <1>6, <2>1, <2>2
<1>9. g.street = 2 => OfFlop(g, flop')
  <2>1. SUFFICES ASSUME g.street = 2 PROVE OfFlop(g, flop')
    OBVIOUS
  <2>2. hand.street = 1
    BY <1>5, <1>6, <2>1
  <2>3. OfFlop(g, g) /\ flop' = g
    BY <1>2, <1>3, <2>2, FlopFacts
  <2>4. QED
    BY <2>3
<1>10. QED
  BY <1>2, <1>4, <1>7, <1>8, <1>9, FramesKeep

\* What is played is an event of the rules.
LEMMA EventsFacts ==
  ASSUME NEW h, HandOK(h, start), NEW e \in Events(h)
  PROVE  Acts(h, e, Applied(h, e))
<1>1. PICK seat : seat = Actor(h)
  OBVIOUS
<1>2. Accepts(h, e) /\ e.seat = seat
  BY <1>1 DEF Events, Accepts
<1>3. ~h.closed
  BY <1>2 DEF Accepts
<1>4. /\ seat \in Seats /\ h \in HandType
  BY <1>1, <1>3, ActorFacts
<1>5. /\ h.highest \in Nat /\ h.streetPaid[seat] \in Nat /\ h.remaining[seat] \in Nat
      /\ h.totalPaid \in [Seats -> Nat]
  BY <1>4 DEF HandType
<1>6. /\ MaxTarget(h, seat) \in Nat /\ CallTarget(h, seat) \in Nat /\ Facing(h, seat) \in Int
      /\ Total(h.totalPaid) \in Nat
  BY <1>5, TotalType DEF MaxTarget, CallTarget, Lesser, Facing
<1>7. \A to \in Targets(h, seat) : to \in Int
  <2>1. RaisePct \in Nat /\ OffTree \in Nat
    BY SpotAssumption, BlueprintAssumption
  <2>2. PICK pot \in Nat : pot = Total(h.totalPaid)
    BY <1>6
  <2>3. PICK facing \in Int : facing = Facing(h, seat)
    BY <1>6
  <2>4. (pot + facing) * RaisePct \in Int
    BY <2>1
  <2>5. PICK raise \in Int : raise = (pot + facing) * RaisePct
    BY <2>4
  <2>6. h.highest + raise \div 100 \in Int /\ pot \div 2 \in Int
    BY <1>5
  <2>7. QED
    BY <1>6, <2>1, <2>2, <2>3, <2>5, <2>6 DEF Targets
<1>8. /\ e.kind \in Kinds
      /\ e.to = NoAmount \/ e.to = CallTarget(h, seat)
           \/ (e.kind \in {"BET_TO", "RAISE_TO", "ALL_IN_TO"} /\ e.to \in Targets(h, seat))
      /\ e \in [kind : Kinds, seat : {seat}, to : {e.to}]
  BY <1>1 DEF Events, Kinds, Wagers
<1>9. e.to \in Nat \cup {NoAmount}
  <2>1. CASE e.to = NoAmount \/ e.to = CallTarget(h, seat)
    BY <1>6, <2>1
  <2>2. CASE e.kind \in {"BET_TO", "RAISE_TO", "ALL_IN_TO"} /\ e.to \in Targets(h, seat)
    <3>1. e.to \in Int
      BY <1>7, <2>2
    <3>2. e.to > h.streetPaid[seat] \/ e.to > h.highest
      BY <1>1, <1>2, <2>2 DEF Accepts
    <3>3. QED
      BY <1>5, <3>1, <3>2
  <2>3. QED
    BY <1>8, <2>1, <2>2
<1>10. e \in HandEvents
  BY <1>4, <1>8, <1>9 DEF HandEvents
<1>11. QED
  BY <1>2, <1>10 DEF Acts

LEMMA PlayEventKeeps ==
  ASSUME SpotInv, NEW e \in Events(hand), PlayEvent(e)
  PROVE  SpotInv'
<1>1. PICK g : g = Applied(hand, e)
  OBVIOUS
<1>2. HandOK(hand, start)
  BY DEF SpotInv, HandSeen
<1>3. Acts(hand, e, g)
  BY <1>1, <1>2, EventsFacts
<1>4. HandSeen(g) /\ g.street = hand.street
  BY <1>3, SeenAct
<1>5. hand' = g /\ start' = start /\ hero' = hero /\ frames' = frames /\ flop' = flop
  BY <1>1 DEF PlayEvent
<1>6. /\ HandOK(g, start) /\ Sound(g) /\ LeastRaise(g) /\ (g.street = 1 => Opening(g))
      /\ g.street = 2 => OfFlop(g, flop')
  BY <1>4, <1>5 DEF HandSeen
<1>7. g.street > 1 => HandOK(flop', start) /\ RoundPaid(flop')
  BY <1>4, <1>5 DEF SpotInv
<1>8. g.street \in Nat /\ g.street >= hand.street /\ (hand.street > 1 => flop' = flop)
  BY <1>2, <1>4, <1>5, StreetIsNat
<1>9. QED
  BY <1>5, <1>6, <1>7, <1>8, FramesKeep

LEMMA FrameKeeps ==
  ASSUME SpotInv, NEW reading \in Readings, TakeFrame(reading)
  PROVE  SpotInv'
<1>1. PICK x : /\ frames' = Append(frames, x) /\ x.hand = hand
  <2>1. PICK x : x = [hand |-> hand,
                      said |-> IF reading = "no actions" THEN Silent ELSE Said,
                      clear |-> reading # "no positions"]
    OBVIOUS
  <2>2. frames' = Append(frames, x)
    BY <2>1 DEF TakeFrame
  <2>3. x.hand = hand
    BY <2>1
  <2>4. QED
    BY <2>2, <2>3
<1>2. /\ hand' = hand /\ start' = start /\ hero' = hero /\ flop' = flop
      /\ Actor(hand) = hero
  BY DEF TakeFrame
<1>3. PICK S : frames \in Seq(S)
  BY DEF SpotInv
<1>4. PICK T : T = S \cup {x}
  OBVIOUS
<1>5. frames \in Seq(T) /\ x \in T /\ Len(frames) \in Nat
  BY <1>3, <1>4
<1>6. /\ frames' \in Seq(T) /\ Len(frames') = Len(frames) + 1
      /\ frames'[Len(frames) + 1] = x /\ \A i \in 1..Len(frames) : frames'[i] = frames[i]
  BY <1>1, <1>5, AppendProperties
<1>7. HandSeen(hand)' /\ hand.street \in Nat
  <2>1. HandSeen(hand) /\ HandOK(hand, start)
    BY DEF SpotInv, HandSeen
  <2>2. HandSeen(hand)'
    BY <1>2, <2>1 DEF HandSeen
  <2>3. QED
    BY <2>1, <2>2, StreetIsNat
<1>8. ASSUME NEW i \in 1..Len(frames')
      PROVE  /\ HandSeen(frames[i].hand)' /\ frames'[i].hand.street <= hand.street
             /\ Actor(frames'[i].hand) = hero
  <2>1. PICK h : h = frames'[i].hand
    OBVIOUS
  <2>2. CASE i = Len(frames) + 1
    <3>1. h = hand
      BY <1>1, <1>6, <2>1, <2>2
    <3>2. HandOK(h, start) /\ Sound(h) /\ LeastRaise(h) /\ (h.street = 1 => Opening(h))
          /\ (h.street = 2 => OfFlop(h, flop))
      BY <3>1 DEF SpotInv, HandSeen
    <3>3. HandSeen(frames[i].hand)'
      BY <1>2, <2>1, <3>2 DEF HandSeen
    <3>4. h.street <= hand.street
      BY <1>7, <3>1
    <3>5. QED
      BY <1>2, <2>1, <3>1, <3>3, <3>4
  <2>3. CASE i \in 1..Len(frames)
    <3>1. h = frames[i].hand
      BY <1>6, <2>1, <2>3
    <3>2. HandSeen(h) /\ h.street <= hand.street /\ Actor(h) = hero
      BY <2>3, <3>1 DEF SpotInv
    <3>3. HandSeen(frames[i].hand)'
      BY <1>2, <2>1, <3>2 DEF HandSeen
    <3>4. QED
      BY <2>1, <3>2, <3>3
  <2>4. QED
    BY <1>5, <1>6, <2>2, <2>3
<1>9. /\ (start \in [Seats -> Nat \ {0}] /\ hero \in Seats)'
      /\ (hand.street > 1 => HandOK(flop, start) /\ RoundPaid(flop))'
  BY <1>2 DEF SpotInv
<1>10. hand'.street = hand.street
  BY <1>2
<1>11. QED
  BY <1>2, <1>6, <1>7, <1>8, <1>9, <1>10 DEF SpotInv

LEMMA SpotStepKeeps == SpotInv /\ [SpotNext]_spotVars => SpotInv'
<1> SUFFICES ASSUME SpotInv, [SpotNext]_spotVars PROVE SpotInv'
  OBVIOUS
<1>1. ASSUME NEW reading \in Readings, TakeFrame(reading) PROVE SpotInv'
  BY <1>1, FrameKeeps
<1>2. ASSUME NEW event \in Events(hand), PlayEvent(event) PROVE SpotInv'
  BY <1>2, PlayEventKeeps
<1>3. CASE DealNextStreet
  BY <1>3, NextStreetKeeps
<1>4. CASE UNCHANGED spotVars
  BY <1>4 DEF SpotInv, HandSeen, spotVars
<1>5. QED
  BY <1>1, <1>2, <1>3, <1>4 DEF SpotNext

(* The frames of a hand are states of it, and the flop it is on keeps what *)
(* was paid before it: who stayed in with chips paid the same, who folded  *)
(* less.                                                                   *)
THEOREM SpotInvariant == SpotSpec => []SpotInv
<1>1. QED
  BY SpotInitKeeps, SpotStepKeeps, PTL DEF SpotSpec

-----------------------------------------------------------------------------
(* The reconstruction.                                                     *)

LEMMA LeastOf ==
  ASSUME NEW S, S \subseteq Nat, S # {}
  PROVE  Min(S) \in S
<1>1. \E k \in S : \A l \in S : k <= l
  BY LeastNumber
<1>2. Min(S) = CHOOSE k \in S : \A l \in S : k <= l
  BY DEF Min
<1>3. QED
  BY <1>1, <1>2

\* A frame of the preflop round, and the flop frame that follows it.
IsPair(seen, pre, post) ==
  /\ pre \in DOMAIN seen /\ Street(seen[pre]) = 1
  /\ post \in DOMAIN seen /\ Street(seen[post]) = 2

Paid(seen, pre, post) == [s \in Seats |-> Contribution(seen[pre], seen[post], s)]

LEMMA TerminalFacts ==
  ASSUME NEW seen, NEW n \in Nat, DOMAIN seen = 1..n, TerminalFromHistory(seen).known
  PROVE  \E pre, post :
           /\ IsPair(seen, pre, post)
           /\ TerminalFromHistory(seen) =
                Observed(seen[pre], Paid(seen, pre, post),
                         FoldedPreflop(seen[post], Paid(seen, pre, post)),
                         {s \in AllInSeats(seen[post]) :
                            Stack(seen[post], s) + Bet(seen[post], s) = 0}, TRUE)
<1>1. PICK pre : pre = LatestValidPreflop(seen)
  OBVIOUS
<1>2. PICK post : post = IF pre = 0 THEN 0 ELSE FirstFlopAfter(seen, pre)
  OBVIOUS
<1>3. NoObservation.known = FALSE
  BY DEF NoObservation
<1>4. /\ post # 0
      /\ TerminalFromHistory(seen) =
                Observed(seen[pre], Paid(seen, pre, post),
                         FoldedPreflop(seen[post], Paid(seen, pre, post)),
                         {s \in AllInSeats(seen[post]) :
                            Stack(seen[post], s) + Bet(seen[post], s) = 0}, TRUE)
  BY <1>1, <1>2, <1>3 DEF TerminalFromHistory, Paid
<1>5. pre # 0 /\ post = FirstFlopAfter(seen, pre)
  BY <1>2, <1>4
<1>6. pre \in DOMAIN seen /\ Street(seen[pre]) = 1
  <2>1. PICK usable : usable = {i \in DOMAIN seen : Street(seen[i]) = 1 /\ HasLayout(seen[i])}
    OBVIOUS
  <2>2. usable # {} /\ pre = Max(usable)
    BY <1>1, <1>5, <2>1 DEF LatestValidPreflop
  <2>3. usable \subseteq Nat /\ \A i \in usable : i <= n
    BY <2>1
  <2>4. Max(usable) \in usable
    BY <2>2, <2>3, BoundedMax
  <2>5. QED
    BY <2>1, <2>2, <2>4
<1>7. post \in DOMAIN seen /\ Street(seen[post]) = 2
  <2>1. PICK later : later = {i \in DOMAIN seen : i > pre /\ Street(seen[i]) # 1}
    OBVIOUS
  <2>2. later # {} /\ post = Min(later) /\ Street(seen[Min(later)]) = 2
    BY <1>4, <1>5, <2>1 DEF FirstFlopAfter
  <2>3. later \subseteq Nat
    BY <2>1
  <2>4. Min(later) \in later
    BY <2>2, <2>3, LeastOf
  <2>5. QED
    BY <2>1, <2>2, <2>4
<1>8. QED
  BY <1>4, <1>6, <1>7 DEF IsPair

\* Whose fold the reconstruction sees: who paid less than the others by more
\* than the tolerance.
SeenFolding == {s \in flop.folded :
                  100 * flop.totalPaid[s] + 5 * BigBlind < 100 * Max(Range(flop.totalPaid))}

\* The wagers and the all-ins are exact; a fold is missed only by a caller's
\* shortfall within the tolerance.
HandoffWithinTolerance ==
  LET seen == TerminalFromHistory(frames)
  IN  hand.street > 1 /\ seen.known =>
        /\ seen.paid = flop.totalPaid
        /\ seen.folded = SeenFolding
        /\ seen.allIn = flop.allIn
        /\ seen.initial = start

LEMMA PairFacts ==
  ASSUME SpotInv, hand.street > 1, NEW pre, NEW post, IsPair(frames, pre, post)
  PROVE  /\ HandOK(flop, start) /\ RoundPaid(flop)
         /\ Paid(frames, pre, post) = flop.totalPaid
         /\ \A s \in Seats : Stack(frames[pre], s) + Bet(frames[pre], s) = start[s]
         /\ \A s \in Seats : Stack(frames[post], s) + Bet(frames[post], s) = flop.remaining[s]
         /\ flop.folded \subseteq Folded(frames[post])
         /\ \A s \in Folded(frames[post]) : s \in Seats /\ s \notin flop.allIn
         /\ flop.allIn = {s \in AllInSeats(frames[post]) :
                            Stack(frames[post], s) + Bet(frames[post], s) = 0}
<1>1. HandOK(flop, start) /\ RoundPaid(flop) /\ start \in [Seats -> Nat \ {0}]
  BY DEF SpotInv
<1>2. DOMAIN frames = 1..Len(frames)
  BY DEF SpotInv
<1>3. PICK b, a : b = frames[pre].hand /\ a = frames[post].hand
  OBVIOUS
<1>4. HandSeen(b) /\ HandSeen(a) /\ b.street = 1 /\ a.street = 2
  BY <1>2, <1>3 DEF SpotInv, IsPair, Street
<1>5. /\ HandOK(b, start) /\ HandOK(a, start) /\ Opening(b) /\ OfFlop(a, flop) /\ Sound(a)
  BY <1>4 DEF HandSeen
<1>6. /\ b \in HandType /\ a \in HandType /\ flop \in HandType
      /\ ChipsOK(b, start) /\ ChipsOK(a, start) /\ ChipsOK(flop, start)
  BY <1>1, <1>5 DEF HandOK
<1>7. ASSUME NEW s \in Seats
      PROVE  /\ b.remaining[s] \in Nat /\ b.streetPaid[s] \in Nat
             /\ a.remaining[s] \in Nat /\ a.streetPaid[s] \in Nat
             /\ flop.remaining[s] \in Nat /\ flop.totalPaid[s] \in Nat
             /\ start[s] \in Nat
             /\ b.remaining[s] + b.streetPaid[s] = start[s]
             /\ a.remaining[s] + a.streetPaid[s] = flop.remaining[s]
             /\ flop.remaining[s] + flop.totalPaid[s] = start[s]
  BY <1>1, <1>5, <1>6 DEF HandType, Opening, OfFlop, ChipsOK
<1>8. \A s \in Seats : /\ Stack(frames[pre], s) + Bet(frames[pre], s) = start[s]
                       /\ Stack(frames[post], s) + Bet(frames[post], s) = flop.remaining[s]
  BY <1>3, <1>7 DEF Stack, Bet
<1>9. Paid(frames, pre, post) = flop.totalPaid
  <2>1. ASSUME NEW s \in Seats PROVE Paid(frames, pre, post)[s] = flop.totalPaid[s]
    <3>1. PICK before, after : before = frames[pre] /\ after = frames[post]
      OBVIOUS
    <3>2. Paid(frames, pre, post)[s] = Contribution(before, after, s)
      BY <3>1 DEF Paid
    <3>3. /\ Stack(before, s) = b.remaining[s] /\ Bet(before, s) = b.streetPaid[s]
          /\ Stack(after, s) = a.remaining[s] /\ Bet(after, s) = a.streetPaid[s]
      BY <1>3, <3>1 DEF Stack, Bet
    <3>4. Contribution(before, after, s) =
            b.remaining[s] + (b.streetPaid[s] - (a.remaining[s] + a.streetPaid[s]))
      BY <3>3 DEF Contribution
    <3>5. PICK x \in Nat, y \in Nat, z \in Nat, w \in Nat, r \in Nat, paid \in Nat :
            /\ x = b.remaining[s] /\ y = b.streetPaid[s]
            /\ z = a.remaining[s] /\ w = a.streetPaid[s]
            /\ r = flop.remaining[s] /\ paid = flop.totalPaid[s]
      BY <1>7
    <3>6. z + w = r /\ r + paid = x + y
      BY <1>7, <3>5
    <3>7. x + (y - (z + w)) = paid
      BY <3>6
    <3>8. QED
      BY <3>2, <3>4, <3>5, <3>7
  <2>2. flop.totalPaid \in [Seats -> Nat]
    BY <1>6 DEF HandType
  <2>3. QED
    BY <2>1, <2>2 DEF Paid
<1>10. flop.folded \subseteq a.folded /\ a.folded \subseteq Seats
  BY <1>5, <1>6 DEF OfFlop, HandType
<1>11. /\ \A s \in Seats : s \in a.allIn <=> a.remaining[s] = 0
       /\ \A s \in Seats : s \in flop.allIn <=> flop.remaining[s] = 0
       /\ flop.allIn \subseteq Seats /\ a.allIn \subseteq Seats
  BY <1>6 DEF ChipsOK
<1>12. \A s \in flop.allIn : s \in a.allIn
  BY <1>7, <1>11
<1>13. \A s \in a.folded : s \notin a.allIn
  BY <1>5 DEF Sound
<1>14. \A s \in Folded(frames[post]) : s \in Seats /\ s \notin flop.allIn
  BY <1>3, <1>10, <1>12, <1>13 DEF Folded
<1>15. AllInSeats(frames[post]) = a.allIn
  BY <1>3, <1>13 DEF AllInSeats
<1>16. flop.allIn = {s \in AllInSeats(frames[post]) :
                       Stack(frames[post], s) + Bet(frames[post], s) = 0}
  <2>1. \A s \in a.allIn : Stack(frames[post], s) + Bet(frames[post], s) = flop.remaining[s]
    BY <1>8, <1>11
  <2>2. QED
    BY <1>11, <1>12, <1>15, <2>1
<1>17. QED
  BY <1>1, <1>3, <1>8, <1>9, <1>10, <1>14, <1>16 DEF Folded

\* What was asked before the flop is the most that anybody paid.
LEMMA TopFacts ==
  ASSUME HandOK(flop, start), RoundPaid(flop)
  PROVE  \E top \in Nat :
           /\ Max(Range(flop.totalPaid)) = top
           /\ \A s \in flop.folded : flop.totalPaid[s] \in Nat /\ flop.totalPaid[s] < top
           /\ \A s \in Seats : s \notin flop.folded /\ s \notin flop.allIn =>
                                 flop.totalPaid[s] = top
<1>1. flop.totalPaid \in [Seats -> Nat] /\ flop.folded \subseteq Seats
  BY DEF HandOK, HandType
<1>2. PICK top \in Nat :
        /\ \A s \in Seats : flop.totalPaid[s] <= top
        /\ \E s \in Seats : flop.totalPaid[s] = top
        /\ \A s \in flop.folded : flop.totalPaid[s] < top
        /\ \A s \in Seats : s \notin flop.folded /\ s \notin flop.allIn => flop.totalPaid[s] = top
  BY DEF RoundPaid
<1>3. PICK paid : paid = flop.totalPaid
  OBVIOUS
<1>4. /\ Max(Range(paid)) \in Nat /\ \A s \in Seats : paid[s] <= Max(Range(paid))
      /\ \E s \in Seats : paid[s] = Max(Range(paid))
  BY <1>1, <1>2, <1>3, HighestFacts
<1>5. PICK most \in Nat : most = Max(Range(paid))
  BY <1>4
<1>6. most = top
  BY <1>1, <1>2, <1>3, <1>4, <1>5
<1>7. QED
  BY <1>1, <1>2, <1>3, <1>5, <1>6

(* A fold in a frame of the flop that was made before it.                  *)
LEMMA FoldFacts ==
  ASSUME HandOK(flop, start), RoundPaid(flop), NEW f,
         flop.folded \subseteq Folded(f),
         \A s \in Folded(f) : s \in Seats /\ s \notin flop.allIn
  PROVE  FoldedPreflop(f, flop.totalPaid) = SeenFolding
<1>1. PICK top \in Nat :
           /\ Max(Range(flop.totalPaid)) = top
           /\ \A s \in flop.folded : flop.totalPaid[s] \in Nat /\ flop.totalPaid[s] < top
           /\ \A s \in Seats : s \notin flop.folded /\ s \notin flop.allIn =>
                                 flop.totalPaid[s] = top
  BY TopFacts
<1>2. ASSUME NEW s \in Folded(f), 100 * flop.totalPaid[s] + 5 * BigBlind < 100 * top
      PROVE  s \in flop.folded
  <2>1. SUFFICES ASSUME s \notin flop.folded PROVE FALSE
    OBVIOUS
  <2>2. flop.totalPaid[s] = top
    BY <1>1, <2>1
  <2>3. BigBlind \in Nat
    BY ReplayAssumption
  <2>4. QED
    BY <1>2, <2>2, <2>3
<1>3. QED
  BY <1>1, <1>2 DEF FoldedPreflop, SeenFolding

LEMMA HandoffFacts == SpotInv => HandoffWithinTolerance
<1> SUFFICES ASSUME SpotInv PROVE HandoffWithinTolerance
  OBVIOUS
<1>1. PICK seen : seen = TerminalFromHistory(frames)
  OBVIOUS
<1>2. SUFFICES ASSUME hand.street > 1, seen.known
               PROVE  /\ seen.paid = flop.totalPaid /\ seen.folded = SeenFolding
                      /\ seen.allIn = flop.allIn /\ seen.initial = start
  BY <1>1 DEF HandoffWithinTolerance
<1>3. PICK n \in Nat : DOMAIN frames = 1..n
  BY DEF SpotInv
<1>4. PICK pre, post :
        /\ IsPair(frames, pre, post)
        /\ seen =
                Observed(frames[pre], Paid(frames, pre, post),
                         FoldedPreflop(frames[post], Paid(frames, pre, post)),
                         {s \in AllInSeats(frames[post]) :
                            Stack(frames[post], s) + Bet(frames[post], s) = 0}, TRUE)
  BY <1>1, <1>2, <1>3, TerminalFacts
<1>5. /\ HandOK(flop, start) /\ RoundPaid(flop)
      /\ Paid(frames, pre, post) = flop.totalPaid
      /\ \A s \in Seats : Stack(frames[pre], s) + Bet(frames[pre], s) = start[s]
      /\ flop.folded \subseteq Folded(frames[post])
      /\ \A s \in Folded(frames[post]) : s \in Seats /\ s \notin flop.allIn
      /\ flop.allIn = {s \in AllInSeats(frames[post]) :
                         Stack(frames[post], s) + Bet(frames[post], s) = 0}
  BY <1>2, <1>4, PairFacts
<1>6. FoldedPreflop(frames[post], flop.totalPaid) = SeenFolding
  BY <1>5, FoldFacts
<1>7. seen = Observed(frames[pre], flop.totalPaid, SeenFolding, flop.allIn, TRUE)
  BY <1>4, <1>5, <1>6
<1>8. /\ seen.paid = flop.totalPaid /\ seen.folded = SeenFolding /\ seen.allIn = flop.allIn
      /\ seen.initial = [s \in Seats |-> Stack(frames[pre], s) + Bet(frames[pre], s)]
  BY <1>7 DEF Observed
<1>9. start \in [Seats -> Nat \ {0}]
  BY DEF SpotInv
<1>10. QED
  BY <1>5, <1>8, <1>9

(* Whatever the chips are worth, the reconstruction has every wager and    *)
(* all-in of the preflop round; the folds it has are those of the hand by  *)
(* players who lacked more than a twentieth of a big blind to call.        *)
THEOREM SpotHandoffWithinTolerance == SpotSpec => []HandoffWithinTolerance
<1>1. QED
  BY SpotInvariant, HandoffFacts, PTL

\* Where a chip is more than that tolerance nothing is missed.
LEMMA HandoffExact ==
  ASSUME 5 * BigBlind < 100, SpotInv
  PROVE  HandoffIsTheHand
<1>1. HandoffWithinTolerance
  BY HandoffFacts
<1>2. ASSUME hand.street > 1 PROVE SeenFolding = flop.folded
  <2>1. HandOK(flop, start) /\ RoundPaid(flop)
    BY <1>2 DEF SpotInv
  <2>2. PICK top \in Nat :
         /\ Max(Range(flop.totalPaid)) = top
         /\ \A s \in flop.folded : flop.totalPaid[s] \in Nat /\ flop.totalPaid[s] < top
    BY <2>1, TopFacts
  <2>3. BigBlind \in Nat
    BY ReplayAssumption
  <2>4. \A s \in flop.folded : 100 * flop.totalPaid[s] + 5 * BigBlind < 100 * top
    BY <2>2, <2>3
  <2>5. QED
    BY <2>2, <2>4 DEF SeenFolding
<1>3. QED
  BY <1>1, <1>2 DEF HandoffIsTheHand, HandoffWithinTolerance

(* Where a chip is more than that tolerance the reconstruction is exact:   *)
(* wagers, folds, all-ins and stacks are those of the preflop round.       *)
THEOREM SpotHandoffIsTheHand ==
  ASSUME 5 * BigBlind < 100
  PROVE  SpotSpec => []HandoffIsTheHand
<1>1. SpotInv => HandoffIsTheHand
  BY HandoffExact
<1>2. QED
  BY <1>1, SpotInvariant, PTL

-----------------------------------------------------------------------------
(* The last check of an advised amount.                                    *)

\* The seat to act in numbers.
LEMMA HeroFacts ==
  ASSUME NEW h, HandOK(h, start), LeastRaise(h), NEW seat \in Seats, Actor(h) = seat
  PROVE  /\ ~h.closed
         /\ h.streetPaid[seat] \in Nat /\ h.remaining[seat] \in Nat \ {0}
         /\ h.highest \in Nat /\ h.lastFullRaise \in Nat /\ BigBlind \in Nat \ {0}
         /\ h.streetPaid[seat] <= h.highest
         /\ Facing(h, seat) = h.highest - h.streetPaid[seat]
         /\ MaxTarget(h, seat) = h.streetPaid[seat] + h.remaining[seat]
         /\ MayRaise(h, seat) =>
              h.lastFullRaise <= BigBlind \/ h.lastFullRaise <= Facing(h, seat)
<1>1. ~h.closed
  <2>1. Actor(h) # NoSeat
    BY SeatsFinite
  <2>2. QED
    BY <2>1 DEF Actor
<1>2. h \in HandType /\ ChipsOK(h, start) /\ h.remaining[seat] \in Nat \ {0}
  BY <1>1, ActorFacts
<1>3. BigBlind \in Nat \ {0}
  BY ReplayAssumption
<1>4. MayRaise(h, seat) => h.lastFullRaise <= BigBlind \/ h.lastFullRaise <= Facing(h, seat)
  BY DEF MayRaise, LeastRaise
<1>5. QED
  BY <1>1, <1>2, <1>3, <1>4 DEF HandType, ChipsOK, Facing, MaxTarget

\* What a button tells of the rules.
LEMMA ButtonFacts ==
  ASSUME NEW f, NEW h, h = f.hand, NEW seat \in Seats, Actor(h) = seat, hero = seat,
         HandOK(h, start), LeastRaise(h)
  PROVE  /\ "FOLD" \in Buttons(f) => Facing(h, seat) > 0
         /\ "CALL" \in Buttons(f) => Facing(h, seat) > 0
         /\ "CHECK" \in Buttons(f) => Facing(h, seat) = 0
         /\ "BET" \in Buttons(f) => MayRaise(h, seat) /\ h.highest = 0
         /\ "RAISE" \in Buttons(f) => MayRaise(h, seat) /\ h.highest > 0
         /\ "ALL-IN" \in Buttons(f) => MayRaise(h, seat) /\ MaxTarget(h, seat) > h.highest
<1>1. /\ h.streetPaid[seat] \in Nat /\ h.remaining[seat] \in Nat \ {0} /\ h.highest \in Nat
      /\ h.streetPaid[seat] <= h.highest
      /\ Facing(h, seat) = h.highest - h.streetPaid[seat]
      /\ MaxTarget(h, seat) = h.streetPaid[seat] + h.remaining[seat]
  BY HeroFacts
<1>2. PICK legal : legal = LegalActions(h)
  OBVIOUS
<1>3. seat # NoSeat
  BY SeatsFinite
<1>4. PICK facing \in Nat, room \in Int :
        facing = Facing(h, seat) /\ room = MaxTarget(h, seat) - h.highest
  <2>1. PICK paid \in Nat, left \in Nat, top \in Nat :
          paid = h.streetPaid[seat] /\ left = h.remaining[seat] /\ top = h.highest
    BY <1>1
  <2>2. top - paid \in Nat /\ (paid + left) - top \in Int
    BY <1>1, <2>1
  <2>3. Facing(h, seat) = top - paid /\ MaxTarget(h, seat) - h.highest = (paid + left) - top
    BY <1>1, <2>1
  <2>4. QED
    BY <2>2, <2>3
<1>5. PICK may \in BOOLEAN : may <=> MayRaise(h, seat)
  OBVIOUS
<1>6. legal = (IF facing > 0 THEN {"FOLD", "CALL"} ELSE {"CHECK"})
               \cup {k \in {"BET_TO"} : (may /\ room > 0) /\ h.highest = 0 /\ room >= BigBlind}
               \cup {k \in {"RAISE_TO"} : (may /\ room > 0) /\ h.highest > 0 /\ room >= h.lastFullRaise}
               \cup {k \in {"ALL_IN_TO"} : (may /\ room > 0) \/ (facing > 0 /\ h.remaining[seat] <= facing)}
  BY <1>2, <1>3, <1>4, <1>5 DEF LegalActions
<1>7. /\ "FOLD" \in legal => facing > 0
      /\ "CALL" \in legal => facing > 0
      /\ "CHECK" \in legal => ~(facing > 0)
      /\ "BET_TO" \in legal => may /\ h.highest = 0
      /\ "RAISE_TO" \in legal => may /\ h.highest > 0
      /\ "ALL_IN_TO" \in legal => may \/ h.remaining[seat] <= facing
  BY <1>6
<1>8. PICK sized : sized = {"BET_TO", "RAISE_TO"} \cap legal
  OBVIOUS
<1>9. PICK more \in BOOLEAN : more <=> MaxTarget(h, seat) > h.highest
  OBVIOUS
<1>10. Buttons(f) = (legal \cap {"FOLD", "CHECK", "CALL"})
        \cup {b \in {"BET"} : "BET_TO" \in sized}
        \cup {b \in {"RAISE"} : "RAISE_TO" \in sized}
        \cup {b \in {"ALL-IN"} : sized = {} /\ more /\ "ALL_IN_TO" \in legal}
  BY <1>2, <1>8, <1>9 DEF Buttons
<1>11. /\ "FOLD" \in Buttons(f) => "FOLD" \in legal
       /\ "CALL" \in Buttons(f) => "CALL" \in legal
       /\ "CHECK" \in Buttons(f) => "CHECK" \in legal
       /\ "BET" \in Buttons(f) => "BET_TO" \in legal
       /\ "RAISE" \in Buttons(f) => "RAISE_TO" \in legal
       /\ "ALL-IN" \in Buttons(f) => more /\ "ALL_IN_TO" \in legal
  BY <1>8, <1>10
<1>12. more => ~(h.remaining[seat] <= facing)
  BY <1>1, <1>4, <1>9
<1>13. ~(facing > 0) => facing = 0
  OBVIOUS
<1>14. QED
  BY <1>4, <1>5, <1>7, <1>9, <1>11, <1>12, <1>13

Sizes == {"BET", "RAISE", "ALL-IN"}

\* The event an action stands for.
LEMMA EventForCases ==
  ASSUME NEW a, Actor(hand) = hero
  PROVE  /\ a.kind = "FOLD" => EventFor(a) = Event(hand, "FOLD", NoAmount)
         /\ a.kind = "CHECK" => EventFor(a) = Event(hand, "CHECK", NoAmount)
         /\ a.kind = "CALL" => EventFor(a) = Event(hand, "CALL", CallTarget(hand, hero))
         /\ a.kind \in Sizes /\ a.to = MaxTarget(hand, hero) =>
              EventFor(a) = Event(hand, "ALL_IN_TO", a.to)
         /\ a.kind \in Sizes /\ a.to # MaxTarget(hand, hero) /\ hand.highest = 0 =>
              EventFor(a) = Event(hand, "BET_TO", a.to)
         /\ a.kind \in Sizes /\ a.to # MaxTarget(hand, hero) /\ hand.highest # 0 =>
              EventFor(a) = Event(hand, "RAISE_TO", a.to)
<1>1. PICK most : most = MaxTarget(hand, hero)
  OBVIOUS
<1>2. /\ a.kind = "FOLD" => a.kind \in {"FOLD", "CHECK"} /\ a.kind # "CALL"
      /\ a.kind = "CHECK" => a.kind \in {"FOLD", "CHECK"} /\ a.kind # "CALL"
      /\ a.kind = "CALL" => a.kind \notin {"FOLD", "CHECK"}
      /\ a.kind \in {"FOLD", "CHECK"} => a.kind \in {"FOLD", "CHECK", "CALL"}
      /\ a.kind = "CALL" => a.kind \in {"FOLD", "CHECK", "CALL"}
      /\ a.kind \in Sizes =>
           a.kind \notin {"FOLD", "CHECK"} /\ a.kind # "CALL" /\ a.kind \notin {"FOLD", "CHECK", "CALL"}
  BY DEF Sizes
<1>3. EventFor(a) =
        CASE a.kind \in {"FOLD", "CHECK"} -> Event(hand, a.kind, NoAmount)
          [] a.kind = "CALL" -> Event(hand, "CALL", CallTarget(hand, hero))
          [] a.kind \notin {"FOLD", "CHECK", "CALL"} /\ a.to = most -> Event(hand, "ALL_IN_TO", most)
          [] OTHER -> Event(hand, IF hand.highest = 0 THEN "BET_TO" ELSE "RAISE_TO", a.to)
  BY <1>1, Zenon DEF EventFor, Event
<1>4. a.kind = "FOLD" => EventFor(a) = Event(hand, "FOLD", NoAmount)
  BY <1>2, <1>3, Zenon
<1>5. a.kind = "CHECK" => EventFor(a) = Event(hand, "CHECK", NoAmount)
  BY <1>2, <1>3, Zenon
<1>6. a.kind = "CALL" => EventFor(a) = Event(hand, "CALL", CallTarget(hand, hero))
  BY <1>2, <1>3, Zenon
<1>7. a.kind \in Sizes /\ a.to = most => EventFor(a) = Event(hand, "ALL_IN_TO", a.to)
  BY <1>2, <1>3, Zenon
<1>8. a.kind \in Sizes /\ a.to # most =>
        EventFor(a) = Event(hand, IF hand.highest = 0 THEN "BET_TO" ELSE "RAISE_TO", a.to)
  BY <1>2, <1>3, Zenon
<1>9. QED
  BY <1>1, <1>4, <1>5, <1>6, <1>7, <1>8

\* What the check asks of an amount.
LEMMA SizeFacts ==
  ASSUME NEW f, NEW a, ValidateActionSize(f, a)
  PROVE  /\ a.kind = "CALL" => CallAmount(f) > 0
         /\ a.kind = "BET" =>
              /\ a.to > 0 /\ a.to <= Stack(f, hero) + Bet(f, hero)
              /\ a.to >= Lesser(BigBlind, Stack(f, hero) + Bet(f, hero))
         /\ a.kind = "RAISE" =>
              /\ a.to <= Stack(f, hero) + Bet(f, hero) /\ a.to > f.hand.highest
              /\ \/ a.to >= f.hand.highest + Greater(BigBlind, CallAmount(f))
                 \/ a.to = Stack(f, hero) + Bet(f, hero)
<1>1. /\ a.kind = "CALL" => a.kind \notin {"CHECK", "FOLD"} /\ a.kind # "BET" /\ a.kind # "RAISE"
      /\ a.kind = "BET" => a.kind \notin {"CHECK", "FOLD"} /\ a.kind # "CALL" /\ a.kind # "RAISE"
      /\ a.kind = "RAISE" => a.kind \notin {"CHECK", "FOLD"} /\ a.kind # "CALL" /\ a.kind # "BET"
  OBVIOUS
<1>2. PICK total, least : /\ total = Stack(f, hero) + Bet(f, hero)
                          /\ least = f.hand.highest + Greater(BigBlind, CallAmount(f))
  OBVIOUS
<1>3. (CASE a.kind \in {"CHECK", "FOLD"} -> a.to = NoAmount
        [] a.kind = "CALL" -> CallAmount(f) > 0
        [] a.kind = "BET" ->
             a.to > 0 /\ a.to <= total /\ a.to >= Lesser(BigBlind, total)
        [] a.kind = "RAISE" ->
             /\ a.to <= total /\ a.to > f.hand.highest
             /\ a.to >= least \/ a.to = total)
  BY <1>2, Zenon DEF ValidateActionSize
<1>4. a.kind = "CALL" => CallAmount(f) > 0
  BY <1>1, <1>3, Zenon
<1>5. a.kind = "BET" => a.to > 0 /\ a.to <= total /\ a.to >= Lesser(BigBlind, total)
  BY <1>1, <1>3, Zenon
<1>6. a.kind = "RAISE" => /\ a.to <= total /\ a.to > f.hand.highest
                          /\ a.to >= least \/ a.to = total
  BY <1>1, <1>3, Zenon
<1>7. QED
  BY <1>2, <1>4, <1>5, <1>6

LEMMA CheckedFacts ==
  ASSUME SpotInv, Asked, NEW a \in AdvisedActions,
         ValidateStrategyAmount(Last(frames), Buttons(Last(frames)), a)
  PROVE  Playable(a)
<1>1. PICK f : f = Last(frames)
  OBVIOUS
<1>2. f.hand = hand /\ hero \in Seats /\ HandOK(hand, start) /\ LeastRaise(hand)
  BY <1>1 DEF SpotInv, HandSeen, Asked
<1>3. Actor(hand) = hero
  <2>1. PICK S : frames \in Seq(S)
    BY DEF SpotInv
  <2>2. frames # <<>>
    BY DEF Asked
  <2>3. Len(frames) \in 1..Len(frames) /\ f = frames[Len(frames)]
    BY <1>1, <2>1, <2>2 DEF Last
  <2>4. Actor(f.hand) = hero
    BY <2>3 DEF SpotInv
  <2>5. QED
    BY <1>2, <2>4
<1>4. PICK seat \in Seats : seat = hero
  BY <1>2
<1>5. PICK h : h = hand
  OBVIOUS
<1>6. PICK may \in BOOLEAN : may <=> MayRaise(h, seat)
  OBVIOUS
<1>7. /\ ~h.closed
      /\ h.streetPaid[seat] \in Nat /\ h.remaining[seat] \in Nat \ {0}
      /\ h.highest \in Nat /\ h.lastFullRaise \in Nat /\ BigBlind \in Nat \ {0}
      /\ h.streetPaid[seat] <= h.highest
      /\ Facing(h, seat) = h.highest - h.streetPaid[seat]
      /\ MaxTarget(h, seat) = h.streetPaid[seat] + h.remaining[seat]
      /\ MayRaise(h, seat) =>
           h.lastFullRaise <= BigBlind \/ h.lastFullRaise <= Facing(h, seat)
  BY <1>2, <1>3, <1>4, <1>5, HeroFacts
<1>8. PICK paid \in Nat, left \in Nat \ {0}, top \in Nat :
        paid = h.streetPaid[seat] /\ left = h.remaining[seat] /\ top = h.highest
  BY <1>7
<1>9. PICK full \in Nat, blind \in Nat \ {0} : full = h.lastFullRaise /\ blind = BigBlind
  BY <1>7
<1>10. PICK most \in Nat, facing \in Nat : most = paid + left /\ facing = top - paid
  <2>1. paid + left \in Nat /\ top - paid \in Nat
    BY <1>7, <1>8
  <2>2. QED
    BY <2>1
<1>11. /\ paid = h.streetPaid[seat] /\ left = h.remaining[seat] /\ top = h.highest
       /\ full = h.lastFullRaise /\ blind = BigBlind
       /\ most = MaxTarget(h, seat) /\ most = paid + left
       /\ facing = Facing(h, seat) /\ facing = top - paid /\ paid <= top
       /\ may => full <= blind \/ full <= facing
       /\ ~h.closed
  BY <1>7, <1>8, <1>9, <1>10, <1>6
<1>12. ASSUME NEW to
      PROVE  /\ Accepts(h, Event(h, "FOLD", to)) <=> to = NoAmount /\ facing > 0
             /\ Accepts(h, Event(h, "CHECK", to)) <=> to = NoAmount /\ facing = 0
             /\ Accepts(h, Event(h, "CALL", to)) <=> facing > 0 /\ to = CallTarget(h, seat)
             /\ Accepts(h, Event(h, "BET_TO", to)) <=>
                  top = 0 /\ to > paid /\ to <= most /\ to - paid >= blind
             /\ Accepts(h, Event(h, "RAISE_TO", to)) <=>
                  /\ top > 0 /\ may
                  /\ to > top /\ to <= most /\ to - top >= full
             /\ Accepts(h, Event(h, "ALL_IN_TO", to)) <=>
                  /\ to = most /\ to > paid
                  /\ to > top => may
  <2>1. HandOK(h, start) /\ ~h.closed /\ seat = Actor(h)
    BY <1>2, <1>3, <1>4, <1>5, <1>11
  <2>2. /\ Accepts(h, Event(h, "FOLD", to)) <=> to = NoAmount /\ Facing(h, seat) > 0
        /\ Accepts(h, Event(h, "CHECK", to)) <=> to = NoAmount /\ Facing(h, seat) = 0
        /\ Accepts(h, Event(h, "CALL", to)) <=> Facing(h, seat) > 0 /\ to = CallTarget(h, seat)
        /\ Accepts(h, Event(h, "BET_TO", to)) <=>
             /\ h.highest = 0 /\ to > h.streetPaid[seat] /\ to <= MaxTarget(h, seat)
             /\ to - h.streetPaid[seat] >= BigBlind
        /\ Accepts(h, Event(h, "RAISE_TO", to)) <=>
             /\ h.highest > 0 /\ MayRaise(h, seat)
             /\ to > h.highest /\ to <= MaxTarget(h, seat)
             /\ to - h.highest >= h.lastFullRaise
        /\ Accepts(h, Event(h, "ALL_IN_TO", to)) <=>
             /\ to = MaxTarget(h, seat) /\ to > h.streetPaid[seat]
             /\ to > h.highest => MayRaise(h, seat)
    BY <2>1, AcceptsCases
  <2>3. QED
    BY <1>11, <1>6, <2>2
<1>13. /\ "FOLD" \in Buttons(f) => facing > 0
       /\ "CALL" \in Buttons(f) => facing > 0
       /\ "CHECK" \in Buttons(f) => facing = 0
       /\ "BET" \in Buttons(f) => may /\ top = 0
       /\ "RAISE" \in Buttons(f) => may /\ top > 0
       /\ "ALL-IN" \in Buttons(f) => may /\ most > top
  BY <1>2, <1>3, <1>4, <1>5, <1>11, <1>6, ButtonFacts
<1>14. Stack(f, hero) + Bet(f, hero) = left + paid /\ CallAmount(f) = Lesser(facing, left)
  BY <1>2, <1>4, <1>5, <1>11 DEF Stack, Bet, CallAmount
<1>15. PICK owed \in Nat : owed = Lesser(facing, left) /\ owed = CallAmount(f)
  BY <1>14 DEF Lesser
<1>16. /\ a.kind \in {"FOLD", "CHECK", "CALL"} \/ (a.kind \in {"BET", "RAISE"} /\ a.to \in Amounts)
       /\ a.kind \in Buttons(f) \/ ("ALL-IN" \in Buttons(f) /\ a.to = left + paid
                                     /\ a.kind \in {"BET", "RAISE"})
       /\ ValidateActionSize(f, a)
  BY <1>1, <1>14 DEF AdvisedActions, ValidateStrategyAmount
<1>17. PICK buttons : buttons = Buttons(f)
  OBVIOUS
<1>18. /\ a.kind = "FOLD" => facing > 0
       /\ a.kind = "CALL" => facing > 0
       /\ a.kind = "CHECK" => facing = 0
  <2>1. a.kind \in {"FOLD", "CHECK", "CALL"} => a.kind \in buttons
    BY <1>16, <1>17
  <2>2. /\ "FOLD" \in buttons => facing > 0
        /\ "CALL" \in buttons => facing > 0
        /\ "CHECK" \in buttons => facing = 0
    BY <1>13, <1>17, Zenon
  <2>3. QED
    BY <2>1, <2>2
<1>19. a.kind \in {"BET", "RAISE"} =>
         /\ may
         /\ a.to = left + paid \/ ((a.kind = "BET" => top = 0) /\ (a.kind = "RAISE" => top > 0))
  <2>1. a.kind \in buttons \/ ("ALL-IN" \in buttons /\ a.to = left + paid)
    BY <1>16, <1>17
  <2>2. /\ "BET" \in buttons => may /\ top = 0
        /\ "RAISE" \in buttons => may /\ top > 0
        /\ "ALL-IN" \in buttons => may
    BY <1>13, <1>17, Zenon
  <2>3. QED
    BY <2>1, <2>2
<1>20. CASE a.kind = "FOLD"
  <2>1. EventFor(a) = Event(h, "FOLD", NoAmount) /\ facing > 0
    BY <1>3, <1>4, <1>5, <1>18, <1>20, EventForCases
  <2>2. QED
    BY <1>4, <1>5, <1>12, <2>1 DEF Playable
<1>21. CASE a.kind = "CHECK"
  <2>1. EventFor(a) = Event(h, "CHECK", NoAmount) /\ facing = 0
    BY <1>3, <1>4, <1>5, <1>18, <1>21, EventForCases
  <2>2. QED
    BY <1>4, <1>5, <1>12, <2>1 DEF Playable
<1>22. CASE a.kind = "CALL"
  <2>1. EventFor(a) = Event(h, "CALL", CallTarget(h, seat)) /\ facing > 0
    BY <1>3, <1>4, <1>5, <1>18, <1>22, EventForCases
  <2>2. QED
    BY <1>4, <1>5, <1>12, <2>1 DEF Playable
<1>23. CASE a.kind \in {"BET", "RAISE"}
  <2>1. PICK to \in Nat : to = a.to
    <3>1. a.to \in Nat
      BY <1>16, <1>23, StacksFacts DEF Amounts
    <3>2. QED
      BY <3>1
  <2>2. may
    BY <1>19, <1>23
  <2>3. /\ a.kind = "BET" => to > 0 /\ to <= left + paid /\ to >= Lesser(blind, left + paid)
        /\ a.kind = "RAISE" =>
             /\ to <= left + paid /\ to > top
             /\ to >= top + Greater(blind, owed) \/ to = left + paid
    BY <1>2, <1>4, <1>5, <1>11, <1>14, <1>15, <1>16, <2>1, SizeFacts
  <2>4. CASE to = left + paid
    <3>1. EventFor(a) = Event(h, "ALL_IN_TO", to)
      <4>1. a.to = MaxTarget(hand, hero)
        BY <1>4, <1>5, <1>11, <2>1, <2>4
      <4>2. QED
        BY <1>3, <1>4, <1>5, <1>23, <2>1, <4>1, EventForCases DEF Sizes
    <3>2. to = most /\ to > paid
      BY <1>11, <2>4
    <3>3. Accepts(h, Event(h, "ALL_IN_TO", to))
      BY <1>12, <2>2, <3>2
    <3>4. QED
      BY <1>4, <1>5, <3>1, <3>3 DEF Playable
  <2>5. CASE to # left + paid /\ a.kind = "BET"
    <3>1. top = 0
      BY <1>19, <1>23, <2>1, <2>5
    <3>2. EventFor(a) = Event(h, "BET_TO", to)
      <4>1. a.to # MaxTarget(hand, hero) /\ hand.highest = 0
        BY <1>4, <1>5, <1>11, <2>1, <2>5, <3>1
      <4>2. QED
        BY <1>3, <1>4, <1>5, <1>23, <2>1, <4>1, EventForCases DEF Sizes
    <3>3. paid = 0 /\ to <= most /\ to >= blind
      BY <1>11, <2>3, <2>5, <3>1 DEF Lesser
    <3>4. to > paid /\ to - paid >= blind
      BY <3>3
    <3>5. Accepts(h, Event(h, "BET_TO", to))
      BY <1>12, <3>1, <3>3, <3>4
    <3>6. QED
      BY <1>4, <1>5, <3>2, <3>5 DEF Playable
  <2>6. CASE to # left + paid /\ a.kind = "RAISE"
    <3>1. top > 0
      BY <1>19, <1>23, <2>1, <2>6
    <3>2. EventFor(a) = Event(h, "RAISE_TO", to)
      <4>1. a.to # MaxTarget(hand, hero) /\ hand.highest # 0
        BY <1>4, <1>5, <1>11, <2>1, <2>6, <3>1
      <4>2. QED
        BY <1>3, <1>4, <1>5, <1>23, <2>1, <4>1, EventForCases DEF Sizes
    <3>3. to <= most /\ to > top /\ to >= top + Greater(blind, owed)
      BY <1>11, <2>3, <2>6
    <3>4. owed = facing
      <4>1. left > facing
        BY <1>11, <3>3
      <4>2. QED
        BY <1>15, <4>1 DEF Lesser
    <3>5. to - top >= full
      BY <1>11, <2>2, <3>3, <3>4 DEF Greater
    <3>6. Accepts(h, Event(h, "RAISE_TO", to))
      BY <1>12, <2>2, <3>1, <3>3, <3>5
    <3>7. QED
      BY <1>4, <1>5, <3>2, <3>6 DEF Playable
  <2>7. QED
    BY <1>23, <2>4, <2>5, <2>6
<1>24. QED
  BY <1>16, <1>20, <1>21, <1>22, <1>23

(* An advised amount that passes the last check is one the table accepts:  *)
(* what Hero has to call is never less than the last full raise where Hero *)
(* may raise, unless that was no more than a big blind.                    *)
THEOREM SpotCheckedAmountsArePlayable == SpotSpec => [](Asked => CheckedAmountsArePlayable)
<1>1. SpotInv => (Asked => CheckedAmountsArePlayable)
  BY CheckedFacts DEF CheckedAmountsArePlayable
<1>2. QED
  BY <1>1, SpotInvariant, PTL

(* Second part: the line of the blueprint.                                  *)
-----------------------------------------------------------------------------
(* The betting rules of the blueprint, and those of the engine: a state of *)
(* the blueprint is what View() keeps of the hand.                         *)
View(h) ==
  [paid |-> h.streetPaid, folded |-> h.folded, allIn |-> h.allIn, pending |-> h.pending,
   highest |-> h.highest, lastFullRaise |-> h.lastFullRaise, terminal |-> h.closed]

RoundType ==
  [paid : [Seats -> Nat], folded : SUBSET Seats, allIn : SUBSET Seats, pending : Seq(Seats),
   highest : Nat, lastFullRaise : Nat \ {0}, terminal : BOOLEAN]

\* A hand of equal stacks, in the round before the flop.
EvenRound(h, stacks, stack) ==
  /\ h \in HandType /\ ChipsOK(h, stacks) /\ stack \in Nat
  /\ \A s \in Seats : stacks[s] = stack /\ h.totalPaid[s] = h.streetPaid[s]

LEMMA EvenFacts ==
  ASSUME NEW h, NEW stacks, NEW stack, EvenRound(h, stacks, stack)
  PROVE  /\ h \in HandType /\ stack \in Nat /\ h.highest \in Nat /\ h.highest <= stack
         /\ \A s \in Seats : /\ h.streetPaid[s] \in Nat /\ h.remaining[s] \in Nat
                             /\ h.remaining[s] + h.streetPaid[s] = stack
                             /\ h.streetPaid[s] <= h.highest
                             /\ s \in h.allIn <=> h.streetPaid[s] = stack
<1>1. /\ h \in HandType /\ stack \in Nat /\ h.highest \in Nat
      /\ h.streetPaid \in [Seats -> Nat] /\ h.remaining \in [Seats -> Nat]
      /\ h.totalPaid \in [Seats -> Nat]
  BY DEF EvenRound, HandType
<1>2. ASSUME NEW s \in Seats
      PROVE  /\ h.streetPaid[s] \in Nat /\ h.remaining[s] \in Nat
             /\ h.remaining[s] + h.streetPaid[s] = stack /\ h.streetPaid[s] <= h.highest
             /\ s \in h.allIn <=> h.streetPaid[s] = stack
  <2>1. h.streetPaid[s] \in Nat /\ h.remaining[s] \in Nat
    BY <1>1
  <2>2. /\ h.remaining[s] + h.streetPaid[s] = stack /\ h.streetPaid[s] <= h.highest
        /\ s \in h.allIn <=> h.remaining[s] = 0
    BY DEF EvenRound, ChipsOK
  <2>3. h.remaining[s] = 0 <=> h.streetPaid[s] = stack
    BY <1>1, <2>1, <2>2
  <2>4. QED
    BY <2>1, <2>2, <2>3
<1>3. h.highest <= stack
  <2>1. PICK s \in Seats : h.streetPaid[s] = h.highest
    BY DEF EvenRound, ChipsOK
  <2>2. QED
    BY <1>1, <1>2, <2>1
<1>4. QED
  BY <1>1, <1>2, <1>3

LEMMA ViewFacts ==
  ASSUME NEW h \in HandType
  PROVE  /\ View(h) \in RoundType
         /\ View(Ended(h)) = View(h)
         /\ LiveSeats(View(h)) = Live(h) /\ LiveSeats(View(h)) \ View(h).allIn = Eligible(h)
         /\ ActorOf(View(h)) = Actor(h)
<1>1. View(h) \in RoundType
  BY DEF View, RoundType, HandType
<1>2. View(Ended(h)) = View(h)
  <2>1. PICK over : Ended(h) = [h EXCEPT !.terminal = over]
    BY DEF Ended
  <2>2. QED
    BY <2>1 DEF View, HandType
<1>3. LiveSeats(View(h)) = Live(h) /\ View(h).allIn = h.allIn
  BY DEF View, LiveSeats, Live
<1>4. ActorOf(View(h)) = Actor(h)
  BY DEF View, ActorOf, Actor
<1>5. QED
  BY <1>1, <1>2, <1>3, <1>4 DEF Eligible

LEMMA SameView ==
  ASSUME NEW r \in RoundType, NEW s \in RoundType, r.paid = s.paid, r.folded = s.folded,
         r.allIn = s.allIn, r.pending = s.pending, r.highest = s.highest,
         r.lastFullRaise = s.lastFullRaise, r.terminal = s.terminal
  PROVE  r = s
BY DEF RoundType

Stopped(x, q, c) == [x EXCEPT !.pending = q, !.closed = c]
Won(x, q, c) == [x EXCEPT !.pending = q, !.closed = c, !.terminal = TRUE]
StoppedRound(v, q, c) == [v EXCEPT !.pending = q, !.terminal = c]

LEMMA ClosingView ==
  ASSUME NEW x \in HandType, NEW q \in Seq(Seats), NEW c \in BOOLEAN
  PROVE  /\ View(Stopped(x, q, c)) = StoppedRound(View(x), q, c)
         /\ View(Won(x, q, c)) = StoppedRound(View(x), q, c)
<1> SUFFICES ASSUME NEW g, g = Stopped(x, q, c) \/ g = Won(x, q, c)
             PROVE  View(g) = StoppedRound(View(x), q, c)
  OBVIOUS
<1>1. /\ g \in HandType
      /\ g.streetPaid = x.streetPaid /\ g.folded = x.folded /\ g.allIn = x.allIn
      /\ g.highest = x.highest /\ g.lastFullRaise = x.lastFullRaise
      /\ g.pending = q /\ g.closed = c
  BY DEF HandType, Stopped, Won
<1>2. PICK v \in RoundType : v = View(x)
  BY ViewFacts
<1>3. PICK w : w = StoppedRound(v, q, c)
  OBVIOUS
<1>4. /\ w \in RoundType /\ w.paid = v.paid /\ w.folded = v.folded /\ w.allIn = v.allIn
      /\ w.highest = v.highest /\ w.lastFullRaise = v.lastFullRaise
      /\ w.pending = q /\ w.terminal = c
  BY <1>3 DEF RoundType, StoppedRound
<1>5. View(g) \in RoundType
  BY <1>1, ViewFacts
<1>6. /\ w.paid = View(g).paid /\ w.folded = View(g).folded /\ w.allIn = View(g).allIn
      /\ w.highest = View(g).highest /\ w.lastFullRaise = View(g).lastFullRaise
      /\ w.pending = View(g).pending /\ w.terminal = View(g).terminal
  BY <1>1, <1>2, <1>4 DEF View
<1>7. View(g) = w
  BY <1>4, <1>5, <1>6, SameView
<1>8. QED
  BY <1>2, <1>3, <1>7

(* How a round ends: the blueprint asks until nobody is left to ask, and   *)
(* so does the engine, which also asks nobody who has no one to bet with:  *)
(* with equal stacks there is no such player who owes nothing.             *)
LEMMA NormalizeIsAfterAction ==
  ASSUME NEW stacks, NEW stack, NEW x, EvenRound(x, stacks, stack), ~x.closed,
         IsInjective(x.pending)
  PROVE  View(Ended(NormalizeRound(x))) = AfterAction(View(x))
<1> DEFINE v == View(x)
           eligible == Eligible(x)
           kept == Kept(x.pending, eligible)
           settled == \/ eligible = {}
                      \/ \E only \in eligible :
                           eligible = {only} /\ x.streetPaid[only] >= x.highest
<1>1. x \in HandType /\ x.pending \in Seq(Seats) /\ <<>> \in Seq(Seats)
  BY EvenFacts DEF HandType
<1>0. kept \in Seq(Seats)
  BY <1>1, KeptFacts DEF KeptRight
<1>2. /\ LiveSeats(v) = Live(x) /\ LiveSeats(v) \ v.allIn = eligible
      /\ v.pending = x.pending /\ v.terminal = x.closed /\ v \in RoundType
  BY <1>1, ViewFacts DEF View
<1>3. settled /\ ~(Cardinality(Live(x)) <= 1) => kept = <<>>
  <2>1. ASSUME NEW only \in eligible, eligible = {only}, x.streetPaid[only] >= x.highest,
               ~(Cardinality(Live(x)) <= 1)
        PROVE  FALSE
    <3>1. only \in Seats /\ only \in Live(x) /\ only \notin x.allIn
      BY <2>1 DEF Eligible, Live
    <3>2. Live(x) # {only}
      <4>1. Cardinality({only}) = 1
        BY FS_Singleton
      <4>2. QED
        BY <2>1, <4>1
    <3>3. PICK s \in Live(x) : s # only
      BY <3>1, <3>2
    <3>4. s \in Seats /\ s \in x.allIn
      BY <2>1, <3>3 DEF Eligible, Live
    <3>5. x.streetPaid[s] = stack /\ x.streetPaid[s] <= x.highest /\ x.highest <= stack
      BY <3>4, EvenFacts
    <3>6. x.streetPaid[only] \in Nat /\ x.streetPaid[only] <= x.highest /\ x.highest \in Nat
      BY <3>1, EvenFacts
    <3>7. x.streetPaid[only] # stack
      BY <3>1, EvenFacts
    <3>8. QED
      BY <2>1, <3>5, <3>6, <3>7, EvenFacts
  <2>2. ASSUME eligible = {} PROVE kept = <<>>
    <3>1. KeptRight(kept, x.pending, eligible, Len(x.pending))
      BY <1>1, KeptFacts
    <3>2. kept \in Seq(Seats) /\ \A j \in 1..Len(kept) : kept[j] \in eligible
      BY <3>1 DEF KeptRight
    <3> HIDE DEF kept
    <3>3. Len(kept) \in Nat /\ ~(Len(kept) >= 1)
      BY <2>2, <3>2
    <3>4. QED
      BY <3>2, <3>3
  <2>3. QED
    BY <2>1, <2>2
<1> DEFINE Ends(q, c) ==
             /\ AfterAction(v) = StoppedRound(v, q, c)
             /\ NormalizeRound(x) = Stopped(x, q, c) \/ NormalizeRound(x) = Won(x, q, c)
<1> HIDE DEF v, kept, settled
<1>4. ASSUME Cardinality(Live(x)) <= 1 PROVE \E q \in Seq(Seats), c \in BOOLEAN : Ends(q, c)
  <2>1. NormalizeRound(x) = Won(x, <<>>, TRUE)
    BY <1>4, Zenon DEF NormalizeRound, Won
  <2>2. AfterAction(v) = StoppedRound(v, <<>>, TRUE)
    BY <1>2, <1>4, Zenon DEF AfterAction, StoppedRound
  <2>3. Ends(<<>>, TRUE)
    BY <2>1, <2>2
  <2> HIDE DEF Ends
  <2>4. QED
    BY <1>1, <2>3
<1>5. ASSUME ~(Cardinality(Live(x)) <= 1)
      PROVE  \E q \in Seq(Seats), c \in BOOLEAN : Ends(q, c)
  <2>0. PICK c \in BOOLEAN : c <=> kept = <<>>
    OBVIOUS
  <2>1. AfterAction(v) = StoppedRound(v, kept, c)
    <3>1. AfterAction(v) = StoppedRound(v, kept, kept = <<>>)
      BY <1>2, <1>5, Zenon DEF AfterAction, StoppedRound, kept
    <3>2. QED
      BY <2>0, <3>1
  <2>2. CASE settled
    <3>1. NormalizeRound(x) = Stopped(x, <<>>, TRUE)
      BY <1>5, <2>2, Zenon DEF NormalizeRound, Stopped, settled
    <3>2. AfterAction(v) = StoppedRound(v, <<>>, TRUE)
      BY <1>3, <1>5, <2>0, <2>1, <2>2
    <3>3. Ends(<<>>, TRUE)
      BY <3>1, <3>2
    <3> HIDE DEF Ends
    <3>4. QED
      BY <1>1, <3>3
  <2>3. CASE ~settled
    <3>1. NormalizeRound(x) = Stopped(x, kept, x.closed \/ kept = <<>>)
      BY <1>5, <2>3, Zenon DEF NormalizeRound, Stopped, settled, kept
    <3>2. NormalizeRound(x) = Stopped(x, kept, c)
      <4>1. (x.closed \/ kept = <<>>) = c
        BY <1>1, <2>0 DEF HandType
      <4>2. QED
        BY <3>1, <4>1
    <3>3. Ends(kept, c)
      BY <2>1, <3>2
    <3> HIDE DEF Ends
    <3>4. QED
      BY <1>0, <3>3
  <2>4. QED
    BY <2>2, <2>3
<1>6. PICK q \in Seq(Seats), c \in BOOLEAN : Ends(q, c)
  <2> HIDE DEF Ends
  <2>1. QED
    BY <1>4, <1>5
<1>7. /\ View(Stopped(x, q, c)) = StoppedRound(View(x), q, c)
      /\ View(Won(x, q, c)) = StoppedRound(View(x), q, c)
  <2> HIDE DEF Ends
  <2>1. x \in HandType /\ q \in Seq(Seats) /\ c \in BOOLEAN
    BY <1>1, <1>6
  <2>2. QED
    BY <2>1, ClosingView
<1>8. View(NormalizeRound(x)) = AfterAction(View(x))
  BY <1>6, <1>7, Zenon DEF v
<1>9. NormalizeRound(x) \in HandType
  <2>1. Stopped(x, q, c) \in HandType /\ Won(x, q, c) \in HandType
    BY <1>1 DEF HandType, Stopped, Won
  <2>2. QED
    BY <1>6, <2>1
<1>10. QED
  BY <1>8, <1>9, ViewFacts

-----------------------------------------------------------------------------
(* An action, label by label.                                              *)
FoldedRound(s, seat) == [s EXCEPT !.folded = @ \cup {seat}]
PaidRound(s, seat, amount, jam) ==
  [s EXCEPT !.paid[seat] = amount, !.allIn = IF jam THEN @ \cup {seat} ELSE @]

LEMMA PassedView ==
  ASSUME NEW stacks, NEW stack, NEW x, EvenRound(x, stacks, stack), ~x.closed,
         IsInjective(x.pending), x.pending # <<>>, NEW seat \in Seats
  PROVE  View(Ended(PassiveComplete(x, seat))) = AfterAction(Passed(View(x)))
<1>1. x \in HandType /\ x.pending \in Seq(Seats)
  BY DEF EvenRound, HandType
<1>2. PICK acted \in SUBSET Seats : acted = x.acted \cup {seat}
  BY <1>1 DEF HandType
<1>3. PICK tail \in Seq(Seats) : tail = Tail(x.pending) /\ IsInjective(tail)
  BY <1>1, TailFacts
<1>4. PICK y : y = [x EXCEPT !.acted = acted, !.pending = tail]
  OBVIOUS
<1>5. /\ y \in HandType /\ y.pending = tail /\ ~y.closed /\ y.terminal = x.terminal
      /\ y.streetPaid = x.streetPaid /\ y.totalPaid = x.totalPaid /\ y.remaining = x.remaining
      /\ y.folded = x.folded /\ y.allIn = x.allIn /\ y.highest = x.highest
      /\ y.lastFullRaise = x.lastFullRaise /\ y.closed = x.closed
  BY <1>1, <1>4 DEF HandType
<1>6. EvenRound(y, stacks, stack)
  BY <1>5 DEF EvenRound, ChipsOK
<1>7. View(Ended(NormalizeRound(y))) = AfterAction(View(y))
  BY <1>3, <1>5, <1>6, NormalizeIsAfterAction
<1>8. PassiveComplete(x, seat) = NormalizeRound(y)
  BY <1>2, <1>3, <1>4 DEF PassiveComplete
<1>9. View(y) = Passed(View(x))
  <2>1. PICK v \in RoundType : v = View(x)
    BY <1>1, ViewFacts
  <2>2. v.pending = x.pending
    BY <2>1 DEF View
  <2>3. PICK w : w = [v EXCEPT !.pending = tail]
    OBVIOUS
  <2>4. /\ w \in RoundType /\ w.paid = v.paid /\ w.folded = v.folded /\ w.allIn = v.allIn
        /\ w.highest = v.highest /\ w.lastFullRaise = v.lastFullRaise
        /\ w.pending = tail /\ w.terminal = v.terminal
    BY <2>3 DEF RoundType
  <2>5. View(y) \in RoundType
    BY <1>5, ViewFacts
  <2>6. /\ w.paid = View(y).paid /\ w.folded = View(y).folded /\ w.allIn = View(y).allIn
        /\ w.highest = View(y).highest /\ w.lastFullRaise = View(y).lastFullRaise
        /\ w.pending = View(y).pending /\ w.terminal = View(y).terminal
    BY <1>5, <2>1, <2>4 DEF View
  <2>7. View(y) = w
    BY <2>4, <2>5, <2>6, SameView
  <2>8. Passed(v) = w
    BY <1>3, <2>2, <2>3 DEF Passed
  <2>9. QED
    BY <2>1, <2>7, <2>8
<1>10. QED
  BY <1>7, <1>8, <1>9

LEMMA FoldedView ==
  ASSUME NEW h \in HandType, NEW seat \in Seats, NEW x, x = [h EXCEPT !.folded = @ \cup {seat}]
  PROVE  View(x) = FoldedRound(View(h), seat)
<1>1. PICK folded \in SUBSET Seats : folded = h.folded \cup {seat}
  BY DEF HandType
<1>2. /\ x \in HandType /\ x.folded = folded /\ x.streetPaid = h.streetPaid
      /\ x.allIn = h.allIn /\ x.pending = h.pending /\ x.highest = h.highest
      /\ x.lastFullRaise = h.lastFullRaise /\ x.closed = h.closed
  BY <1>1 DEF HandType
<1>3. PICK v \in RoundType : v = View(h)
  BY ViewFacts
<1>4. PICK w : w = [v EXCEPT !.folded = folded]
  OBVIOUS
<1>5. /\ w \in RoundType /\ w.paid = v.paid /\ w.folded = folded /\ w.allIn = v.allIn
      /\ w.highest = v.highest /\ w.lastFullRaise = v.lastFullRaise
      /\ w.pending = v.pending /\ w.terminal = v.terminal
  BY <1>4 DEF RoundType
<1>6. View(x) \in RoundType
  BY <1>2, ViewFacts
<1>7. /\ w.paid = View(x).paid /\ w.folded = View(x).folded /\ w.allIn = View(x).allIn
      /\ w.highest = View(x).highest /\ w.lastFullRaise = View(x).lastFullRaise
      /\ w.pending = View(x).pending /\ w.terminal = View(x).terminal
  BY <1>2, <1>3, <1>5 DEF View
<1>8. View(x) = w
  BY <1>5, <1>6, <1>7, SameView
<1>9. v.folded \cup {seat} = folded
  BY <1>1, <1>3 DEF View
<1>10. FoldedRound(v, seat) = w
  BY <1>4, <1>9 DEF FoldedRound
<1>11. QED
  BY <1>3, <1>8, <1>10

\* What a payment changes, whether or not it is a raise.
HasPaid(y, h, seat, to, stacks, stack) ==
  /\ y \in HandType /\ y.street = h.street /\ y.folded = h.folded
  /\ y.highest = h.highest /\ y.lastFullRaise = h.lastFullRaise
  /\ y.acted = h.acted /\ y.pending = h.pending
  /\ y.closed = h.closed /\ y.terminal = h.terminal
  /\ y.streetPaid = [h.streetPaid EXCEPT ![seat] = to]
  /\ y.allIn = IF to = stack THEN h.allIn \cup {seat} ELSE h.allIn
  /\ \A s \in Seats : /\ y.totalPaid[s] = y.streetPaid[s]
                      /\ y.remaining[s] + y.totalPaid[s] = stacks[s]
  /\ y.allIn = {s \in Seats : y.remaining[s] = 0}
  /\ \A s \in Seats : s # seat => y.streetPaid[s] = h.streetPaid[s]
  /\ y.streetPaid[seat] = to

LEMMA PaidFacts ==
  ASSUME NEW stacks, NEW stack, NEW h, EvenRound(h, stacks, stack), NEW seat \in Seats,
         NEW to \in Nat, to > h.streetPaid[seat], to <= stack
  PROVE  HasPaid(PayTo(h, seat, to), h, seat, to, stacks, stack)
<1> DEFINE y == PayTo(h, seat, to)
<1>1. /\ h \in HandType /\ ChipsOK(h, stacks) /\ h.streetPaid[seat] \in Nat
      /\ h.remaining[seat] \in Nat /\ h.remaining[seat] + h.streetPaid[seat] = stack
      /\ h.streetPaid \in [Seats -> Nat] /\ stack \in Nat
      /\ \A s \in Seats : stacks[s] = stack /\ h.totalPaid[s] = h.streetPaid[s]
  <2>1. /\ h \in HandType /\ ChipsOK(h, stacks)
        /\ \A s \in Seats : stacks[s] = stack /\ h.totalPaid[s] = h.streetPaid[s]
    BY DEF EvenRound
  <2>2. h.streetPaid \in [Seats -> Nat]
    BY <2>1 DEF HandType
  <2>3. /\ stack \in Nat /\ h.streetPaid[seat] \in Nat /\ h.remaining[seat] \in Nat
        /\ h.remaining[seat] + h.streetPaid[seat] = stack
    BY EvenFacts
  <2>4. QED
    BY <2>1, <2>2, <2>3
<1>2. MaxTarget(h, seat) = stack /\ to >= h.streetPaid[seat] /\ to <= MaxTarget(h, seat)
  BY <1>1 DEF MaxTarget
<1>3. /\ y \in HandType /\ y.street = h.street /\ y.folded = h.folded
      /\ y.highest = h.highest /\ y.lastFullRaise = h.lastFullRaise
      /\ y.acted = h.acted /\ y.pending = h.pending
      /\ y.closed = h.closed /\ y.terminal = h.terminal
      /\ y.streetPaid[seat] = to /\ y.remaining[seat] = MaxTarget(h, seat) - to
      /\ y.totalPaid[seat] = h.totalPaid[seat] + (to - h.streetPaid[seat])
      /\ \A s \in Seats : s # seat => y.streetPaid[s] = h.streetPaid[s]
      /\ \A s \in Seats : s # seat => /\ y.remaining[s] = h.remaining[s]
                                      /\ y.totalPaid[s] = h.totalPaid[s]
      /\ \A s \in Seats : /\ y.streetPaid[s] <= y.totalPaid[s]
                          /\ y.remaining[s] + y.totalPaid[s] = stacks[s]
      /\ y.allIn = {s \in Seats : y.remaining[s] = 0}
  BY <1>1, <1>2, PayFacts
<1> HIDE DEF y
<1>4. y.streetPaid = [h.streetPaid EXCEPT ![seat] = to]
  <2>1. y.streetPaid \in [Seats -> Nat]
    BY <1>3 DEF HandType
  <2>2. QED
    BY <1>1, <1>3, <2>1
<1>5. \A s \in Seats : y.totalPaid[s] = y.streetPaid[s]
  <2>1. y.totalPaid[seat] = to
    BY <1>1, <1>3
  <2>2. QED
    BY <1>1, <1>3, <2>1
<1>6. y.allIn = IF to = stack THEN h.allIn \cup {seat} ELSE h.allIn
  <2>1. h.allIn = {s \in Seats : h.remaining[s] = 0}
    BY <1>1 DEF ChipsOK
  <2>2. y.remaining[seat] = 0 <=> to = stack
    BY <1>1, <1>2, <1>3
  <2>3. h.remaining[seat] # 0
    BY <1>1
  <2>4. QED
    BY <1>3, <2>1, <2>2, <2>3
<1>7. QED
  BY <1>3, <1>4, <1>5, <1>6 DEF y, HasPaid

LEMMA PaidView ==
  ASSUME NEW h \in HandType, NEW seat \in Seats, NEW to \in Nat, NEW jam \in BOOLEAN,
         NEW y \in HandType,
         y.streetPaid = [h.streetPaid EXCEPT ![seat] = to],
         y.allIn = IF jam THEN h.allIn \cup {seat} ELSE h.allIn,
         y.folded = h.folded, y.highest = h.highest, y.lastFullRaise = h.lastFullRaise,
         y.pending = h.pending, y.closed = h.closed
  PROVE  View(y) = PaidRound(View(h), seat, to, jam)
<1>1. PICK v \in RoundType : v = View(h)
  BY ViewFacts
<1>2. v.paid = h.streetPaid /\ v.allIn = h.allIn
  BY <1>1 DEF View
<1>3. PICK paid \in [Seats -> Nat], allIn \in SUBSET Seats :
             /\ paid = [v.paid EXCEPT ![seat] = to]
             /\ allIn = IF jam THEN v.allIn \cup {seat} ELSE v.allIn
             /\ paid = y.streetPaid /\ allIn = y.allIn
  BY <1>2 DEF HandType
<1>4. PICK w : w = [v EXCEPT !.paid = paid, !.allIn = allIn]
  OBVIOUS
<1>5. /\ w \in RoundType /\ w.paid = paid /\ w.folded = v.folded /\ w.allIn = allIn
      /\ w.highest = v.highest /\ w.lastFullRaise = v.lastFullRaise
      /\ w.pending = v.pending /\ w.terminal = v.terminal
  BY <1>4 DEF RoundType
<1>6. View(y) \in RoundType
  BY ViewFacts
<1>7. /\ w.paid = View(y).paid /\ w.folded = View(y).folded /\ w.allIn = View(y).allIn
      /\ w.highest = View(y).highest /\ w.lastFullRaise = View(y).lastFullRaise
      /\ w.pending = View(y).pending /\ w.terminal = View(y).terminal
  BY <1>1, <1>3, <1>5 DEF View
<1>8. View(y) = w
  BY <1>5, <1>6, <1>7, SameView
<1>9. PaidRound(v, seat, to, jam) = w
  BY <1>3, <1>4 DEF PaidRound
<1>10. QED
  BY <1>1, <1>8, <1>9

(* A raise of the engine is the blueprint's: a short all-in asks the same  *)
(* players, as all of them have put in less.                               *)
LEMMA RaisedView ==
  ASSUME NEW stacks, NEW stack, NEW h, EvenRound(h, stacks, stack), ~h.closed,
         NEW e, e.seat \in Seats, e.to \in Nat, e.to > h.highest, e.to <= stack,
         NEW jam \in BOOLEAN, jam <=> e.to = stack,
         ActorOf(View(h)) = e.seat,
         NEW full \in BOOLEAN, full <=> e.to - h.highest >= h.lastFullRaise,
         e.kind # "ALL_IN_TO" => full
  PROVE  View(Ended(Raised(h, e))) = AfterAction(RaisedTo(View(h), e.to, jam))
<1>1. PICK seat \in Seats, to \in Nat : seat = e.seat /\ to = e.to
  OBVIOUS
<1>2. PICK size \in Nat \ {0} : size = to - h.highest
  BY <1>1, EvenFacts
<1>3. /\ h \in HandType /\ h.highest \in Nat /\ stack \in Nat /\ h.lastFullRaise \in Nat \ {0}
      /\ h.streetPaid[seat] \in Nat /\ h.streetPaid[seat] <= h.highest
      /\ \A s \in Seats : h.streetPaid[s] \in Nat /\ h.streetPaid[s] <= h.highest
  BY EvenFacts DEF HandType
<1>4. to > h.streetPaid[seat] /\ to <= stack
  BY <1>1, <1>3
<1>5. PICK y : y = PayTo(h, seat, to)
  OBVIOUS
<1>6. /\ y \in HandType /\ y.street = h.street /\ y.folded = h.folded
      /\ y.highest = h.highest /\ y.lastFullRaise = h.lastFullRaise
      /\ y.acted = h.acted /\ y.pending = h.pending
      /\ y.closed = h.closed /\ y.terminal = h.terminal
      /\ y.streetPaid = [h.streetPaid EXCEPT ![seat] = to]
      /\ y.allIn = IF to = stack THEN h.allIn \cup {seat} ELSE h.allIn
      /\ \A s \in Seats : /\ y.totalPaid[s] = y.streetPaid[s]
                          /\ y.remaining[s] + y.totalPaid[s] = stacks[s]
      /\ y.allIn = {s \in Seats : y.remaining[s] = 0}
      /\ \A s \in Seats : s # seat => y.streetPaid[s] = h.streetPaid[s]
      /\ y.streetPaid[seat] = to
  <2>1. HasPaid(y, h, seat, to, stacks, stack)
    BY <1>4, <1>5, PaidFacts
  <2>2. QED
    BY <2>1 DEF HasPaid
<1>7. PICK x : x = [y EXCEPT !.highest = to]
  OBVIOUS
<1>8. /\ x \in HandType /\ x.highest = to /\ x.acted = h.acted /\ x.closed = h.closed
      /\ x.streetPaid = y.streetPaid /\ x.totalPaid = y.totalPaid
      /\ x.remaining = y.remaining /\ x.allIn = y.allIn /\ x.folded = y.folded
      /\ x.street = y.street /\ x.lastFullRaise = h.lastFullRaise /\ x.pending = h.pending
  BY <1>6, <1>7 DEF HandType
<1>9. /\ Eligible(x) \subseteq Seats
      /\ Eligible(x) \ {seat} = Seats \ (h.folded \cup y.allIn \cup {seat})
  BY <1>6, <1>8 DEF Eligible, Live
<1>10. {s \in Eligible(x) \ {seat} : x.streetPaid[s] < x.highest} = Eligible(x) \ {seat}
  <2>1. ASSUME NEW s \in Seats, s # seat PROVE x.streetPaid[s] < x.highest
    <3>1. x.streetPaid[s] = h.streetPaid[s] /\ h.streetPaid[s] \in Nat
          /\ h.streetPaid[s] <= h.highest /\ x.highest = to /\ to > h.highest
      BY <1>1, <1>3, <1>6, <1>8, <2>1
    <3>2. QED
      BY <1>3, <3>1
  <2>2. QED
    BY <1>9, <2>1
<1>11. PICK q : q = OrderedAfter(seat, Eligible(x) \ {seat})
  OBVIOUS
<1>12. q \in Seq(Seats) /\ IsInjective(q)
  BY <1>9, <1>11, OrderedAfterFacts
<1>13. PICK last \in Nat \ {0}, acted \in SUBSET Seats :
              /\ last = IF full THEN size ELSE h.lastFullRaise
              /\ acted = IF full THEN {seat} ELSE h.acted \cup {seat}
  BY <1>3 DEF HandType
<1>14. PICK z : z = [x EXCEPT !.lastFullRaise = last, !.acted = acted, !.pending = q]
  OBVIOUS
<1>15. /\ z \in HandType /\ z.highest = to /\ ~z.closed /\ z.closed = h.closed
       /\ z.streetPaid = y.streetPaid /\ z.totalPaid = y.totalPaid
       /\ z.remaining = y.remaining /\ z.allIn = y.allIn /\ z.folded = y.folded
       /\ z.lastFullRaise = last /\ z.pending = q
  BY <1>8, <1>12, <1>14 DEF HandType
<1>16. Raised(h, e) = NormalizeRound(z)
  <2>1. CASE full
    <3>1. e.kind # "ALL_IN_TO" \/ size >= h.lastFullRaise
      BY <1>1, <1>2, <2>1
    <3>2. Raised(h, e) = FullAggression(x, seat, size)
      BY <1>1, <1>2, <1>5, <1>7, <3>1 DEF Raised
    <3>3. z = [x EXCEPT !.lastFullRaise = size, !.acted = {seat}, !.pending = q]
      BY <1>13, <1>14, <2>1
    <3>4. QED
      BY <1>11, <3>2, <3>3 DEF FullAggression
  <2>2. CASE ~full
    <3>1. ~(e.kind # "ALL_IN_TO" \/ size >= h.lastFullRaise)
      BY <1>1, <1>2, <2>2
    <3>2. Raised(h, e) = ShortAllInAggression(x, seat)
      BY <1>1, <1>2, <1>5, <1>7, <3>1 DEF Raised
    <3>3. z = [x EXCEPT !.acted = @ \cup {seat}, !.pending = q]
      BY <1>8, <1>13, <1>14, <2>2 DEF HandType
    <3>4. QED
      BY <1>10, <1>11, <3>2, <3>3 DEF ShortAllInAggression
  <2>3. QED
    BY <2>1, <2>2
<1>17. EvenRound(z, stacks, stack)
  <2>1. \A s \in Seats : z.streetPaid[s] <= z.highest
    BY <1>1, <1>3, <1>6, <1>15
  <2>2. \E s \in Seats : z.streetPaid[s] = z.highest
    BY <1>6, <1>15
  <2>3. \A s \in Seats : /\ z.streetPaid[s] <= z.totalPaid[s]
                         /\ z.remaining[s] + z.totalPaid[s] = stacks[s]
    <3>1. z.streetPaid \in [Seats -> Nat] /\ z.totalPaid = y.totalPaid
      BY <1>15 DEF HandType
    <3>2. QED
      BY <1>6, <1>15, <3>1
  <2>4. ChipsOK(z, stacks)
    BY <1>6, <1>15, <2>1, <2>2, <2>3 DEF ChipsOK
  <2>5. \A s \in Seats : stacks[s] = stack /\ z.totalPaid[s] = z.streetPaid[s]
    BY <1>6, <1>15 DEF EvenRound
  <2>6. QED
    BY <1>3, <1>15, <2>4, <2>5 DEF EvenRound
<1>18. View(Ended(NormalizeRound(z))) = AfterAction(View(z))
  BY <1>12, <1>15, <1>17, NormalizeIsAfterAction
<1>19. View(z) = RaisedTo(View(h), to, jam)
  <2>1. PICK v \in RoundType : v = View(h)
    BY <1>3, ViewFacts
  <2>2. /\ v.paid = h.streetPaid /\ v.allIn = h.allIn /\ v.folded = h.folded
        /\ v.highest = h.highest /\ v.lastFullRaise = h.lastFullRaise /\ ActorOf(v) = seat
        /\ v.terminal = h.closed
    BY <1>1, <2>1 DEF View
  <2>3. PICK w : w = [v EXCEPT !.paid = z.streetPaid, !.highest = to, !.lastFullRaise = last,
                               !.allIn = z.allIn, !.pending = q]
    OBVIOUS
  <2>4. z.streetPaid \in [Seats -> Nat] /\ z.allIn \in SUBSET Seats
    BY <1>15 DEF HandType
  <2>5. /\ w \in RoundType /\ w.paid = z.streetPaid /\ w.folded = v.folded
        /\ w.allIn = z.allIn /\ w.highest = to /\ w.lastFullRaise = last
        /\ w.pending = q /\ w.terminal = v.terminal
    BY <1>12, <2>3, <2>4 DEF RoundType
  <2>6. View(z) \in RoundType
    BY <1>15, ViewFacts
  <2>7. /\ w.paid = View(z).paid /\ w.folded = View(z).folded /\ w.allIn = View(z).allIn
        /\ w.highest = View(z).highest /\ w.lastFullRaise = View(z).lastFullRaise
        /\ w.pending = View(z).pending /\ w.terminal = View(z).terminal
    BY <1>6, <1>15, <2>2, <2>5 DEF View
  <2>8. View(z) = w
    BY <2>5, <2>6, <2>7, SameView
  <2>9. /\ z.streetPaid = [v.paid EXCEPT ![seat] = to]
        /\ last = IF size >= v.lastFullRaise THEN size ELSE v.lastFullRaise
        /\ z.allIn = IF jam THEN v.allIn \cup {seat} ELSE v.allIn
        /\ q = OrderedAfter(seat, Seats \ (v.folded \cup z.allIn \cup {seat}))
    <3>1. z.streetPaid = [v.paid EXCEPT ![seat] = to]
      BY <1>6, <1>15, <2>2
    <3>2. last = IF size >= v.lastFullRaise THEN size ELSE v.lastFullRaise
      BY <1>1, <1>2, <1>13, <2>2
    <3>3. z.allIn = IF jam THEN v.allIn \cup {seat} ELSE v.allIn
      BY <1>1, <1>6, <1>15, <2>2
    <3>4. q = OrderedAfter(seat, Seats \ (v.folded \cup z.allIn \cup {seat}))
      BY <1>9, <1>11, <1>15, <2>2
    <3>5. QED
      BY <3>1, <3>2, <3>3, <3>4
  <2>10. PICK jammed : jammed = IF jam THEN v.allIn \cup {seat} ELSE v.allIn
    OBVIOUS
  <2>11. RaisedTo(v, to, jam) = w
    BY <1>2, <2>2, <2>3, <2>9, <2>10 DEF RaisedTo
  <2>12. QED
    BY <2>1, <2>8, <2>11
<1>20. QED
  BY <1>1, <1>16, <1>18, <1>19

\* Where an action leads, label by label.
ApplyForms(s, stack, seat, jam, low) ==
  /\ Apply(s, stack, FoldLabel) = AfterAction(Passed(FoldedRound(s, seat)))
  /\ Apply(s, stack, Call) = AfterAction(Passed(PaidRound(s, seat, s.highest, jam)))
  /\ Apply(s, stack, Raise) = AfterAction(RaisedTo(s, RaiseTarget(s), FALSE))
  /\ low => Apply(s, stack, AllIn) = AfterAction(Passed(PaidRound(s, seat, stack, TRUE)))
  /\ ~low => Apply(s, stack, AllIn) = AfterAction(RaisedTo(s, stack, TRUE))

LEMMA ApplyCases ==
  ASSUME NEW s, NEW stack, NEW seat, ActorOf(s) = seat, NEW jam \in BOOLEAN,
         jam <=> s.paid[seat] < s.highest /\ s.highest = stack,
         NEW low \in BOOLEAN, low <=> stack <= s.highest, ~low <=> stack > s.highest
  PROVE  ApplyForms(s, stack, seat, jam, low)
<1>1. /\ FoldLabel # Call /\ FoldLabel # Raise /\ FoldLabel # AllIn
      /\ Call # Raise /\ Call # AllIn /\ Raise # AllIn
  BY DEF FoldLabel, Call, Raise, AllIn
<1>2. Apply(s, stack, FoldLabel) = AfterAction(Passed(FoldedRound(s, seat)))
  BY <1>1, Zenon DEF Apply, FoldedRound
<1>3. Apply(s, stack, Call) = AfterAction(Passed(PaidRound(s, seat, s.highest, jam)))
  <2>1. CASE jam
    BY <1>1, <2>1, Zenon DEF Apply, PaidRound
  <2>2. CASE ~jam
    BY <1>1, <2>2, Zenon DEF Apply, PaidRound
  <2>3. QED
    BY <2>1, <2>2
<1>4. Apply(s, stack, Raise) = AfterAction(RaisedTo(s, RaiseTarget(s), FALSE))
  BY <1>1, Zenon DEF Apply
<1>5. ASSUME low
      PROVE  Apply(s, stack, AllIn) = AfterAction(Passed(PaidRound(s, seat, stack, TRUE)))
  <2>1. PICK paid : paid = [s EXCEPT !.paid[seat] = stack, !.allIn = @ \cup {seat}]
    OBVIOUS
  <2>2. PaidRound(s, seat, stack, TRUE) = paid
    BY <2>1 DEF PaidRound
  <2>3. Apply(s, stack, AllIn) = AfterAction(Passed(paid))
    BY <1>1, <1>5, <2>1, Zenon DEF Apply
  <2>4. QED
    BY <2>2, <2>3
<1>6. ASSUME ~low
      PROVE  Apply(s, stack, AllIn) = AfterAction(RaisedTo(s, stack, TRUE))
  BY <1>1, <1>6, Zenon DEF Apply
<1>7. QED
  BY <1>2, <1>3, <1>4, <1>5, <1>6 DEF ApplyForms

LEMMA LegalFacts ==
  ASSUME NEW s, NEW stack, NEW label, Legal(s, stack, label), NEW seat, seat = ActorOf(s)
  PROVE  /\ seat # NoSeat
         /\ label = FoldLabel => s.paid[seat] < s.highest
         /\ label = Call => s.highest <= stack
         /\ label = Raise => LegalTarget(s, stack, RaiseTarget(s), FALSE)
         /\ label = AllIn => /\ stack > s.paid[seat]
                             /\ stack > s.highest => LegalTarget(s, stack, stack, TRUE)
<1>1. /\ FoldLabel # Call /\ FoldLabel # Raise /\ FoldLabel # AllIn
      /\ Call # Raise /\ Call # AllIn /\ Raise # AllIn
  BY DEF FoldLabel, Call, Raise, AllIn
<1>2. seat # NoSeat
  BY Zenon DEF Legal
<1>3. CASE label = FoldLabel
  BY <1>1, <1>2, <1>3, Zenon DEF Legal
<1>4. CASE label = Call
  BY <1>1, <1>2, <1>4, Zenon DEF Legal
<1>5. CASE label = Raise
  BY <1>1, <1>2, <1>5, Zenon DEF Legal
<1>6. CASE label = AllIn
  BY <1>1, <1>2, <1>6, Zenon DEF Legal
<1>7. QED
  BY <1>2, <1>3, <1>4, <1>5, <1>6

LEMMA AfterActionPaid ==
  ASSUME NEW s \in RoundType
  PROVE  /\ AfterAction(s).paid = s.paid
         /\ s.pending # <<>> => AfterAction(Passed(s)).paid = s.paid
<1>1. ASSUME NEW r \in RoundType PROVE AfterAction(r).paid = r.paid
  <2>1. PICK kept : kept = Kept(r.pending, LiveSeats(r) \ r.allIn)
    OBVIOUS
  <2>2. \/ AfterAction(r) = [r EXCEPT !.pending = <<>>, !.terminal = TRUE]
        \/ AfterAction(r) = [r EXCEPT !.pending = kept, !.terminal = (kept = <<>>)]
    BY <2>1, Zenon DEF AfterAction
  <2>3. QED
    BY <2>2 DEF RoundType
<1>2. ASSUME s.pending # <<>> PROVE Passed(s) \in RoundType /\ Passed(s).paid = s.paid
  <2>0. s.pending \in Seq(Seats)
    BY DEF RoundType
  <2>1. PICK q \in Seq(Seats) : q = s.pending /\ q # <<>>
    BY <1>2, <2>0
  <2>2. Tail(q) \in Seq(Seats)
    BY <2>1
  <2>3. PICK tail \in Seq(Seats) : tail = Tail(s.pending)
    BY <2>1, <2>2
  <2>4. Passed(s) = [s EXCEPT !.pending = tail]
    BY <2>3 DEF Passed
  <2>5. QED
    BY <2>4 DEF RoundType
<1>3. QED
  BY <1>1, <1>2

LEMMA RaiseTargetType ==
  ASSUME NEW s \in RoundType, ActorOf(s) \in Seats
  PROVE  RaiseTarget(s) \in Int
<1>1. PICK pot \in Nat, top \in Nat, mine \in Nat :
            pot = Total(s.paid) /\ top = s.highest /\ mine = s.paid[ActorOf(s)]
  <2>1. Total(s.paid) \in Nat
    BY TotalType DEF RoundType
  <2>2. QED
    BY <2>1 DEF RoundType
<1>2. PICK pct \in Nat : pct = RaisePct
  BY BlueprintAssumption
<1>3. PICK product \in Int : product = (pot + top - mine) * pct
  OBVIOUS
<1>4. product \div 100 \in Int
  OBVIOUS
<1>5. PICK share \in Int : share = product \div 100
  BY <1>4
<1>6. RaiseTarget(s) = top + share
  BY <1>1, <1>2, <1>3, <1>5 DEF RaiseTarget, PotAfterCall
<1>7. QED
  BY <1>6

LEMMA LowOrHigh ==
  ASSUME NEW a \in Int, NEW b \in Int
  PROVE  \E low \in BOOLEAN : (low <=> a <= b) /\ (~low <=> a > b)
<1>1. PICK low \in BOOLEAN : low <=> a <= b
  OBVIOUS
<1>2. ~low <=> a > b
  BY <1>1
<1>3. QED
  BY <1>1, <1>2

\* The engine's events, as actions of the blueprint.
LEMMA ChecksAlike ==
  ASSUME NEW stacks, NEW stack, NEW h, HandOK(h, stacks), EvenRound(h, stacks, stack),
         NEW e, NEW g, Acts(h, e, g), e.kind = "CHECK"
  PROVE  View(g) = AfterAction(Passed(View(h)))
<1>1. /\ ~h.closed /\ e.seat = Actor(h) /\ e.seat \in Seats
  BY ActFacts
<1>2. /\ IsInjective(h.pending) /\ h.pending # <<>>
  BY <1>1, ActorFacts
<1>3. View(Ended(PassiveComplete(h, e.seat))) = AfterAction(Passed(View(h)))
  BY <1>1, <1>2, PassedView
<1>4. PICK low \in BOOLEAN : (low <=> e.to <= h.highest) /\ (~low <=> e.to > h.highest)
  <2>1. h.highest \in Int /\ e.to \in Int
    BY ActFacts DEF NoAmount
  <2>2. QED
    BY <2>1, LowOrHigh
<1>5. Applied(h, e) = Ended(PassiveComplete(h, e.seat))
  BY <1>4, AppliedCases
<1>6. QED
  BY <1>3, <1>5 DEF Acts

LEMMA FoldsAlike ==
  ASSUME NEW stacks, NEW stack, NEW h, HandOK(h, stacks), EvenRound(h, stacks, stack),
         NEW e, NEW g, Acts(h, e, g), e.kind = "FOLD"
  PROVE  View(g) = AfterAction(Passed(FoldedRound(View(h), e.seat)))
<1>1. /\ ~h.closed /\ e.seat = Actor(h) /\ e.seat \in Seats /\ h \in HandType
  BY ActFacts
<1>2. /\ IsInjective(h.pending) /\ h.pending # <<>>
  BY <1>1, ActorFacts
<1>3. PICK seat \in Seats : seat = e.seat
  BY <1>1
<1>4. PICK x : x = [h EXCEPT !.folded = @ \cup {seat}]
  OBVIOUS
<1>5. View(x) = FoldedRound(View(h), seat)
  BY <1>1, <1>4, FoldedView
<1>6. /\ x \in HandType /\ x.pending = h.pending /\ x.closed = h.closed
      /\ x.streetPaid = h.streetPaid /\ x.totalPaid = h.totalPaid
      /\ x.remaining = h.remaining /\ x.allIn = h.allIn /\ x.highest = h.highest
  BY <1>1, <1>4 DEF HandType
<1>7. EvenRound(x, stacks, stack)
  BY <1>6 DEF EvenRound, ChipsOK
<1>8. View(Ended(PassiveComplete(x, seat))) = AfterAction(Passed(View(x)))
  BY <1>1, <1>2, <1>6, <1>7, PassedView
<1>9. PICK low \in BOOLEAN : (low <=> e.to <= h.highest) /\ (~low <=> e.to > h.highest)
  <2>1. h.highest \in Int /\ e.to \in Int
    BY ActFacts DEF NoAmount
  <2>2. QED
    BY <2>1, LowOrHigh
<1>10. Applied(h, e) = Ended(PassiveComplete(x, seat))
  BY <1>3, <1>4, <1>9, AppliedCases
<1>11. QED
  BY <1>3, <1>5, <1>8, <1>10 DEF Acts

LEMMA CallsAlike ==
  ASSUME NEW stacks, NEW stack, NEW h, HandOK(h, stacks), EvenRound(h, stacks, stack),
         NEW e, NEW g, Acts(h, e, g), e.kind \in Wagers, e.to = h.highest,
         NEW jam \in BOOLEAN, jam <=> h.highest = stack
  PROVE  View(g) = AfterAction(Passed(PaidRound(View(h), e.seat, h.highest, jam)))
<1>1. /\ ~h.closed /\ e.seat = Actor(h) /\ e.seat \in Seats /\ h \in HandType
      /\ Effect(h, e, g)
  BY ActFacts
<1>2. /\ IsInjective(h.pending) /\ h.pending # <<>>
  BY <1>1, ActorFacts
<1>3. PICK seat \in Seats, to \in Nat : seat = e.seat /\ to = e.to /\ to = h.highest
  BY <1>1, EvenFacts
<1>4. to > h.streetPaid[seat] /\ to <= stack
  <2>1. e.to > h.streetPaid[e.seat]
    BY <1>1 DEF Effect
  <2>2. h.highest <= stack
    BY EvenFacts
  <2>3. QED
    BY <1>3, <2>1, <2>2
<1>5. PICK y : y = PayTo(h, seat, to)
  OBVIOUS
<1>6. HasPaid(y, h, seat, to, stacks, stack)
  BY <1>4, <1>5, PaidFacts
<1>7. /\ y \in HandType /\ y.folded = h.folded
      /\ y.highest = h.highest /\ y.lastFullRaise = h.lastFullRaise
      /\ y.pending = h.pending /\ y.closed = h.closed
      /\ y.streetPaid = [h.streetPaid EXCEPT ![seat] = to]
      /\ y.allIn = IF jam THEN h.allIn \cup {seat} ELSE h.allIn
      /\ \A s \in Seats : /\ y.totalPaid[s] = y.streetPaid[s]
                          /\ y.remaining[s] + y.totalPaid[s] = stacks[s]
      /\ y.allIn = {s \in Seats : y.remaining[s] = 0}
      /\ \A s \in Seats : s # seat => y.streetPaid[s] = h.streetPaid[s]
      /\ y.streetPaid[seat] = to
  BY <1>3, <1>6 DEF HasPaid
<1>8. View(y) = PaidRound(View(h), seat, to, jam)
  BY <1>1, <1>7, PaidView
<1>9. EvenRound(y, stacks, stack)
  <2>0. \A s \in Seats : h.streetPaid[s] \in Nat /\ h.streetPaid[s] <= h.highest
    BY EvenFacts
  <2>1. \A s \in Seats : /\ h.streetPaid[s] \in Nat /\ h.streetPaid[s] <= h.highest
                         /\ stacks[s] = stack
    BY <2>0 DEF EvenRound
  <2>2. \A s \in Seats : y.streetPaid[s] <= y.highest /\ y.streetPaid[s] \in Nat
    BY <1>3, <1>7, <2>1
  <2>3. y.streetPaid[seat] = y.highest
    BY <1>3, <1>7
  <2>4. \A s \in Seats : /\ y.streetPaid[s] <= y.totalPaid[s]
                         /\ y.remaining[s] + y.totalPaid[s] = stacks[s]
    BY <1>7, <2>2
  <2>5. ChipsOK(y, stacks)
    BY <1>7, <2>2, <2>3, <2>4 DEF ChipsOK
  <2>6. QED
    BY <1>7, <2>1, <2>5, EvenFacts DEF EvenRound
<1>10. View(Ended(PassiveComplete(y, seat))) = AfterAction(Passed(View(y)))
  BY <1>1, <1>2, <1>7, <1>9, PassedView
<1>11. PICK low \in BOOLEAN : /\ low <=> e.to <= h.highest
                              /\ ~low <=> e.to > h.highest
                              /\ low
  <2>1. PICK low \in BOOLEAN : (low <=> e.to <= h.highest) /\ (~low <=> e.to > h.highest)
    BY <1>3, LowOrHigh
  <2>2. low
    BY <1>3, <2>1
  <2>3. QED
    BY <2>1, <2>2
<1>12. Applied(h, e) = Ended(PassiveComplete(PayTo(h, e.seat, e.to), e.seat))
  BY <1>11, AppliedCases
<1>13. Applied(h, e) = Ended(PassiveComplete(y, seat))
  BY <1>3, <1>5, <1>12
<1>14. QED
  BY <1>3, <1>8, <1>10, <1>13 DEF Acts

LEMMA RaisesAlike ==
  ASSUME NEW stacks, NEW stack, NEW h, HandOK(h, stacks), Sound(h),
         EvenRound(h, stacks, stack), NEW e, NEW g, Acts(h, e, g),
         e.kind \in Wagers, e.to > h.highest, NEW jam \in BOOLEAN, jam <=> e.to = stack
  PROVE  View(g) = AfterAction(RaisedTo(View(h), e.to, jam))
<1>1. /\ ~h.closed /\ e.seat = Actor(h) /\ e.seat \in Seats /\ h \in HandType
      /\ e.to \in Nat \cup {NoAmount} /\ Accepts(h, e)
  BY ActFacts DEF Acts
<1>2. /\ e.to \in Nat /\ e.to <= MaxTarget(h, e.seat)
      /\ e.kind = "CALL" => e.to <= h.highest
      /\ e.kind = "BET_TO" => h.highest = 0 /\ e.to - h.highest >= BigBlind
      /\ e.kind = "RAISE_TO" => e.to - h.highest >= h.lastFullRaise
  BY <1>1, WagerFacts
<1>3. MaxTarget(h, e.seat) = stack
  BY <1>1, EvenFacts DEF MaxTarget
<1>4. h.highest \in Nat /\ h.lastFullRaise \in Nat
  BY <1>1 DEF HandType
<1>5. PICK full \in BOOLEAN : full <=> e.to - h.highest >= h.lastFullRaise
  OBVIOUS
<1>6. e.kind # "ALL_IN_TO" => full
  <2>1. h.highest = 0 => h.lastFullRaise = BigBlind
    BY DEF Sound
  <2>2. e.kind = "CALL" \/ e.kind = "BET_TO" \/ e.kind = "RAISE_TO" \/ e.kind = "ALL_IN_TO"
    BY DEF Wagers
  <2>3. QED
    BY <1>2, <1>4, <1>5, <2>1, <2>2
<1>7. ActorOf(View(h)) = e.seat
  BY <1>1, ViewFacts
<1>8. e.to <= stack
  BY <1>2, <1>3
<1>9. View(Ended(Raised(h, e))) = AfterAction(RaisedTo(View(h), e.to, jam))
  BY <1>1, <1>2, <1>5, <1>6, <1>7, <1>8, RaisedView
<1>10. PICK low \in BOOLEAN : /\ low <=> e.to <= h.highest
                              /\ ~low <=> e.to > h.highest
                              /\ ~low
  <2>1. PICK low \in BOOLEAN : (low <=> e.to <= h.highest) /\ (~low <=> e.to > h.highest)
    BY <1>2, <1>4, LowOrHigh
  <2>2. ~low
    BY <1>2, <1>4, <2>1
  <2>3. QED
    BY <2>1, <2>2
<1>11. Applied(h, e) = Ended(Raised(h, e))
  BY <1>10, AppliedCases
<1>12. QED
  BY <1>9, <1>11 DEF Acts

LEMMA RoundPaidBy ==
  ASSUME NEW s \in RoundType, s.pending # <<>>, NEW seat \in Seats
  PROVE  /\ AfterAction(Passed(FoldedRound(s, seat))).paid = s.paid
         /\ \A to \in Nat, jam \in BOOLEAN :
              AfterAction(Passed(PaidRound(s, seat, to, jam))).paid[seat] = to
<1>1. AfterAction(Passed(FoldedRound(s, seat))).paid = s.paid
  <2>1. PICK folded \in SUBSET Seats : folded = s.folded \cup {seat}
    BY DEF RoundType
  <2>2. FoldedRound(s, seat) = [s EXCEPT !.folded = folded]
    BY <2>1 DEF FoldedRound
  <2>3. PICK r : r = FoldedRound(s, seat)
    OBVIOUS
  <2>4. r \in RoundType /\ r.pending = s.pending /\ r.paid = s.paid
    BY <2>2, <2>3 DEF RoundType
  <2>5. AfterAction(Passed(r)).paid = r.paid
    BY <2>4, AfterActionPaid
  <2>6. QED
    BY <2>3, <2>4, <2>5
<1>2. ASSUME NEW to \in Nat, NEW jam \in BOOLEAN
      PROVE  AfterAction(Passed(PaidRound(s, seat, to, jam))).paid[seat] = to
  <2>1. PICK paid \in [Seats -> Nat], allIn \in SUBSET Seats :
          /\ paid = [s.paid EXCEPT ![seat] = to] /\ paid[seat] = to
          /\ allIn = IF jam THEN s.allIn \cup {seat} ELSE s.allIn
    <3>1. s.paid \in [Seats -> Nat]
      BY DEF RoundType
    <3>2. PICK paid : paid = [s.paid EXCEPT ![seat] = to]
      OBVIOUS
    <3>3. paid \in [Seats -> Nat] /\ paid[seat] = to
      BY <3>1, <3>2
    <3>4. PICK allIn \in SUBSET Seats : allIn = IF jam THEN s.allIn \cup {seat} ELSE s.allIn
      BY DEF RoundType
    <3>5. QED
      BY <3>2, <3>3, <3>4
  <2>2. PaidRound(s, seat, to, jam) = [s EXCEPT !.paid = paid, !.allIn = allIn]
    BY <2>1 DEF PaidRound
  <2>3. PICK r : r = PaidRound(s, seat, to, jam)
    OBVIOUS
  <2>4. r \in RoundType /\ r.pending = s.pending /\ r.paid = paid
    BY <2>2, <2>3 DEF RoundType
  <2>5. AfterAction(Passed(r)).paid = r.paid
    BY <2>4, AfterActionPaid
  <2>6. QED
    BY <2>1, <2>3, <2>4, <2>5
<1>3. QED
  BY <1>1, <1>2

LEMMA RaisedPaid ==
  ASSUME NEW s \in RoundType, NEW seat \in Seats, ActorOf(s) = seat, NEW target \in Nat,
         target > s.highest, NEW allIn \in BOOLEAN
  PROVE  AfterAction(RaisedTo(s, target, allIn)).paid[seat] = target
<1>1. PICK jammed \in SUBSET Seats : jammed = IF allIn THEN s.allIn \cup {seat} ELSE s.allIn
  BY DEF RoundType
<1>2. PICK size \in Nat \ {0} : size = target - s.highest
  BY DEF RoundType
<1>3. PICK paid \in [Seats -> Nat] : paid = [s.paid EXCEPT ![seat] = target] /\ paid[seat] = target
  <2>1. s.paid \in [Seats -> Nat]
    BY DEF RoundType
  <2>2. PICK paid : paid = [s.paid EXCEPT ![seat] = target]
    OBVIOUS
  <2>3. paid \in [Seats -> Nat] /\ paid[seat] = target
    BY <2>1, <2>2
  <2>4. QED
    BY <2>2, <2>3
<1>4. PICK full \in Nat \ {0} : full = IF size >= s.lastFullRaise THEN size ELSE s.lastFullRaise
  BY <1>2 DEF RoundType
<1>5. PICK q : q = OrderedAfter(seat, Seats \ (s.folded \cup jammed \cup {seat}))
  OBVIOUS
<1>6. q \in Seq(Seats)
  BY <1>5, OrderedAfterFacts
<1>7. PICK r : r = [s EXCEPT !.paid = paid, !.highest = target, !.lastFullRaise = full,
                             !.allIn = jammed, !.pending = q]
  OBVIOUS
<1>8. r \in RoundType /\ r.paid = paid
  BY <1>6, <1>7 DEF RoundType
<1>9. RaisedTo(s, target, allIn) = r
  BY <1>1, <1>2, <1>3, <1>4, <1>5, <1>7 DEF RaisedTo
<1>10. AfterAction(r).paid = r.paid
  BY <1>8, AfterActionPaid
<1>11. QED
  BY <1>3, <1>8, <1>9, <1>10

(* With equal stacks the two rule books agree: an action of the blueprint  *)
(* that leaves the actor's bet where an accepted event leaves it leads to  *)
(* what the event leads to, and is a fold if the event is.                 *)
LEMMA ApplyIsApplied ==
  ASSUME NEW stacks, NEW stack, NEW h, HandOK(h, stacks), Sound(h),
         EvenRound(h, stacks, stack), NEW e, NEW g, Acts(h, e, g), NEW label \in Labels,
         Legal(View(h), stack, label), label = Raise => RaiseTarget(View(h)) # stack,
         g.streetPaid[e.seat] = Apply(View(h), stack, label).paid[e.seat]
  PROVE  View(g) = Apply(View(h), stack, label) /\ (label = FoldLabel <=> e.kind = "FOLD")
<1>1. /\ ~h.closed /\ e.seat = Actor(h) /\ e.seat \in Seats /\ h \in HandType
      /\ Effect(h, e, g) /\ e.kind \in Kinds
  BY ActFacts
<1>2. PICK seat \in Seats : seat = e.seat
  BY <1>1
<1>3. PICK v \in RoundType : v = View(h)
  BY <1>1, ViewFacts
<1>4. /\ v.paid = h.streetPaid /\ v.highest = h.highest /\ v.pending = h.pending
      /\ v.lastFullRaise = h.lastFullRaise /\ v.pending # <<>>
  <2>1. h.pending # <<>>
    BY <1>1, ActorFacts
  <2>2. QED
    BY <1>3, <2>1 DEF View
<1>5. ActorOf(v) = seat
  BY <1>1, <1>2, <1>3, ViewFacts
<1>6. PICK top \in Nat, mine \in Nat :
        top = h.highest /\ mine = h.streetPaid[seat] /\ mine <= top /\ top <= stack
        /\ stack \in Nat
  BY EvenFacts
<1>7. /\ e.kind \notin Wagers => g.streetPaid[seat] = mine
      /\ e.kind \in Wagers => e.to \in Nat /\ g.streetPaid[seat] = e.to /\ e.to > mine
      /\ e.kind = "FOLD" => mine < top
      /\ e.kind = "CHECK" => mine = top
      /\ e.kind = "FOLD" \/ e.kind = "CHECK" \/ e.kind \in Wagers
      /\ e.kind = "FOLD" => e.kind \notin Wagers /\ e.kind # "CHECK"
  <2>1. /\ e.kind \notin Wagers => g.streetPaid[e.seat] = h.streetPaid[e.seat]
        /\ e.kind \in Wagers => e.to \in Nat /\ e.to > h.streetPaid[e.seat]
                                /\ g.streetPaid[e.seat] = e.to
    BY <1>1 DEF Effect
  <2>2. /\ e.kind = "FOLD" => Facing(h, e.seat) > 0
        /\ e.kind = "CHECK" => Facing(h, e.seat) = 0
    BY <1>1 DEF Acts, Accepts, Wagers
  <2>3. Facing(h, e.seat) = top - mine
    BY <1>2, <1>6 DEF Facing
  <2>4. QED
    BY <1>1, <1>2, <1>6, <2>1, <2>2, <2>3 DEF Kinds, Wagers
<1>8. PICK jam \in BOOLEAN : jam <=> v.paid[seat] < v.highest /\ v.highest = stack
  OBVIOUS
<1>9. PICK low \in BOOLEAN : (low <=> stack <= v.highest) /\ (~low <=> stack > v.highest)
  <2>1. stack \in Int /\ v.highest \in Int
    BY <1>4, <1>6
  <2>2. QED
    BY <2>1, LowOrHigh
<1>10. /\ Apply(v, stack, FoldLabel) = AfterAction(Passed(FoldedRound(v, seat)))
       /\ Apply(v, stack, Call) = AfterAction(Passed(PaidRound(v, seat, v.highest, jam)))
       /\ Apply(v, stack, Raise) = AfterAction(RaisedTo(v, RaiseTarget(v), FALSE))
       /\ low => Apply(v, stack, AllIn) = AfterAction(Passed(PaidRound(v, seat, stack, TRUE)))
       /\ ~low => Apply(v, stack, AllIn) = AfterAction(RaisedTo(v, stack, TRUE))
  <2>1. ApplyForms(v, stack, seat, jam, low)
    BY <1>5, <1>8, <1>9, ApplyCases
  <2>2. QED
    BY <2>1 DEF ApplyForms
<1>11. /\ label = FoldLabel => v.paid[seat] < v.highest
       /\ label = Call => v.highest <= stack
       /\ label = Raise => LegalTarget(v, stack, RaiseTarget(v), FALSE)
       /\ label = AllIn => stack > v.paid[seat]
  BY <1>3, <1>5, LegalFacts
<1>12. g.streetPaid[seat] = Apply(v, stack, label).paid[seat]
  BY <1>2, <1>3
<1>13. /\ FoldLabel # Call /\ FoldLabel # Raise /\ FoldLabel # AllIn
  BY DEF FoldLabel, Call, Raise, AllIn
<1>14. CASE label = FoldLabel
  <2>1. Apply(v, stack, label).paid[seat] = mine /\ mine < top
    BY <1>4, <1>6, <1>10, <1>11, <1>14, RoundPaidBy
  <2>2. e.kind = "FOLD"
    BY <1>7, <1>12, <2>1
  <2>3. View(g) = AfterAction(Passed(FoldedRound(View(h), e.seat)))
    BY <2>2, FoldsAlike
  <2>4. QED
    BY <1>2, <1>3, <1>10, <1>14, <2>2, <2>3
<1>15. CASE label = Call
  <2>1. Apply(v, stack, label).paid[seat] = top
    BY <1>4, <1>6, <1>10, <1>15, RoundPaidBy
  <2>2. e.kind # "FOLD"
    BY <1>7, <1>12, <2>1
  <2>3. CASE mine = top
    <3>1. e.kind = "CHECK"
      BY <1>7, <1>12, <2>1, <2>2, <2>3
    <3>2. View(g) = AfterAction(Passed(v))
      BY <1>3, <3>1, ChecksAlike
    <3>3. ~jam
      BY <1>4, <1>6, <1>8, <2>3
    <3>4. PaidRound(v, seat, v.highest, jam) = v
      <4>1. v.paid \in [Seats -> Nat] /\ v.paid[seat] = v.highest
        BY <1>4, <1>6, <2>3 DEF RoundType
      <4>2. [v.paid EXCEPT ![seat] = v.highest] = v.paid
        BY <4>1
      <4>3. PICK r : r = [v EXCEPT !.paid = v.paid, !.allIn = v.allIn]
        OBVIOUS
      <4>4. r \in RoundType /\ r.paid = v.paid /\ r.folded = v.folded /\ r.allIn = v.allIn
            /\ r.pending = v.pending /\ r.highest = v.highest
            /\ r.lastFullRaise = v.lastFullRaise /\ r.terminal = v.terminal
        BY <4>3 DEF RoundType
      <4>5. r = v
        BY <4>4, SameView
      <4>6. PaidRound(v, seat, v.highest, jam) = r
        BY <3>3, <4>2, <4>3 DEF PaidRound
      <4>7. QED
        BY <4>5, <4>6
    <3>5. QED
      BY <1>3, <1>10, <1>13, <1>15, <2>2, <3>2, <3>4
  <2>4. CASE mine # top
    <3>1. e.kind \in Wagers /\ e.to = top
      BY <1>7, <1>12, <2>1, <2>2, <2>4
    <3>2. e.to = h.highest /\ (jam <=> h.highest = stack)
      BY <1>4, <1>6, <1>8, <2>4, <3>1
    <3>3. View(g) = AfterAction(Passed(PaidRound(View(h), e.seat, h.highest, jam)))
      BY <3>1, <3>2, CallsAlike
    <3>4. QED
      BY <1>2, <1>3, <1>4, <1>10, <1>13, <1>15, <2>2, <3>3
  <2>5. QED
    BY <2>3, <2>4
<1>16. CASE label = AllIn /\ low
  <2>1. stack = top /\ mine < top
    BY <1>4, <1>6, <1>9, <1>11, <1>16
  <2>2. Apply(v, stack, label).paid[seat] = stack
    <3>1. \A full \in BOOLEAN :
            AfterAction(Passed(PaidRound(v, seat, stack, full))).paid[seat] = stack
      BY <1>4, <1>6, RoundPaidBy
    <3>2. QED
      BY <1>10, <1>16, <3>1
  <2>3. e.kind \in Wagers /\ e.to = top
    BY <1>7, <1>12, <2>1, <2>2
  <2>4. e.to = h.highest /\ h.highest = stack
    BY <1>6, <2>1, <2>3
  <2>5. ASSUME NEW full \in BOOLEAN, full <=> h.highest = stack
        PROVE  View(g) = AfterAction(Passed(PaidRound(View(h), e.seat, h.highest, full)))
    <3>1. e.kind \in Wagers /\ e.to = h.highest
      BY <2>3, <2>4
    <3>2. QED
      BY <2>5, <3>1, CallsAlike
  <2>6. View(g) = AfterAction(Passed(PaidRound(View(h), e.seat, h.highest, TRUE)))
    BY <2>4, <2>5
  <2>7. QED
    BY <1>2, <1>3, <1>7, <1>10, <1>13, <1>16, <2>3, <2>4, <2>6
<1>17. CASE label = AllIn /\ ~low
  <2>1. stack > top
    BY <1>4, <1>6, <1>9, <1>17
  <2>2. \A all \in BOOLEAN : AfterAction(RaisedTo(v, stack, all)).paid[seat] = stack
    BY <1>4, <1>5, <1>6, <2>1, RaisedPaid
  <2>3. Apply(v, stack, label).paid[seat] = stack
    BY <1>10, <1>17, <2>2
  <2>4. e.kind \in Wagers /\ e.to = stack
    BY <1>6, <1>7, <1>12, <2>1, <2>3
  <2>5. e.to > h.highest
    BY <1>6, <2>1, <2>4
  <2>6. ASSUME NEW all \in BOOLEAN, all <=> e.to = stack
        PROVE  View(g) = AfterAction(RaisedTo(View(h), e.to, all))
    <3>1. e.kind \in Wagers
      BY <2>4
    <3>2. QED
      BY <2>5, <2>6, <3>1, RaisesAlike
  <2>7. View(g) = AfterAction(RaisedTo(View(h), e.to, TRUE))
    BY <2>4, <2>6
  <2>8. QED
    BY <1>3, <1>7, <1>10, <1>13, <1>17, <2>4, <2>7
<1>18. CASE label = Raise
  <2>1. PICK target \in Int : target = RaiseTarget(v)
    BY <1>5, RaiseTargetType
  <2>2. target > v.highest /\ target <= stack /\ target # stack
    BY <1>3, <1>11, <1>18, <2>1 DEF LegalTarget
  <2>3. target \in Nat /\ target > top
    BY <1>4, <1>6, <2>1, <2>2
  <2>4. \A all \in BOOLEAN : AfterAction(RaisedTo(v, target, all)).paid[seat] = target
    BY <1>4, <1>5, <2>2, <2>3, RaisedPaid
  <2>5. Apply(v, stack, label).paid[seat] = target
    BY <1>10, <1>18, <2>1, <2>4
  <2>6. e.kind \in Wagers /\ e.to = target
    BY <1>6, <1>7, <1>12, <2>3, <2>5
  <2>7. e.to > h.highest
    BY <1>6, <2>3, <2>6
  <2>8. ASSUME NEW all \in BOOLEAN, all <=> e.to = stack
        PROVE  View(g) = AfterAction(RaisedTo(View(h), e.to, all))
    BY <2>6, <2>7, <2>8, RaisesAlike
  <2>9. View(g) = AfterAction(RaisedTo(View(h), e.to, FALSE))
    BY <2>2, <2>6, <2>8
  <2>10. QED
    BY <1>3, <1>7, <1>10, <1>13, <1>18, <2>1, <2>6, <2>9
<1>19. QED
  BY <1>14, <1>15, <1>16, <1>17, <1>18 DEF Labels

-----------------------------------------------------------------------------
(* The forced bets of stacks above the blind are the blueprint's first     *)
(* state.                                                                  *)
LEMMA KeptAll ==
  ASSUME NEW q \in Seq(Seats), NEW wanted, ToSet(q) \subseteq wanted
  PROVE  Kept(q, wanted) = q
<1>0. Len(q) \in Nat
  OBVIOUS
<1>1. PICK f : f = CHOOSE g : IsKept(g, q, wanted, Len(q))
  OBVIOUS
<1>2. Kept(q, wanted) = f[Len(q)]
  BY <1>1, Zenon DEF Kept, IsKept
<1>3. IsKept(f, q, wanted, Len(q))
  BY <1>0, <1>1, KeptExists, Zenon
<1>4. f[0] = <<>> /\ \A i \in 1..Len(q) : f[i] = Append(f[i - 1], q[i])
  <2>1. 0 \in 0..Len(q) /\ \A i \in 1..Len(q) : i \in 0..Len(q) /\ i # 0
    BY <1>0
  <2>2. \A i \in 1..Len(q) : q[i] \in wanted
    BY DEF ToSet
  <2>3. QED
    BY <1>3, <2>1, <2>2 DEF IsKept
<1> DEFINE First(i) == f[i] \in Seq(Seats) /\ Len(f[i]) = i /\ \A j \in 1..i : f[i][j] = q[j]
           B == {i \in 0..Len(q) : ~First(i)}
<1>5. SUFFICES ASSUME B # {} PROVE FALSE
  <2>1. ASSUME First(Len(q)) PROVE f[Len(q)] = q
    BY <2>1
  <2>2. Len(q) \in 0..Len(q)
    BY <1>0
  <2> HIDE DEF First
  <2>3. B = {} => First(Len(q))
    BY <2>2
  <2>4. QED
    BY <1>2, <2>1, <2>3
<1>6. PICK k \in B : \A l \in B : k <= l
  <2> HIDE DEF B
  <2>1. B \subseteq Nat
    BY <1>0 DEF B
  <2>2. QED
    BY <1>5, <2>1, LeastNumber
<1> HIDE DEF First
<1>7. k \in 0..Len(q) /\ ~First(k) /\ k \in Nat
  BY <1>0, <1>6
<1>8. k # 0
  <2>1. First(0)
    BY <1>4 DEF First
  <2>2. QED
    BY <1>7, <2>1
<1>9. k - 1 \in 0..Len(q) /\ ~(k <= k - 1) /\ k \in 1..Len(q)
  BY <1>0, <1>7, <1>8
<1>10. First(k - 1)
  BY <1>6, <1>9
<1>11. PICK shorter \in Seq(Seats), x \in Seats :
         /\ shorter = f[k - 1] /\ Len(shorter) = k - 1
         /\ \A j \in 1 .. k - 1 : shorter[j] = q[j]
         /\ x = q[k]
  BY <1>9, <1>10 DEF First
<1>12. f[k] = Append(shorter, x)
  <2>1. f[k] = Append(f[k - 1], q[k])
    BY <1>4, <1>9
  <2>2. shorter = f[k - 1] /\ x = q[k]
    BY <1>11
  <2>3. QED
    BY <2>1, <2>2, Zenon
<1>13. /\ Append(shorter, x) \in Seq(Seats) /\ Len(Append(shorter, x)) = k
       /\ Append(shorter, x)[k] = x
       /\ \A j \in 1 .. k - 1 : Append(shorter, x)[j] = q[j]
  BY <1>7, <1>9, <1>11, AppendProperties
<1>14. \A j \in 1..k : Append(shorter, x)[j] = q[j]
  <2>1. PICK y : y = Append(shorter, x)
    OBVIOUS
  <2>2. y[k] = q[k] /\ \A j \in 1 .. k - 1 : y[j] = q[j]
    BY <1>11, <1>13, <2>1
  <2>3. \A j \in 1..k : j = k \/ j \in 1 .. k - 1
    BY <1>7
  <2>4. QED
    BY <2>1, <2>2, <2>3
<1>15. First(k)
  BY <1>12, <1>13, <1>14 DEF First
<1>16. QED
  BY <1>7, <1>15

LEMMA BlindSeats ==
  /\ SmallBlindSeat(0) \in Seats /\ BigBlindSeat(0) \in Seats
  /\ SmallBlindSeat(0) # BigBlindSeat(0)
<1>1. Players \in Nat /\ Players >= 2
  BY ReplayAssumption
<1>2. ASSUME NEW s \in Seats PROVE NextSeat(s) \in Seats /\ NextSeat(s) # s
  <2>1. s \in Nat /\ s < Players
    BY <1>1 DEF Seats
  <2>2. CASE s + 1 < Players
    <3>1. (s + 1) % Players = s + 1
      BY <1>1, <2>1, <2>2
    <3>2. QED
      BY <1>1, <2>1, <2>2, <3>1 DEF NextSeat, Seats
  <2>3. CASE s + 1 = Players
    <3>1. (s + 1) % Players = 0
      BY <1>1, <2>1, <2>3
    <3>2. QED
      BY <1>1, <2>1, <2>3, <3>1 DEF NextSeat, Seats
  <2>4. QED
    BY <1>1, <2>1, <2>2, <2>3
<1>3. SmallBlindSeat(0) \in Seats
  <2>1. 0 \in Seats
    BY <1>1 DEF Seats
  <2>2. QED
    BY <1>2, <2>1 DEF SmallBlindSeat
<1>4. QED
  BY <1>2, <1>3 DEF BigBlindSeat

\* A forced bet that leaves chips.
Committed(g, h, seat, amount) ==
  /\ g \in HandType /\ g.street = h.street /\ g.folded = h.folded /\ g.allIn = h.allIn
  /\ g.highest = h.highest /\ g.lastFullRaise = h.lastFullRaise /\ g.acted = h.acted
  /\ g.pending = h.pending /\ g.closed = h.closed /\ g.terminal = h.terminal
  /\ g.streetPaid = [h.streetPaid EXCEPT ![seat] = amount]
  /\ \A s \in Seats : s # seat => g.remaining[s] = h.remaining[s]

LEMMA CommitEven ==
  ASSUME NEW h \in HandType, NEW seat \in Seats, NEW amount \in Nat \ {0},
         h.remaining[seat] > amount, h.streetPaid[seat] = 0
  PROVE  Committed(CommitDelta(h, seat, amount), h, seat, amount)
<1>1. /\ h.remaining \in [Seats -> Nat] /\ h.streetPaid \in [Seats -> Nat]
      /\ h.totalPaid \in [Seats -> Nat]
      /\ h.remaining[seat] \in Nat /\ h.totalPaid[seat] \in Nat
  BY DEF HandType
<1>2. /\ Lesser(amount, h.remaining[seat]) = amount /\ h.remaining[seat] # amount
      /\ h.remaining[seat] - amount \in Nat /\ h.totalPaid[seat] + amount \in Nat
      /\ h.streetPaid[seat] + amount = amount
  BY <1>1 DEF Lesser
<1>3. PICK r \in [Seats -> Nat], t \in [Seats -> Nat], p \in [Seats -> Nat] :
        /\ r = [h.remaining EXCEPT ![seat] = h.remaining[seat] - amount]
        /\ t = [h.totalPaid EXCEPT ![seat] = h.totalPaid[seat] + amount]
        /\ p = [h.streetPaid EXCEPT ![seat] = amount]
  <2>1. /\ [h.remaining EXCEPT ![seat] = h.remaining[seat] - amount] \in [Seats -> Nat]
        /\ [h.totalPaid EXCEPT ![seat] = h.totalPaid[seat] + amount] \in [Seats -> Nat]
        /\ [h.streetPaid EXCEPT ![seat] = amount] \in [Seats -> Nat]
    BY <1>1, <1>2
  <2>2. QED
    BY <2>1
<1>4. PICK g : g = [h EXCEPT !.remaining = r, !.streetPaid = p, !.totalPaid = t, !.allIn = h.allIn]
  OBVIOUS
<1>5. CommitDelta(h, seat, amount) = g
  BY <1>2, <1>3, <1>4 DEF CommitDelta
<1>6. /\ g \in HandType /\ g.street = h.street /\ g.folded = h.folded /\ g.allIn = h.allIn
      /\ g.highest = h.highest /\ g.lastFullRaise = h.lastFullRaise /\ g.acted = h.acted
      /\ g.pending = h.pending /\ g.closed = h.closed /\ g.terminal = h.terminal
      /\ g.streetPaid = p /\ g.remaining = r
  BY <1>3, <1>4 DEF HandType
<1>7. QED
  BY <1>1, <1>3, <1>5, <1>6 DEF Committed

\* Nobody posts an ante.
LEMMA NoAnte ==
  ASSUME NEW h \in HandType, h.totalPaid = Zero, h.allIn = {},
         \A s \in Seats : h.remaining[s] # 0
  PROVE  Anted(h, 0) = h
<1>0. PICK fee \in Nat : fee = 0
  OBVIOUS
<1>1. h.remaining \in [Seats -> Nat] /\ h.totalPaid \in [Seats -> Nat]
  BY DEF HandType
<1>2. ASSUME NEW s \in Seats
      PROVE  h.remaining[s] - Lesser(fee, h.remaining[s]) = h.remaining[s]
             /\ h.totalPaid[s] + Lesser(fee, h.remaining[s]) = h.totalPaid[s]
             /\ ~(h.remaining[s] <= fee)
  <2>1. h.remaining[s] \in Nat /\ h.totalPaid[s] \in Nat /\ h.remaining[s] # 0
    BY <1>1
  <2>2. QED
    BY <1>0, <2>1 DEF Lesser
<1>3. /\ [s \in Seats |-> h.remaining[s] - Lesser(fee, h.remaining[s])] = h.remaining
      /\ [s \in Seats |-> h.totalPaid[s] + Lesser(fee, h.remaining[s])] = h.totalPaid
  BY <1>1, <1>2
<1>4. {} \cup {s \in Seats : h.remaining[s] <= fee} = {}
  BY <1>2
<1>5. PICK g : g = [h EXCEPT !.remaining = h.remaining, !.totalPaid = h.totalPaid,
                             !.allIn = h.allIn]
  OBVIOUS
<1>6. g = h
  BY <1>5 DEF HandType
<1>7. Anted(h, fee) = g
  BY <1>3, <1>4, <1>5 DEF Anted
<1>8. QED
  BY <1>0, <1>6, <1>7

LEMMA PostedType == Posted \in RoundType /\ PreflopOrder \in Seq(Seats)
<1>1. PreflopOrder \in Seq(Seats)
  BY BlindSeats, OrderedAfterFacts DEF PreflopOrder
<1>2. /\ Zero \in [Seats -> Nat] /\ SmallBlind \in Nat /\ BigBlind \in Nat \ {0}
  BY ReplayAssumption DEF Zero
<1>3. [Zero EXCEPT ![SmallBlindSeat(0)] = SmallBlind, ![BigBlindSeat(0)] = BigBlind]
        \in [Seats -> Nat]
  BY <1>2
<1>4. QED
  BY <1>1, <1>2, <1>3 DEF Posted, RoundType

LEMMA SeveralSeats == ~(Cardinality(Seats) <= 1)
<1>1. Players \in Nat /\ Players - 1 \in Int /\ 0 \in Int /\ Players >= 2
  BY ReplayAssumption
<1>2. Cardinality(0 .. Players - 1) = IF 0 > Players - 1 THEN 0 ELSE Players - 1 - 0 + 1
  BY <1>1, FS_Interval
<1>3. QED
  BY <1>1, <1>2 DEF Seats

LEMMA DealtView ==
  ASSUME NEW stacks \in [Seats -> Nat \ {0}], \A s \in Seats : stacks[s] > BigBlind
  PROVE  View(Dealt(Button, stacks, 0)) = Posted
<1> DEFINE bare == [street |-> 1, remaining |-> stacks, streetPaid |-> Zero, totalPaid |-> Zero,
                    folded |-> {}, allIn |-> {}, highest |-> 0, lastFullRaise |-> BigBlind,
                    acted |-> {}, pending |-> <<>>, closed |-> FALSE, terminal |-> FALSE]
           sb == SmallBlindSeat(0)
           bb == BigBlindSeat(0)
           small == CommitDelta(bare, sb, SmallBlind)
           big == CommitDelta(small, bb, BigBlind)
<1>1. /\ SmallBlind \in Nat \ {0} /\ BigBlind \in Nat \ {0} /\ SmallBlind <= BigBlind
      /\ Zero \in [Seats -> Nat] /\ \A s \in Seats : Zero[s] = 0
  BY ReplayAssumption DEF Zero
<1>2. sb \in Seats /\ bb \in Seats /\ sb # bb
  BY BlindSeats
<1>3. stacks \in [Seats -> Nat] /\ <<>> \in Seq(Seats)
  OBVIOUS
<1>4. /\ bare \in HandType /\ bare.remaining = stacks /\ bare.streetPaid = Zero
      /\ bare.totalPaid = Zero /\ bare.folded = {} /\ bare.allIn = {} /\ bare.street = 1
      /\ bare.lastFullRaise = BigBlind /\ bare.closed = FALSE /\ bare.terminal = FALSE
      /\ bare.acted = {}
  BY <1>1, <1>3 DEF HandType
<1> HIDE DEF bare, sb, bb
<1>5. Anted(bare, 0) = bare
  BY <1>4, NoAnte
<1>6. Committed(small, bare, sb, SmallBlind)
  <2>1. bare.remaining[sb] > SmallBlind /\ bare.streetPaid[sb] = 0
    BY <1>1, <1>2, <1>4
  <2>2. QED
    BY <1>1, <1>2, <1>4, <2>1, CommitEven
<1> HIDE DEF small
<1>7. /\ small \in HandType /\ small.folded = {} /\ small.allIn = {}
      /\ small.lastFullRaise = BigBlind /\ small.closed = FALSE
      /\ small.streetPaid = [Zero EXCEPT ![sb] = SmallBlind]
      /\ small.remaining[bb] = stacks[bb]
  BY <1>2, <1>4, <1>6 DEF Committed
<1>8. Committed(big, small, bb, BigBlind)
  <2>1. small.remaining[bb] > BigBlind /\ small.streetPaid[bb] = 0
    BY <1>1, <1>2, <1>7
  <2>2. QED
    BY <1>1, <1>2, <1>7, <2>1, CommitEven
<1> HIDE DEF big
<1>9. PICK paid \in [Seats -> Nat] :
        /\ paid = [Zero EXCEPT ![sb] = SmallBlind, ![bb] = BigBlind]
        /\ paid[sb] = SmallBlind /\ paid[bb] = BigBlind
        /\ \A s \in Seats : s # sb /\ s # bb => paid[s] = 0
  <2>1. PICK paid : paid = [Zero EXCEPT ![sb] = SmallBlind, ![bb] = BigBlind]
    OBVIOUS
  <2>2. /\ paid \in [Seats -> Nat] /\ paid[sb] = SmallBlind /\ paid[bb] = BigBlind
        /\ \A s \in Seats : s # sb /\ s # bb => paid[s] = 0
    BY <1>1, <1>2, <2>1
  <2>3. QED
    BY <2>1, <2>2
<1>10. /\ big \in HandType /\ big.folded = {} /\ big.allIn = {}
       /\ big.lastFullRaise = BigBlind /\ big.closed = FALSE /\ big.streetPaid = paid
  BY <1>7, <1>8, <1>9 DEF Committed
<1>11. Max(Range(paid)) = BigBlind
  <2>1. \A s \in Seats : paid[s] <= BigBlind
    BY <1>1, <1>9
  <2>2. PICK most \in Nat : /\ most = Max(Range(paid))
                            /\ \A s \in Seats : paid[s] <= most
                            /\ \E s \in Seats : paid[s] = most
    BY <1>1, <2>1, HighestFacts
  <2>3. PICK s \in Seats : paid[s] = most
    BY <2>2
  <2>4. most <= BigBlind
    BY <2>1, <2>3
  <2>5. BigBlind <= most
    BY <1>2, <1>9, <2>2
  <2>6. QED
    BY <1>1, <2>2, <2>4, <2>5
<1>12. PICK posted : posted = [big EXCEPT !.highest = BigBlind]
  OBVIOUS
<1>13. /\ posted \in HandType /\ posted.folded = {} /\ posted.allIn = {}
       /\ posted.lastFullRaise = BigBlind /\ posted.closed = FALSE /\ posted.streetPaid = paid
       /\ posted.highest = BigBlind
  BY <1>1, <1>10, <1>12 DEF HandType
<1>14. Eligible(posted) = Seats
  BY <1>13 DEF Eligible, Live
<1>15. PICK order \in Seq(Seats) :
         order = OrderedAfter(bb, Seats) /\ IsInjective(order) /\ order = PreflopOrder
  BY <1>2, OrderedAfterFacts DEF bb, PreflopOrder
<1>16. PICK h : h = [posted EXCEPT !.pending = order]
  OBVIOUS
<1>17. /\ h \in HandType /\ h.folded = {} /\ h.allIn = {} /\ h.pending = order
       /\ h.lastFullRaise = BigBlind /\ h.closed = FALSE /\ h.streetPaid = paid
       /\ h.highest = BigBlind
  BY <1>13, <1>15, <1>16 DEF HandType
<1>18. Dealt(Button, stacks, 0) = NormalizeRound(h)
  <2>1. PostForcedBets(bare, Button, 0) = posted
    BY <1>5, <1>10, <1>11, <1>12 DEF PostForcedBets, small, big, sb, bb, Button
  <2>2. QED
    BY <1>14, <1>15, <1>16, <2>1 DEF Dealt, bare, bb, Button
<1>19. View(h) = Posted
  <2>1. View(h) \in RoundType /\ Posted \in RoundType
    BY <1>17, ViewFacts, PostedType
  <2>2. /\ View(h).paid = paid /\ View(h).folded = {} /\ View(h).allIn = {}
        /\ View(h).pending = PreflopOrder /\ View(h).highest = BigBlind
        /\ View(h).lastFullRaise = BigBlind /\ View(h).terminal = FALSE
    BY <1>15, <1>17 DEF View
  <2>3. /\ Posted.paid = paid /\ Posted.folded = {} /\ Posted.allIn = {}
        /\ Posted.pending = PreflopOrder /\ Posted.highest = BigBlind
        /\ Posted.lastFullRaise = BigBlind /\ Posted.terminal = FALSE
    BY <1>9 DEF Posted, sb, bb
  <2>4. QED
    BY <2>1, <2>2, <2>3, SameView
<1>20. NormalizeRound(h) = h
  <2>1. Live(h) = Seats /\ Eligible(h) = Seats
    BY <1>17 DEF Live, Eligible
  <2>2. ToSet(order) = Seats
    BY <1>2, <1>15, OrderedAfterFacts
  <2>3. Kept(h.pending, Seats) = order
    BY <1>15, <1>17, <2>2, KeptAll
  <2>4. order # <<>>
    <3>1. ToSet(<<>>) = {}
      BY DEF ToSet
    <3>2. QED
      BY <1>2, <2>2, <3>1
  <2>5. Seats # {} /\ \A only : Seats # {only}
    BY <1>2
  <2>6. NormalizeRound(h) = [h EXCEPT !.pending = order, !.closed = @ \/ order = <<>>]
    BY <2>1, <2>3, <2>5, SeveralSeats, Zenon DEF NormalizeRound
  <2>7. (h.closed \/ order = <<>>) = h.closed
    BY <1>17, <2>4
  <2>8. NormalizeRound(h) = [h EXCEPT !.pending = h.pending, !.closed = h.closed]
    BY <1>17, <2>6, <2>7
  <2>9. QED
    BY <1>17, <2>8 DEF HandType
<1>21. QED
  BY <1>18, <1>19, <1>20

-----------------------------------------------------------------------------
(* The lines: each is the root, or a shorter line and one more action.     *)
Roots == {Root(stack) : stack \in Buckets}

IsLevels(f, n) ==
  f = [i \in 0..n |-> IF i = 0 THEN {Root(stack) : stack \in Buckets} ELSE Longer(f[i - 1])]

LEMMA LevelsExist ==
  ASSUME NEW n \in Nat
  PROVE  \E f : IsLevels(f, n)
<1> DEFINE B == {k \in Nat : ~\E f : IsLevels(f, k)}
<1>1. SUFFICES ASSUME B # {} PROVE FALSE
  BY Zenon
<1>2. PICK k \in B : \A l \in B : k <= l
  <2> HIDE DEF B
  <2>1. B \subseteq Nat
    BY DEF B
  <2>2. QED
    BY <1>1, <2>1, LeastNumber
<1>3. k \in Nat /\ ~\E f : IsLevels(f, k)
  BY Zenon
<1>4. CASE k = 0
  <2>1. PICK f : f = [i \in 0..0 |-> Roots]
    OBVIOUS
  <2>2. f = [i \in 0..k |-> IF i = 0 THEN Roots ELSE Longer(f[i - 1])]
    BY <1>4, <2>1
  <2>3. QED
    BY <1>3, <2>2, Zenon DEF IsLevels, Roots
<1>5. CASE k # 0
  <2>1. k - 1 \in Nat /\ ~(k <= k - 1)
    BY <1>3, <1>5
  <2>2. PICK h : IsLevels(h, k - 1)
    BY <1>2, <2>1
  <2>3. PICK g : g = [i \in 0..k |-> IF i \in 0 .. k - 1 THEN h[i] ELSE Longer(h[i - 1])]
    OBVIOUS
  <2>4. ASSUME NEW i \in 0..k
        PROVE  g[i] = IF i = 0 THEN Roots ELSE Longer(g[i - 1])
    <3>1. i # 0 => i - 1 \in 0 .. k - 1 /\ i - 1 \in 0..k
      BY <1>3
    <3>2. i # 0 => g[i - 1] = h[i - 1]
      BY <2>3, <3>1
    <3>3. i = 0 => i \in 0 .. k - 1
      BY <1>3, <1>5
    <3>4. i \in 0 .. k - 1 => h[i] = IF i = 0 THEN Roots ELSE Longer(h[i - 1])
      BY <2>2 DEF IsLevels, Roots
    <3>5. g[i] = IF i = 0 THEN Roots ELSE Longer(h[i - 1])
      BY <2>3, <3>3, <3>4
    <3>6. QED
      BY <3>2, <3>5
  <2>5. g = [i \in 0..k |-> IF i = 0 THEN Roots ELSE Longer(g[i - 1])]
    BY <2>3, <2>4
  <2>6. QED
    BY <1>3, <2>5, Zenon DEF IsLevels, Roots
<1>6. QED
  BY <1>4, <1>5

LEMMA LevelsFacts ==
  \E f : /\ Lines = UNION {f[n] : n \in 0..MaxLine} /\ f[0] = Roots
         /\ \A n \in 1..MaxLine : f[n] = Longer(f[n - 1])
<1>0. MaxLine \in Nat
  BY BlueprintAssumption
<1>1. PICK f : f = CHOOSE g : IsLevels(g, MaxLine)
  OBVIOUS
<1>2. Lines = UNION {f[n] : n \in 0..MaxLine}
  BY <1>1, Zenon DEF Lines, IsLevels
<1>3. IsLevels(f, MaxLine)
  BY <1>0, <1>1, LevelsExist, Zenon
<1>4. 0 \in 0..MaxLine /\ \A n \in 1..MaxLine : n \in 0..MaxLine /\ n # 0
  BY <1>0
<1>5. f[0] = Roots /\ \A n \in 1..MaxLine : f[n] = Longer(f[n - 1])
  BY <1>3, <1>4 DEF IsLevels, Roots
<1>6. QED
  BY <1>2, <1>5

LEMMA LinesFacts ==
  ASSUME NEW l \in Lines
  PROVE  \/ l \in Roots
         \/ \E shorter \in Lines :
              \E label \in Menu(shorter.state, shorter.stack) : l = Extended(shorter, label)
<1>0. MaxLine \in Nat
  BY BlueprintAssumption
<1>1. PICK f : /\ Lines = UNION {f[n] : n \in 0..MaxLine} /\ f[0] = Roots
               /\ \A n \in 1..MaxLine : f[n] = Longer(f[n - 1])
  BY LevelsFacts
<1>2. PICK n \in 0..MaxLine : l \in f[n]
  BY <1>1
<1>3. CASE n = 0
  BY <1>1, <1>2, <1>3
<1>4. CASE n # 0
  <2>1. n \in 1..MaxLine /\ n - 1 \in 0..MaxLine
    BY <1>0, <1>4
  <2>2. l \in Longer(f[n - 1])
    BY <1>1, <1>2, <2>1
  <2>3. PICK shorter \in f[n - 1] :
          \E label \in Menu(shorter.state, shorter.stack) : l = Extended(shorter, label)
    BY <2>2 DEF Longer
  <2>4. shorter \in Lines
    BY <1>1, <2>1
  <2>5. QED
    BY <2>3, <2>4
<1>5. QED
  BY <1>3, <1>4

Listed(l) == l.stack \in Buckets /\ \E T : l.trace \in Seq(T)

LEMMA ExtendedFacts ==
  ASSUME NEW shorter, NEW label
  PROVE  \E x : /\ x.actor = ActorOf(shorter.state)
                /\ x.paid = Extended(shorter, label).state.paid[x.actor]
                /\ Extended(shorter, label).trace = Append(shorter.trace, x)
                /\ Extended(shorter, label).stack = shorter.stack
                /\ Extended(shorter, label).state =
                     Apply(shorter.state, shorter.stack, label)
<1>1. PICK after : after = Apply(shorter.state, shorter.stack, label)
  OBVIOUS
<1>2. PICK actor : actor = ActorOf(shorter.state)
  OBVIOUS
<1>3. PICK x : x = [actor |-> actor, paid |-> after.paid[actor]]
  OBVIOUS
<1>4. PICK steps : steps = Append(shorter.steps, [actor |-> actor, label |-> label])
  OBVIOUS
<1>5. PICK trace : trace = Append(shorter.trace, x)
  OBVIOUS
<1>6. Extended(shorter, label) =
        [stack |-> shorter.stack, state |-> after, steps |-> steps, trace |-> trace]
  BY <1>1, <1>2, <1>3, <1>4, <1>5, Zenon DEF Extended
<1>7. QED
  BY <1>1, <1>2, <1>3, <1>5, <1>6

LEMMA LinesListed ==
  ASSUME NEW l \in Lines
  PROVE  Listed(l)
<1>0. MaxLine \in Nat
  BY BlueprintAssumption
<1>1. PICK f : /\ Lines = UNION {f[n] : n \in 0..MaxLine} /\ f[0] = Roots
               /\ \A n \in 1..MaxLine : f[n] = Longer(f[n - 1])
  BY LevelsFacts
<1> DEFINE B == {n \in 0..MaxLine : \E x \in f[n] : ~Listed(x)}
<1>2. SUFFICES ASSUME B # {} PROVE FALSE
  BY <1>1
<1>3. PICK k \in B : \A n \in B : k <= n
  <2> HIDE DEF B
  <2>1. B \subseteq Nat
    BY <1>0 DEF B
  <2>2. QED
    BY <1>2, <2>1, LeastNumber
<1>4. k \in 0..MaxLine /\ \E x \in f[k] : ~Listed(x)
  BY <1>3
<1>5. PICK x \in f[k] : ~Listed(x)
  BY <1>4
<1>6. CASE k = 0
  <2>1. PICK stack \in Buckets : x = Root(stack)
    BY <1>1, <1>5, <1>6 DEF Roots
  <2>2. x.stack = stack /\ x.trace = <<>>
    BY <2>1 DEF Root
  <2>3. <<>> \in Seq({0})
    OBVIOUS
  <2>4. QED
    BY <1>5, <2>1, <2>2, <2>3 DEF Listed
<1>7. CASE k # 0
  <2>1. k \in 1..MaxLine /\ k - 1 \in 0..MaxLine /\ ~(k <= k - 1)
    BY <1>0, <1>4, <1>7
  <2>2. x \in Longer(f[k - 1])
    BY <1>1, <1>5, <2>1
  <2>3. PICK shorter \in f[k - 1] :
          \E label \in Menu(shorter.state, shorter.stack) : x = Extended(shorter, label)
    BY <2>2 DEF Longer
  <2>4. Listed(shorter)
    BY <1>3, <2>1, <2>3
  <2>5. PICK step : x.trace = Append(shorter.trace, step) /\ x.stack = shorter.stack
    <3>1. PICK label : x = Extended(shorter, label)
      BY <2>3
    <3>2. QED
      BY <3>1, ExtendedFacts
  <2>6. PICK T : shorter.trace \in Seq(T) /\ shorter.stack \in Buckets
    BY <2>4 DEF Listed
  <2>7. PICK U : U = T \cup {step}
    OBVIOUS
  <2>8. shorter.trace \in Seq(U) /\ step \in U
    BY <2>6, <2>7
  <2>9. Append(shorter.trace, step) \in Seq(U)
    BY <2>8, AppendProperties
  <2>10. QED
    BY <1>5, <2>5, <2>6, <2>9 DEF Listed
<1>8. QED
  BY <1>6, <1>7

\* A list ends in one way.
LEMMA SameEnd ==
  ASSUME NEW S, NEW T, NEW a \in Seq(S), NEW b \in Seq(T), NEW x, NEW y
  PROVE  /\ Append(a, x) # <<>>
         /\ Append(a, x) = Append(b, y) => a = b /\ x = y
<1>1. PICK U : U = (S \cup T) \cup {x, y}
  OBVIOUS
<1>2. a \in Seq(U) /\ b \in Seq(U) /\ x \in U /\ y \in U /\ Len(a) \in Nat /\ Len(b) \in Nat
  BY <1>1
<1>3. /\ Append(a, x) \in Seq(U) /\ Len(Append(a, x)) = Len(a) + 1
      /\ Append(a, x)[Len(a) + 1] = x /\ \A i \in 1..Len(a) : Append(a, x)[i] = a[i]
      /\ Append(b, y) \in Seq(U) /\ Len(Append(b, y)) = Len(b) + 1
      /\ Append(b, y)[Len(b) + 1] = y /\ \A i \in 1..Len(b) : Append(b, y)[i] = b[i]
  BY <1>2, AppendProperties
<1>4. Append(a, x) # <<>>
  BY <1>2, <1>3
<1>5. ASSUME Append(a, x) = Append(b, y) PROVE a = b /\ x = y
  <2>1. Len(a) = Len(b)
    BY <1>2, <1>3, <1>5
  <2>2. x = y /\ \A i \in 1..Len(a) : a[i] = b[i]
    BY <1>2, <1>3, <1>5, <2>1
  <2>3. QED
    BY <1>2, <2>1, <2>2
<1>6. QED
  BY <1>4, <1>5

-----------------------------------------------------------------------------
(* The line of a hand.                                                     *)

\* The tree knows deeper stacks than the blinds, and calls it all-in to raise
\* for everything.
TreeAssumption ==
  \A l \in Lines : /\ l.stack > BigBlind
                   /\ Raise \in Menu(l.state, l.stack) => RaiseTarget(l.state) # l.stack

SameStart(stacks, stack) == \A s \in Seats : stacks[s] = stack

\* The last action of the line is one of the hand.
Comes(l, h, stacks) ==
  \A shorter \in Lines : \A label \in Menu(shorter.state, shorter.stack) :
    l = Extended(shorter, label) =>
      \E p, e : /\ HandOK(p, stacks) /\ Opening(p) /\ View(p) = shorter.state
                /\ Acts(p, e, h)
                /\ label = FoldLabel <=> e.kind = "FOLD"

\* The line of these actions, if the tree has it, is at this hand.
IsAt(l, h, trace, stacks) ==
  l.trace = trace /\ SameStart(stacks, l.stack) => l.state = View(h) /\ Comes(l, h, stacks)

LEMMA SameStep ==
  ASSUME TreeAssumption, NEW stacks, NEW h, HandOK(h, stacks), Sound(h), Opening(h),
         NEW e, NEW g, Acts(h, e, g), NEW S, NEW trace \in Seq(S),
         \A l \in Lines : IsAt(l, h, trace, stacks),
         NEW r, r.actor = e.seat, r.paid = g.streetPaid[e.seat],
         NEW l \in Lines, l.trace = Append(trace, r), SameStart(stacks, l.stack),
         NEW shorter \in Lines, NEW label \in Menu(shorter.state, shorter.stack),
         l = Extended(shorter, label)
  PROVE  /\ View(h) = shorter.state /\ l.state = View(g)
         /\ label = FoldLabel <=> e.kind = "FOLD"
<1>1. PICK x : /\ x.actor = ActorOf(shorter.state) /\ x.paid = l.state.paid[x.actor]
               /\ l.trace = Append(shorter.trace, x) /\ l.stack = shorter.stack
               /\ l.state = Apply(shorter.state, shorter.stack, label)
  BY ExtendedFacts
<1>2. PICK T : shorter.trace \in Seq(T) /\ shorter.stack \in Buckets
  BY LinesListed DEF Listed
<1>3. shorter.trace = trace /\ x = r
  <2>1. Append(shorter.trace, x) = Append(trace, r)
    BY <1>1
  <2>2. PICK was : was = shorter.trace
    OBVIOUS
  <2>3. was \in Seq(T) /\ trace \in Seq(S) /\ Append(was, x) = Append(trace, r)
    BY <1>2, <2>1, <2>2
  <2>4. was = trace /\ x = r
    BY <2>3, SameEnd
  <2>5. QED
    BY <2>2, <2>4
<1>4. View(h) = shorter.state
  BY <1>1, <1>3 DEF IsAt
<1>5. PICK stack \in Nat : stack = shorter.stack
  BY <1>2, BlueprintAssumption
<1>6. \A s \in Seats : stacks[s] = stack
  BY <1>1, <1>5 DEF SameStart
<1>7. EvenRound(h, stacks, stack)
  BY <1>6 DEF EvenRound, HandOK, Opening
<1>8. label \in Labels /\ Legal(View(h), stack, label)
  BY <1>4, <1>5 DEF Menu
<1>9. label = Raise => RaiseTarget(View(h)) # stack
  BY <1>4, <1>5 DEF TreeAssumption
<1>10. l.state = Apply(View(h), stack, label)
  BY <1>1, <1>4, <1>5
<1>11. g.streetPaid[e.seat] = Apply(View(h), stack, label).paid[e.seat]
  BY <1>1, <1>3, <1>10
<1>12. View(g) = Apply(View(h), stack, label) /\ (label = FoldLabel <=> e.kind = "FOLD")
  BY <1>7, <1>8, <1>9, <1>11, ApplyIsApplied
<1>13. QED
  BY <1>4, <1>10, <1>12

LEMMA StepIsAt ==
  ASSUME TreeAssumption, NEW stacks, NEW h, HandOK(h, stacks), Sound(h), Opening(h),
         NEW e, NEW g, Acts(h, e, g), NEW S, NEW trace \in Seq(S),
         \A l \in Lines : IsAt(l, h, trace, stacks),
         NEW r, r.actor = e.seat, r.paid = g.streetPaid[e.seat]
  PROVE  \A l \in Lines : IsAt(l, g, Append(trace, r), stacks)
<1>1. SUFFICES ASSUME NEW l \in Lines, l.trace = Append(trace, r), SameStart(stacks, l.stack)
               PROVE  l.state = View(g) /\ Comes(l, g, stacks)
  BY DEF IsAt
<1>2. ASSUME NEW shorter \in Lines, NEW label \in Menu(shorter.state, shorter.stack),
             l = Extended(shorter, label)
      PROVE  /\ View(h) = shorter.state /\ l.state = View(g)
             /\ label = FoldLabel <=> e.kind = "FOLD"
  BY <1>1, <1>2, SameStep
<1>3. Comes(l, g, stacks)
  BY <1>2 DEF Comes
<1>4. l.state = View(g)
  <2>1. l \notin Roots
    <3>1. <<>> # Append(trace, r)
      BY SameEnd
    <3>2. \A x \in Roots : x.trace = <<>>
      BY DEF Roots, Root
    <3>3. QED
      BY <1>1, <3>1, <3>2
  <2>2. QED
    BY <1>2, <2>1, LinesFacts
<1>5. QED
  BY <1>3, <1>4

LEMMA RootIsAt ==
  ASSUME TreeAssumption, NEW stacks \in [Seats -> Nat \ {0}]
  PROVE  \A l \in Lines : IsAt(l, Dealt(Button, stacks, 0), <<>>, stacks)
<1>1. SUFFICES ASSUME NEW l \in Lines, l.trace = <<>>, SameStart(stacks, l.stack)
               PROVE  /\ l.state = View(Dealt(Button, stacks, 0))
                      /\ Comes(l, Dealt(Button, stacks, 0), stacks)
  BY DEF IsAt
<1>2. ASSUME NEW shorter \in Lines, NEW label, l = Extended(shorter, label) PROVE FALSE
  <2>1. PICK x : l.trace = Append(shorter.trace, x)
    BY <1>2, ExtendedFacts
  <2>2. PICK T : shorter.trace \in Seq(T)
    BY LinesListed DEF Listed
  <2>3. QED
    BY <1>1, <2>1, <2>2, SameEnd
<1>3. PICK stack \in Buckets : l = Root(stack)
  BY <1>2, LinesFacts DEF Roots
<1>4. l.stack = stack /\ l.state = Posted /\ stack \in Nat /\ stack > BigBlind
  BY <1>3, BlueprintAssumption DEF Root, TreeAssumption
<1>5. \A s \in Seats : stacks[s] > BigBlind
  BY <1>1, <1>4 DEF SameStart
<1>6. View(Dealt(Button, stacks, 0)) = Posted
  BY <1>5, DealtView
<1>7. QED
  BY <1>2, <1>4, <1>6 DEF Comes

LineInv ==
  /\ start \in Starts
  /\ \E S : line \in Seq(S)
  /\ \E h : /\ HandOK(h, start) /\ Sound(h) /\ Opening(h)
            /\ hand.street = 1 => h = hand
            /\ hand.street > 1 => Deals(h, flop)
            /\ \A l \in Lines : IsAt(l, h, line, start)

LEMMA LineInit ==
  ASSUME TreeAssumption, SpotInit
  PROVE  LineInv
<1>1. /\ start \in [Seats -> Nat \ {0}] /\ HandSeen(hand) /\ hand.street = 1
  BY SpotInitKeeps DEF SpotInv
<1>2. HandOK(hand, start) /\ Sound(hand) /\ Opening(hand)
  BY <1>1 DEF HandSeen
<1>3. hand = Dealt(Button, start, 0) /\ line = <<>>
  BY DEF SpotInit
<1>4. \A l \in Lines : IsAt(l, hand, line, start)
  BY <1>1, <1>3, RootIsAt
<1>5. line \in Seq({0})
  BY <1>3
<1>6. start \in Starts
  BY DEF SpotInit
<1>7. QED
  BY <1>1, <1>2, <1>4, <1>5, <1>6 DEF LineInv

LEMMA LinePlay ==
  ASSUME TreeAssumption, SpotInv, LineInv, NEW e \in Events(hand), PlayEvent(e)
  PROVE  LineInv'
<1>1. PICK g : g = Applied(hand, e)
  OBVIOUS
<1>2. HandSeen(hand) /\ HandOK(hand, start) /\ Sound(hand)
  BY DEF SpotInv, HandSeen
<1>3. Acts(hand, e, g)
  BY <1>1, <1>2, EventsFacts
<1>4. HandSeen(g) /\ g.street = hand.street
  BY <1>3, SeenAct
<1>5. hand.street \in 1..4 /\ hand.street \in Nat
  BY <1>2, StreetIsNat
<1>6. PICK r : r = [actor |-> e.seat, paid |-> g.streetPaid[e.seat]]
  OBVIOUS
<1>7. /\ hand' = g /\ start' = start /\ flop' = flop
      /\ line' = IF hand.street = 1 THEN Append(line, r) ELSE line
  BY <1>1, <1>6 DEF PlayEvent
<1>8. PICK S : line \in Seq(S)
  BY DEF LineInv
<1>9. PICK h : /\ HandOK(h, start) /\ Sound(h) /\ Opening(h)
               /\ hand.street = 1 => h = hand
               /\ hand.street > 1 => Deals(h, flop)
               /\ \A l \in Lines : IsAt(l, h, line, start)
  BY DEF LineInv
<1>10. CASE hand.street = 1
  <2>1. HandOK(g, start) /\ Sound(g) /\ Opening(g)
    BY <1>4, <1>10 DEF HandSeen
  <2>2. \A l \in Lines : IsAt(l, hand, line, start)
    BY <1>9, <1>10
  <2>3. Opening(hand) /\ r.actor = e.seat /\ r.paid = g.streetPaid[e.seat]
    BY <1>6, <1>9, <1>10
  <2>4. \A l \in Lines : IsAt(l, g, Append(line, r), start)
    BY <1>2, <1>3, <1>8, <2>2, <2>3, StepIsAt
  <2>5. PICK U : U = S \cup {r}
    OBVIOUS
  <2>6. line \in Seq(U) /\ r \in U
    BY <1>8, <2>5
  <2>7. line' \in Seq(U)
    BY <1>7, <1>10, <2>6, AppendProperties
  <2>8. \A l \in Lines : IsAt(l, g, line', start')
    BY <1>7, <1>10, <2>4
  <2>9. /\ HandOK(g, start') /\ hand'.street = 1 /\ hand' = g /\ start' \in Starts
    BY <1>4, <1>7, <1>10, <2>1 DEF LineInv
  <2>10. QED
    BY <1>5, <1>10, <2>1, <2>7, <2>8, <2>9 DEF LineInv
<1>11. CASE hand.street > 1
  <2>1. hand'.street = hand.street /\ line' = line /\ hand.street # 1
    BY <1>4, <1>5, <1>7, <1>11
  <2>2. /\ HandOK(h, start') /\ Deals(h, flop') /\ \A l \in Lines : IsAt(l, h, line', start')
        /\ start' \in Starts
    BY <1>7, <1>9, <1>11, <2>1 DEF LineInv
  <2>3. QED
    BY <1>8, <1>9, <2>1, <2>2 DEF LineInv
<1>12. QED
  BY <1>5, <1>10, <1>11

LEMMA LineDeal ==
  ASSUME SpotInv, LineInv, DealNextStreet
  PROVE  LineInv'
<1>1. PICK g : g = AppliedDeal(hand, Button)
  OBVIOUS
<1>2. /\ Deals(hand, g) /\ hand' = g /\ start' = start /\ line' = line
      /\ flop' = IF hand.street = 1 THEN g ELSE flop
  BY <1>1 DEF DealNextStreet, Deals
<1>3. HandOK(hand, start)
  BY DEF SpotInv, HandSeen
<1>4. g.street = hand.street + 1 /\ hand.street \in Nat /\ hand.street \in 1..4
  BY <1>2, <1>3, StreetFacts, StreetIsNat
<1>5. PICK h : /\ HandOK(h, start) /\ Sound(h) /\ Opening(h)
               /\ hand.street = 1 => h = hand
               /\ hand.street > 1 => Deals(h, flop)
               /\ \A l \in Lines : IsAt(l, h, line, start)
  BY DEF LineInv
<1>6. PICK S : line \in Seq(S)
  BY DEF LineInv
<1>7. Deals(h, flop')
  BY <1>2, <1>4, <1>5
<1>8. hand'.street # 1
  BY <1>2, <1>4
<1>9. /\ HandOK(h, start') /\ line' \in Seq(S) /\ \A l \in Lines : IsAt(l, h, line', start')
      /\ start' \in Starts
  BY <1>2, <1>5, <1>6 DEF LineInv
<1>10. QED
  BY <1>5, <1>7, <1>8, <1>9 DEF LineInv

LEMMA LineStep ==
  ASSUME TreeAssumption, SpotInv, LineInv, [SpotNext]_spotVars
  PROVE  LineInv'
<1>1. ASSUME NEW reading \in Readings, TakeFrame(reading) PROVE LineInv'
  BY <1>1 DEF TakeFrame, LineInv
<1>2. ASSUME NEW event \in Events(hand), PlayEvent(event) PROVE LineInv'
  BY <1>2, LinePlay
<1>3. CASE DealNextStreet
  BY <1>3, LineDeal
<1>4. CASE UNCHANGED spotVars
  BY <1>4 DEF LineInv, spotVars
<1>5. QED
  BY <1>1, <1>2, <1>3, <1>4 DEF SpotNext

-----------------------------------------------------------------------------
(* The search finds the line of the hand, or nothing.                      *)
LEMMA UniqueFacts ==
  ASSUME NEW matches, RequireUnique(matches) # NoLine
  PROVE  /\ RequireUnique(matches) \in matches
         /\ \A other \in matches : other = RequireUnique(matches)
<1>1. PICK one \in matches : matches = {one}
  BY DEF RequireUnique
<1>2. RequireUnique(matches) \in matches
  BY <1>1 DEF RequireUnique
<1>3. QED
  BY <1>1, <1>2

LEMMA ResolveFacts ==
  ASSUME NEW state, NEW mode, NEW seen, state.observation = seen,
         Resolve(state, mode) # NoLine
  PROVE  /\ seen.known /\ BucketFits(seen, mode)
         /\ seen.terminal =>
              Resolve(state, mode) =
                RequireUnique(TerminalMatches(NearestBucket(seen), seen,
                                              MatchTolerances(seen, mode)))
         /\ ~seen.terminal =>
              Resolve(state, mode) =
                ResolveDecision(NearestBucket(seen), seen, MatchTolerances(seen, mode))
<1>1. PICK bucket : bucket = NearestBucket(seen)
  OBVIOUS
<1>2. PICK tolerance : tolerance = MatchTolerances(seen, mode)
  OBVIOUS
<1>3. Resolve(state, mode) =
        CASE ~seen.known -> NoLine
          [] seen.known /\ ~BucketFits(seen, mode) -> NoLine
          [] seen.known /\ BucketFits(seen, mode) /\ seen.terminal ->
               ResolveTerminalHandoff(bucket, seen, tolerance)
          [] seen.known /\ BucketFits(seen, mode) /\ ~seen.terminal ->
               IF DecisionAgrees(state, seen) THEN ResolveDecision(bucket, seen, tolerance)
               ELSE NoLine
  BY <1>1, <1>2, Zenon DEF Resolve
<1>4. PICK fits \in BOOLEAN, known \in BOOLEAN, terminal \in BOOLEAN :
        /\ fits <=> BucketFits(seen, mode)
        /\ known <=> seen.known
        /\ terminal <=> seen.terminal
  OBVIOUS
<1>5. known /\ fits
  BY <1>3, <1>4, Zenon
<1>6. terminal => Resolve(state, mode) = ResolveTerminalHandoff(bucket, seen, tolerance)
  BY <1>3, <1>4, <1>5, Zenon
<1>7. ~terminal => Resolve(state, mode) =
                     IF DecisionAgrees(state, seen)
                     THEN ResolveDecision(bucket, seen, tolerance) ELSE NoLine
  BY <1>3, <1>4, <1>5, Zenon
<1>8. terminal => Resolve(state, mode) =
                    RequireUnique(TerminalMatches(bucket, seen, tolerance))
  BY <1>6, Zenon DEF ResolveTerminalHandoff
<1>9. ~terminal => Resolve(state, mode) = ResolveDecision(bucket, seen, tolerance)
  BY <1>7, Zenon
<1>10. QED
  BY <1>1, <1>2, <1>4, <1>5, <1>8, <1>9, Zenon

LEMMA ToleranceFacts ==
  ASSUME NEW seen, NEW mode, seen.paid \in [Seats -> Nat]
  PROVE  \A s \in Seats : MatchTolerances(seen, mode)[s] \in Nat
<1>1. BigBlind \in Nat /\ SizeTolerancePct \in Nat
  BY ReplayAssumption, RouterAssumption
<1>2. PICK least \in Nat : least = 5 * BigBlind
  BY <1>1
<1>3. SUFFICES ASSUME NEW s \in Seats PROVE MatchTolerances(seen, mode)[s] \in Nat
  OBVIOUS
<1>4. seen.paid[s] * SizeTolerancePct \in Nat
  BY <1>1
<1>5. PICK more \in Nat : more = seen.paid[s] * SizeTolerancePct
  BY <1>4
<1>6. MatchTolerances(seen, mode)[s] = least \/ MatchTolerances(seen, mode)[s] = Greater(least, more)
  BY <1>2, <1>5 DEF MatchTolerances
<1>7. QED
  BY <1>6 DEF Greater

LEMMA NearItself ==
  ASSUME NEW a \in Nat, NEW tolerance \in Nat
  PROVE  Near(a, a, tolerance)
BY DEF Near

\* A bucket that fits exactly is the stack of everybody.
LEMMA ExactBucket ==
  ASSUME 5 * BigBlind < 100, NEW seen, seen.initial \in [Seats -> Nat],
         BucketFits(seen, "exact"), NearestBucket(seen) \in Nat
  PROVE  SameStart(seen.initial, NearestBucket(seen))
<1>1. PICK bucket \in Nat : bucket = NearestBucket(seen)
  OBVIOUS
<1>2. PICK tolerance \in Nat : tolerance = 5 * BigBlind /\ tolerance < 100
  BY ReplayAssumption
<1>3. \A s \in Seats : Near(seen.initial[s], bucket, tolerance)
  BY <1>1, <1>2 DEF BucketFits
<1>4. ASSUME NEW s \in Seats PROVE seen.initial[s] = bucket
  <2>1. PICK a \in Nat : a = seen.initial[s]
    OBVIOUS
  <2>2. 100 * (IF a < bucket THEN bucket - a ELSE a - bucket) <= tolerance
    BY <1>3, <2>1 DEF Near
  <2>3. QED
    BY <1>2, <2>1, <2>2
<1>5. QED
  BY <1>1, <1>4 DEF SameStart

\* How far a bucket is from a stack, in the measure of the nearest bucket.
Far(b, stack) == Distance(b, stack) * stack

\* The stack that everybody has is the nearest.
LEMMA EvenBucket ==
  ASSUME NEW seen, NEW stack \in Buckets, stack > 0, EffectiveStacks(seen) = {stack}
  PROVE  NearestBucket(seen) = stack
<1>1. stack \in Nat /\ Buckets \subseteq Nat
  BY BlueprintAssumption
<1>2. \A b \in Buckets : WorstMatch(b, {stack}) = stack
  <2>1. ASSUME NEW b \in Buckets PROVE WorstMatch(b, {stack}) = stack
    <3>1. Distance(b, stack) \in Nat
      BY <1>1 DEF Distance
    <3>2. Distance(b, stack) * stack \in Int
      BY <1>1, <3>1
    <3>3. Distance(b, stack) * stack >= Distance(b, stack) * stack
      BY <3>2
    <3>4. QED
      BY <3>3 DEF WorstMatch
  <2>2. QED
    BY <2>1
<1>3. ASSUME NEW a \in Buckets, NEW b \in Buckets
      PROVE  CloserOrLess(a, b, {stack}) <=>
               LET left == Distance(a, stack) * stack
                   right == Distance(b, stack) * stack
               IN  left < right \/ (left = right /\ a <= b)
  BY <1>2 DEF CloserOrLess
<1>9. ASSUME NEW b \in Buckets
      PROVE  Far(b, stack) \in Nat /\ (Far(b, stack) = 0 <=> b = stack)
  <2>1. b \in Nat
    BY <1>1
  <2>2. Distance(b, stack) \in Nat /\ (Distance(b, stack) = 0 <=> b = stack)
    BY <1>1, <2>1 DEF Distance
  <2>3. PICK d \in Nat : d = Distance(b, stack)
    BY <2>2
  <2>4. d * stack \in Nat /\ (d * stack = 0 <=> d = 0)
    BY <1>1
  <2>5. Far(b, stack) = d * stack
    BY <2>3 DEF Far
  <2>6. d = 0 <=> b = stack
    BY <2>2, <2>3
  <2>7. QED
    BY <2>4, <2>5, <2>6
<1>10. \A a, b \in Buckets :
         CloserOrLess(a, b, {stack}) <=>
           Far(a, stack) < Far(b, stack) \/ (Far(a, stack) = Far(b, stack) /\ a <= b)
  BY <1>3 DEF Far
<1>5. \A b \in Buckets : CloserOrLess(stack, b, {stack})
  BY <1>1, <1>9, <1>10
<1>6. \A b \in Buckets : CloserOrLess(b, stack, {stack}) => b = stack
  BY <1>1, <1>9, <1>10
<1>7. NearestBucket(seen) = CHOOSE b \in Buckets : \A c \in Buckets : CloserOrLess(b, c, {stack})
  BY DEF NearestBucket
<1>8. QED
  BY <1>5, <1>6, <1>7

\* The frame of a decision before the flop shows it.
LEMMA SeenDecision ==
  ASSUME SpotInv, Asked, hand.street = 1, NEW seen, PreflopState(frames).observation = seen,
         seen.known
  PROVE  /\ seen.paid = hand.streetPaid /\ seen.folded = hand.folded
         /\ seen.allIn = hand.allIn /\ seen.terminal = FALSE /\ seen.initial = start
         /\ seen.actor = Actor(hand) /\ ~hand.closed
<1>1. PICK f : f = Last(frames)
  OBVIOUS
<1>2. f.hand = hand
  BY <1>1 DEF Asked
<1>3. seen = CurrentDecision(f)
  BY <1>1 DEF PreflopState
<1>4. NoObservation.known = FALSE
  BY DEF NoObservation
<1>5. /\ Actor(f.hand) = hero
      /\ seen = Observed(f, f.hand.streetPaid, Folded(f), AllInSeats(f), FALSE)
  BY <1>3, <1>4 DEF CurrentDecision
<1>6. /\ start \in [Seats -> Nat \ {0}] /\ hero \in Seats
      /\ hand \in HandType /\ ChipsOK(hand, start) /\ Sound(hand) /\ Opening(hand)
  BY DEF SpotInv, HandSeen, HandOK
<1>7. hand.allIn \ hand.folded = hand.allIn
  BY <1>6 DEF Sound
<1>8. \A s \in Seats : hand.remaining[s] + hand.streetPaid[s] = start[s]
  BY <1>6 DEF ChipsOK, Opening
<1>9. [s \in Seats |-> hand.remaining[s] + hand.streetPaid[s]] = start
  BY <1>6, <1>8
<1>10. ~hand.closed
  <2>1. hero # NoSeat
    BY <1>6, SeatsFinite
  <2>2. QED
    BY <1>2, <1>5, <2>1 DEF Actor
<1>11. seen = [known |-> TRUE, actor |-> hero, paid |-> hand.streetPaid,
               folded |-> hand.folded, allIn |-> hand.allIn, terminal |-> FALSE,
               positionOnly |-> FALSE, initial |-> start]
  BY <1>2, <1>5, <1>7, <1>9 DEF Observed, Folded, AllInSeats, Stack, Bet
<1>12. Actor(hand) = hero
  BY <1>2, <1>5
<1>13. QED
  BY <1>10, <1>11, <1>12

\* The frames of a flop show the round before it.
LEMMA SeenTerminal ==
  ASSUME 5 * BigBlind < 100, SpotInv, Asked, hand.street > 1,
         NEW seen, LiveState(frames).observation = seen, seen.known
  PROVE  /\ seen.paid = flop.totalPaid /\ seen.folded = flop.folded
         /\ seen.allIn = flop.allIn /\ seen.terminal = TRUE /\ seen.initial = start
<1>1. seen = TerminalFromHistory(frames)
  BY DEF LiveState
<1>2. PICK n \in Nat : DOMAIN frames = 1..n
  BY DEF SpotInv
<1>3. PICK f, paid, folded, jammed : seen = Observed(f, paid, folded, jammed, TRUE)
  BY <1>1, <1>2, TerminalFacts
<1>4. seen.terminal = TRUE
  BY <1>3 DEF Observed
<1>5. HandoffIsTheHand
  BY HandoffExact
<1>6. QED
  BY <1>1, <1>4, <1>5 DEF HandoffIsTheHand

LEMMA CompatibleView ==
  ASSUME NEW h \in HandType, NEW seen, NEW tolerance, seen.paid = h.streetPaid,
         seen.folded = h.folded, seen.allIn = h.allIn, seen.terminal = h.closed,
         ~seen.terminal => seen.actor = Actor(h), \A s \in Seats : tolerance[s] \in Nat
  PROVE  Compatible(View(h), seen, tolerance)
<1>1. PICK v \in RoundType : v = View(h)
  BY ViewFacts
<1>2. /\ v.paid = seen.paid /\ v.folded = seen.folded /\ v.allIn = seen.allIn
      /\ v.terminal = seen.terminal /\ (~seen.terminal => ActorOf(v) = seen.actor)
  BY <1>1, ViewFacts DEF View
<1>3. \A s \in Seats : Near(v.paid[s], seen.paid[s], tolerance[s])
  BY <1>2, NearItself DEF RoundType
<1>4. QED
  BY <1>1, <1>2, <1>3 DEF Compatible

\* A line that ends in an action that is published is of one of the buckets.
LEMMA EndStack ==
  ASSUME NEW bucket, NEW seen, NEW tolerance,
         NEW found \in TerminalMatches(bucket, seen, tolerance)
  PROVE  found.stack = bucket /\ found.stack \in Buckets
<1>1. PICK a \in Published : a.line.stack = bucket /\ a.line = found
  BY DEF TerminalMatches
<1>2. PICK pair \in Spots \X Labels :
        a = [at |-> pair[1].state, label |-> pair[2], line |-> Extended(pair[1], pair[2])]
  BY DEF Published
<1>3. PICK spot \in Spots, label \in Labels : spot = pair[1] /\ label = pair[2]
  OBVIOUS
<1>4. found = Extended(spot, label)
  BY <1>1, <1>2, <1>3
<1>5. spot \in Lines
  BY DEF Spots
<1>6. found.stack = spot.stack
  BY <1>4, ExtendedFacts
<1>7. QED
  BY <1>1, <1>5, <1>6, LinesListed DEF Listed

\* At a decision before the flop.
LEMMA DecisionMatches ==
  ASSUME SpotInv, Asked, hand.street = 1, NEW seen, PreflopState(frames).observation = seen,
         seen.known, NEW tolerance, \A s \in Seats : tolerance[s] \in Nat,
         NEW other \in Lines, other.state = View(hand)
  PROVE  other \in {spot \in Spots : /\ spot.stack = other.stack
                                     /\ Compatible(spot.state, seen, tolerance)}
<1>1. /\ seen.paid = hand.streetPaid /\ seen.folded = hand.folded
      /\ seen.allIn = hand.allIn /\ seen.terminal = FALSE
      /\ seen.actor = Actor(hand) /\ ~hand.closed
  BY SeenDecision
<1>2. hand \in HandType
  BY DEF SpotInv, HandSeen, HandOK
<1>3. hand.closed = FALSE
  BY <1>1, <1>2 DEF HandType
<1>4. Compatible(other.state, seen, tolerance)
  BY <1>1, <1>2, <1>3, CompatibleView
<1>5. other \in Spots
  BY <1>3 DEF Spots, View
<1>6. QED
  BY <1>4, <1>5

\* After the flop: the line is its end, by its last action.
LEMMA EndMatches ==
  ASSUME 5 * BigBlind < 100, SpotInv, Asked, hand.street > 1,
         NEW seen, LiveState(frames).observation = seen, seen.known,
         NEW tolerance, \A s \in Seats : tolerance[s] \in Nat,
         NEW h, HandOK(h, start), Opening(h), Deals(h, flop),
         NEW other \in Lines, other.state = View(h), Comes(other, h, start)
  PROVE  other \in TerminalMatches(other.stack, seen, tolerance)
<1>1. /\ seen.paid = flop.totalPaid /\ seen.folded = flop.folded
      /\ seen.allIn = flop.allIn /\ seen.terminal = TRUE
  BY SeenTerminal
<1>2. /\ h \in HandType /\ h.closed /\ flop.totalPaid = h.totalPaid
      /\ flop.folded = h.folded /\ flop.allIn = h.allIn
  BY StreetFacts
<1>3. h.closed = TRUE /\ h.totalPaid = h.streetPaid
  BY <1>2 DEF HandType, Opening
<1>4. Compatible(other.state, seen, tolerance)
  BY <1>1, <1>2, <1>3, CompatibleView
<1>5. other \notin Roots
  <2>1. other.state.terminal = TRUE
    BY <1>3 DEF View
  <2>2. \A x \in Roots : x.state.terminal = FALSE
    BY DEF Roots, Root, Posted
  <2>3. QED
    BY <2>1, <2>2
<1>6. PICK shorter \in Lines :
        \E label \in Menu(shorter.state, shorter.stack) : other = Extended(shorter, label)
  BY <1>5, LinesFacts
<1>7. PICK label \in Menu(shorter.state, shorter.stack) : other = Extended(shorter, label)
  BY <1>6
<1>8. PICK p, e : /\ HandOK(p, start) /\ Opening(p) /\ View(p) = shorter.state
                  /\ Acts(p, e, h)
                  /\ label = FoldLabel <=> e.kind = "FOLD"
  BY <1>7 DEF Comes
<1>9. /\ Effect(p, e, h) /\ ~p.closed /\ e.seat = Actor(p) /\ e.seat \in Seats
      /\ e.seat \in Eligible(p) /\ p \in HandType
      /\ \A s \in Seats : /\ p.totalPaid[s] \in Nat /\ p.streetPaid[s] \in Nat
                          /\ h.totalPaid[s] \in Nat /\ h.streetPaid[s] \in Nat
                          /\ p.totalPaid[s] <= h.totalPaid[s]
  BY <1>8, ActFacts
<1>10. PICK v \in RoundType : v = View(p)
  BY <1>9, ViewFacts
<1>11. v.paid = p.streetPaid /\ v.folded = p.folded /\ ActorOf(v) = e.seat /\ ~v.terminal
  BY <1>9, <1>10, ViewFacts DEF View
<1>12. PICK a : a = [at |-> shorter.state, label |-> label, line |-> Extended(shorter, label)]
  OBVIOUS
<1>13. a.at = v /\ a.label = label /\ a.line = other
  BY <1>7, <1>8, <1>10, <1>12
<1>14. a \in Published
  <2>1. shorter \in Spots /\ label \in Labels
    BY <1>7, <1>8, <1>10, <1>11 DEF Spots, Menu
  <2>2. PICK pair \in Spots \X Labels : pair = <<shorter, label>>
    BY <2>1
  <2>3. pair[1] = shorter /\ pair[2] = label
    BY <2>2
  <2>4. QED
    BY <1>7, <1>12, <2>2, <2>3 DEF Published
<1>15. Completes(a, seen)
  <2>1. e.seat \notin p.folded
    BY <1>9 DEF Eligible, Live
  <2>2. h.folded = IF e.kind = "FOLD" THEN p.folded \cup {e.seat} ELSE p.folded
    BY <1>9 DEF Effect
  <2>3. CASE label = FoldLabel
    <3>1. seen.folded = p.folded \cup {e.seat}
      BY <1>1, <1>2, <1>8, <2>2, <2>3
    <3>2. v.folded = seen.folded \ {e.seat}
      BY <1>11, <2>1, <3>1
    <3>3. QED
      BY <1>11, <1>13, <2>3, <3>1, <3>2 DEF Completes, FoldFrontier
  <2>4. CASE label # FoldLabel
    <3>1. seen.folded = p.folded
      BY <1>1, <1>2, <1>8, <2>2, <2>4
    <3>2. QED
      BY <1>11, <1>13, <2>1, <2>4, <3>1 DEF Completes, NonfoldFrontier
  <2>5. QED
    BY <2>3, <2>4
<1>16. Possible(v, seen, tolerance)
  <2>1. SUFFICES ASSUME NEW s \in Seats
                 PROVE  IF s = e.seat THEN 100 * (v.paid[s] - seen.paid[s]) <= tolerance[s]
                        ELSE Near(v.paid[s], seen.paid[s], tolerance[s])
    BY <1>11 DEF Possible
  <2>2. PICK before \in Nat, after \in Nat, room \in Nat :
          /\ before = v.paid[s] /\ after = seen.paid[s] /\ room = tolerance[s]
          /\ before = p.totalPaid[s] /\ after = h.totalPaid[s] /\ after = h.streetPaid[s]
    BY <1>1, <1>2, <1>3, <1>8, <1>9, <1>11 DEF Opening
  <2>3. before <= after
    BY <1>9, <2>2
  <2>4. CASE s = e.seat
    <3>1. 100 * (before - after) <= room
      BY <2>3
    <3>2. QED
      BY <2>2, <2>4, <3>1
  <2>5. CASE s # e.seat
    <3>1. h.totalPaid[s] = p.totalPaid[s]
      BY <1>9, <2>5 DEF Effect
    <3>2. before = after
      BY <2>2, <3>1
    <3>3. Near(before, before, room)
      BY NearItself
    <3>4. QED
      BY <2>2, <2>5, <3>2, <3>3
  <2>6. QED
    BY <2>4, <2>5
<1>17. QED
  BY <1>4, <1>13, <1>14, <1>15, <1>16 DEF TerminalMatches

(* Of equal stacks the line that was played is found.                      *)
LineIsFound ==
  Asked => \A mode \in {"exact", "abstract"} :
             mode = "exact" \/ SameStart(start, Found(mode).stack) => FoundLineIsPlayed(Found(mode))

LEMMA SearchFacts ==
  ASSUME 5 * BigBlind < 100, SpotInv, LineInv, Asked, NEW mode \in {"exact", "abstract"},
         Found(mode) # NoLine
  PROVE  /\ mode = "exact" => SameStart(start, Found(mode).stack)
         /\ \A other \in Lines : /\ other.stack = Found(mode).stack
                                 /\ SameStart(start, other.stack)
                                 /\ other.trace = line
                                 => other = Found(mode)
         /\ \A stack \in Buckets :
              stack > 0 /\ SameStart(start, stack) => Found(mode).stack = stack
<1>1. PICK state : /\ state = IF hand.street = 1 THEN PreflopState(frames) ELSE LiveState(frames)
                   /\ Found(mode) = Resolve(state, mode)
  BY DEF Found
<1>2. PICK seen : state.observation = seen
  OBVIOUS
<1>3. PICK found : found = Found(mode)
  OBVIOUS
<1>4. PICK bucket : bucket = NearestBucket(seen)
  OBVIOUS
<1>5. PICK tolerance : tolerance = MatchTolerances(seen, mode)
  OBVIOUS
<1>6. /\ seen.known /\ BucketFits(seen, mode)
      /\ seen.terminal => found = RequireUnique(TerminalMatches(bucket, seen, tolerance))
      /\ ~seen.terminal => found = ResolveDecision(bucket, seen, tolerance)
  BY <1>1, <1>2, <1>3, <1>4, <1>5, ResolveFacts
<1>7. PICK h : /\ HandOK(h, start) /\ Sound(h) /\ Opening(h)
               /\ hand.street = 1 => h = hand
               /\ hand.street > 1 => Deals(h, flop)
               /\ \A l \in Lines : IsAt(l, h, line, start)
  BY DEF LineInv
<1>8. hand.street \in Nat /\ hand.street \in 1..4 /\ HandOK(hand, start)
  BY StreetIsNat DEF SpotInv, HandSeen
<1> DEFINE Shape == /\ seen.initial = start /\ seen.paid \in [Seats -> Nat]
                    /\ hand.street = 1 <=> ~seen.terminal
<1>9. Shape
  <2>1. CASE hand.street = 1
    <3>1. PreflopState(frames).observation = seen
      BY <1>1, <1>2, <2>1
    <3>2. seen.paid = hand.streetPaid /\ seen.terminal = FALSE /\ seen.initial = start
      BY <1>6, <2>1, <3>1, SeenDecision
    <3>3. hand.streetPaid \in [Seats -> Nat]
      BY <1>8 DEF HandOK, HandType
    <3>4. QED
      BY <2>1, <3>2, <3>3
  <2>2. CASE hand.street > 1
    <3>1. LiveState(frames).observation = seen /\ hand.street # 1
      BY <1>1, <1>2, <1>8, <2>2
    <3>2. seen.paid = flop.totalPaid /\ seen.terminal = TRUE /\ seen.initial = start
      BY <1>6, <2>2, <3>1, SeenTerminal
    <3>3. flop.totalPaid \in [Seats -> Nat]
      BY <2>2 DEF SpotInv, HandOK, HandType
    <3>4. QED
      BY <3>1, <3>2, <3>3
  <2>3. QED
    BY <1>8, <2>1, <2>2
<1> HIDE DEF Shape
<1>10. \A s \in Seats : tolerance[s] \in Nat
  <2>1. seen.paid \in [Seats -> Nat]
    BY <1>9 DEF Shape
  <2>2. QED
    BY <1>5, <2>1, ToleranceFacts
<1> DEFINE Decided == {spot \in Spots : spot.stack = bucket /\ Compatible(spot.state, seen, tolerance)}
           Ended1 == TerminalMatches(bucket, seen, tolerance)
<1>11. found # NoLine
  BY <1>3
<1>12. /\ seen.terminal => found = RequireUnique(Ended1)
       /\ ~seen.terminal => found = RequireUnique(Decided)
  BY <1>6 DEF ResolveDecision
<1> HIDE DEF Decided, Ended1
<1>13. /\ seen.terminal => found \in Ended1 /\ \A other \in Ended1 : other = found
       /\ ~seen.terminal => found \in Decided /\ \A other \in Decided : other = found
  BY <1>11, <1>12, UniqueFacts
<1>14. found.stack = bucket /\ bucket \in Nat
  <2>1. CASE seen.terminal
    <3>1. found.stack = bucket /\ found.stack \in Buckets
      BY <1>13, <2>1, EndStack DEF Ended1
    <3>2. QED
      BY <3>1, BlueprintAssumption
  <2>2. CASE ~seen.terminal
    <3>1. found \in Lines /\ found.stack = bucket
      BY <1>13, <2>2 DEF Decided, Spots
    <3>2. QED
      BY <3>1, LinesListed, BlueprintAssumption DEF Listed
  <2>3. QED
    BY <2>1, <2>2
<1>15. mode = "exact" => SameStart(start, found.stack)
  <2>1. start \in [Seats -> Nat \ {0}]
    BY DEF SpotInv
  <2>2. seen.initial \in [Seats -> Nat] /\ seen.initial = start
    BY <1>9, <2>1 DEF Shape
  <2>3. mode = "exact" => BucketFits(seen, "exact")
    BY <1>6
  <2>4. QED
    BY <1>4, <1>14, <2>2, <2>3, ExactBucket
<1>16. ASSUME NEW other \in Lines, other.stack = bucket, SameStart(start, other.stack),
              other.trace = line
       PROVE  other = found
  <2>1. other.state = View(h) /\ Comes(other, h, start)
    BY <1>7, <1>16 DEF IsAt
  <2>2. CASE hand.street = 1
    <3>1. PreflopState(frames).observation = seen
      BY <1>1, <1>2, <2>2
    <3>2. other.state = View(hand)
      BY <1>7, <2>1, <2>2
    <3>3. other \in Decided
      BY <1>6, <1>10, <1>16, <2>2, <3>1, <3>2, DecisionMatches DEF Decided
    <3>4. ~seen.terminal
      BY <1>9, <2>2 DEF Shape
    <3>5. QED
      BY <1>13, <3>3, <3>4
  <2>3. CASE hand.street > 1
    <3>1. hand.street # 1
      BY <1>8, <2>3
    <3>2. LiveState(frames).observation = seen
      BY <1>1, <1>2, <3>1
    <3>3. Deals(h, flop)
      BY <1>7, <2>3
    <3>4. other \in TerminalMatches(other.stack, seen, tolerance)
      BY <1>6, <1>7, <1>10, <2>1, <2>3, <3>2, <3>3, EndMatches
    <3>5. other \in Ended1
      BY <1>16, <3>4 DEF Ended1
    <3>6. seen.terminal
      BY <1>9, <3>1 DEF Shape
    <3>7. QED
      BY <1>13, <3>5, <3>6
  <2>4. QED
    BY <1>8, <2>2, <2>3
<1>17. Cardinality(Live(h)) > 1 /\ seen.folded = h.folded
  <2>1. CASE hand.street = 1
    <3>1. PreflopState(frames).observation = seen
      BY <1>1, <1>2, <2>1
    <3>2. h = hand
      BY <1>7, <2>1
    <3>3. seen.folded = h.folded /\ ~h.closed
      BY <1>6, <2>1, <3>1, <3>2, SeenDecision
    <3>4. ~(Cardinality(Live(h)) <= 1)
      BY <1>7, <3>3 DEF HandOK
    <3>5. Cardinality(Live(h)) \in Nat
      BY SeatsFinite DEF Live
    <3>6. QED
      BY <3>3, <3>4, <3>5
  <2>2. CASE hand.street > 1
    <3>1. hand.street # 1
      BY <1>8, <2>2
    <3>2. LiveState(frames).observation = seen
      BY <1>1, <1>2, <3>1
    <3>3. seen.folded = flop.folded
      BY <1>6, <2>2, <3>2, SeenTerminal
    <3>4. flop.folded = h.folded /\ ~h.terminal
      BY <1>7, <2>2, StreetFacts
    <3>5. ~(Cardinality(Live(h)) <= 1)
      BY <1>7, <3>4 DEF HandOK
    <3>6. Cardinality(Live(h)) \in Nat
      BY SeatsFinite DEF Live
    <3>7. QED
      BY <3>3, <3>4, <3>5, <3>6
  <2>3. QED
    BY <1>8, <2>1, <2>2
<1>18. ASSUME NEW stack \in Buckets, stack > 0, SameStart(start, stack)
       PROVE  found.stack = stack
  <2>1. PICK other \in Live(h) : other # hero
    <3>1. Live(h) # {} /\ Live(h) # {hero}
      <4>1. Cardinality({}) = 0 /\ Cardinality({hero}) = 1
        BY FS_EmptySet, FS_Singleton
      <4>2. QED
        BY <1>17, <4>1
    <3>2. QED
      BY <3>1
  <2>2. other \in (Seats \ seen.folded) \ {hero}
    BY <1>17, <2>1 DEF Live
  <2>3. hero \in Seats /\ seen.initial = start /\ stack \in Nat
    BY <1>9, BlueprintAssumption DEF SpotInv, Shape
  <2>4. \A s \in Seats : Lesser(seen.initial[hero], seen.initial[s]) = stack
    BY <1>18, <2>3 DEF SameStart, Lesser
  <2>5. EffectiveStacks(seen) = {stack}
    BY <2>2, <2>4 DEF EffectiveStacks
  <2>6. QED
    BY <1>4, <1>14, <1>18, <2>5, EvenBucket
<1>19. QED
  BY <1>3, <1>14, <1>15, <1>16, <1>18

\* The invariants of this part.
LEMMA LineInvariant ==
  ASSUME TreeAssumption
  PROVE  SpotSpec => [](SpotInv /\ LineInv)
<1>1. SpotInit => SpotInv /\ LineInv
  BY SpotInitKeeps, LineInit
<1>2. (SpotInv /\ LineInv) /\ [SpotNext]_spotVars => (SpotInv /\ LineInv)'
  BY SpotStepKeeps, LineStep
<1>3. QED
  BY <1>1, <1>2, PTL DEF SpotSpec

(* Of equal stacks, where a chip is more than the tolerance of the search, *)
(* the line that was played is the one that is found, before the flop and  *)
(* after it: no other line of the tree is taken for it.                    *)
THEOREM SpotPlayedLineIsFound ==
  ASSUME 5 * BigBlind < 100, TreeAssumption
  PROVE  SpotSpec => []LineIsFound
<1>1. SpotInv /\ LineInv => LineIsFound
  <2>1. SUFFICES ASSUME SpotInv, LineInv, Asked, NEW mode \in {"exact", "abstract"},
                        mode = "exact" \/ SameStart(start, Found(mode).stack),
                        Found(mode) # NoLine,
                        NEW other \in Lines, other.stack = Found(mode).stack,
                        other.trace = line
                 PROVE  Found(mode).trace = line
    BY DEF LineIsFound, FoundLineIsPlayed
  <2>2. SameStart(start, other.stack)
    BY <2>1, SearchFacts
  <2>3. other = Found(mode)
    BY <2>1, <2>2, SearchFacts
  <2>4. QED
    BY <2>1, <2>3
<1>2. QED
  BY <1>1, LineInvariant, PTL

(* At a table whose players all start with the stack of one of the buckets *)
(* it is found in both modes of matching.                                  *)
THEOREM SpotResolvedLineIsPlayed ==
  ASSUME 5 * BigBlind < 100, TreeAssumption,
         \A stacks \in Starts : \E stack \in Buckets : stack > 0 /\ SameStart(stacks, stack)
  PROVE  SpotSpec => []ResolvedLineIsPlayed
<1>1. SpotInv /\ LineInv => ResolvedLineIsPlayed
  <2>1. SUFFICES ASSUME SpotInv, LineInv, Asked, NEW mode \in {"exact", "abstract"},
                        Found(mode) # NoLine,
                        NEW other \in Lines, other.stack = Found(mode).stack,
                        other.trace = line
                 PROVE  Found(mode).trace = line
    BY DEF ResolvedLineIsPlayed, FoundLineIsPlayed
  <2>2. PICK stack \in Buckets : stack > 0 /\ SameStart(start, stack)
    BY <2>1 DEF LineInv
  <2>3. Found(mode).stack = stack
    BY <2>1, <2>2, SearchFacts
  <2>4. SameStart(start, other.stack)
    BY <2>1, <2>2, <2>3
  <2>5. other = Found(mode)
    BY <2>1, <2>4, SearchFacts
  <2>6. QED
    BY <2>1, <2>5
<1>2. QED
  BY <1>1, LineInvariant, PTL

(* Third part: the actions that the solver is asked about.                 *)
-----------------------------------------------------------------------------
(* A round that goes on has somebody to bet against, and a hand that is    *)
(* over has one player left or is at the river.                            *)
Unsettled(h) ==
  /\ h.closed \/ ~\E only \in Seats : Eligible(h) = {only} /\ h.streetPaid[only] >= h.highest
  /\ h.terminal => h.street = 4 \/ Cardinality(Live(h)) <= 1

LEMMA NormalizeUnsettles ==
  ASSUME NEW x \in HandType, ~x.terminal
  PROVE  Unsettled(Ended(NormalizeRound(x)))
<1>1. PICK kept, eligible : eligible = Eligible(x) /\ kept = Kept(x.pending, eligible)
  OBVIOUS
<1>2. PICK n : n = NormalizeRound(x)
  OBVIOUS
<1>3. PICK over : over = (n.terminal \/ (n.street = 4 /\ n.closed))
  OBVIOUS
<1>4. PICK g : g = [n EXCEPT !.terminal = over]
  OBVIOUS
<1>5. g = Ended(NormalizeRound(x))
  BY <1>2, <1>3, <1>4 DEF Ended
<1>6. PICK settled \in BOOLEAN :
        settled <=> \/ eligible = {}
                    \/ \E only \in eligible :
                         eligible = {only} /\ x.streetPaid[only] >= x.highest
  OBVIOUS
<1>7. \/ /\ Cardinality(Live(x)) <= 1
         /\ n = [x EXCEPT !.pending = <<>>, !.closed = TRUE, !.terminal = TRUE]
      \/ n = [x EXCEPT !.pending = <<>>, !.closed = TRUE]
      \/ ~settled /\ n = [x EXCEPT !.pending = kept, !.closed = @ \/ kept = <<>>]
  BY <1>1, <1>2, <1>6, Zenon DEF NormalizeRound
<1>8. \/ n.closed
      \/ /\ ~settled /\ n.folded = x.folded /\ n.allIn = x.allIn
         /\ n.streetPaid = x.streetPaid /\ n.highest = x.highest
  BY <1>7 DEF HandType
<1>9. DOMAIN n = DOMAIN x
  BY <1>7 DEF HandType
<1>10. /\ g.closed = n.closed /\ g.folded = n.folded /\ g.allIn = n.allIn
       /\ g.streetPaid = n.streetPaid /\ g.highest = n.highest
  BY <1>4, <1>9 DEF HandType
<1>14. g.terminal => g.street = 4 \/ Cardinality(Live(g)) <= 1
  <2>1. n.terminal => Cardinality(Live(x)) <= 1
    BY <1>7 DEF HandType
  <2>2. g.street = n.street /\ g.terminal = over /\ n.folded = x.folded
    BY <1>4, <1>7, <1>9 DEF HandType
  <2>3. Live(g) = Live(x)
    BY <1>10, <2>2 DEF Live
  <2>4. QED
    BY <1>3, <2>1, <2>2, <2>3
<1>11. CASE n.closed
  BY <1>5, <1>10, <1>11, <1>14 DEF Unsettled
<1>12. CASE /\ ~settled /\ n.folded = x.folded /\ n.allIn = x.allIn
            /\ n.streetPaid = x.streetPaid /\ n.highest = x.highest
  <2>1. Eligible(g) = eligible
    BY <1>1, <1>10, <1>12 DEF Eligible, Live
  <2>2. ~\E only \in Seats : Eligible(g) = {only} /\ g.streetPaid[only] >= g.highest
    BY <1>6, <1>10, <1>12, <2>1
  <2>3. QED
    BY <1>5, <1>14, <2>2 DEF Unsettled
<1>13. QED
  BY <1>8, <1>11, <1>12

LEMMA PassiveUnsettles ==
  ASSUME NEW x \in HandType, ~x.terminal, x.pending # <<>>, IsInjective(x.pending), NEW seat \in Seats
  PROVE  Unsettled(Ended(PassiveComplete(x, seat)))
<1>1. PICK rest : rest = Tail(x.pending)
  OBVIOUS
<1>2. x.pending \in Seq(Seats)
  BY DEF HandType
<1>3. rest \in Seq(Seats)
  BY <1>1, <1>2, TailFacts
<1>4. PICK acted \in SUBSET Seats : acted = x.acted \cup {seat}
  BY DEF HandType
<1>5. PICK y : y = [x EXCEPT !.acted = acted, !.pending = rest]
  OBVIOUS
<1>6. y \in HandType /\ ~y.terminal
  BY <1>3, <1>5 DEF HandType
<1>7. PassiveComplete(x, seat) = NormalizeRound(y)
  BY <1>1, <1>4, <1>5 DEF PassiveComplete
<1>8. QED
  BY <1>6, <1>7, NormalizeUnsettles

LEMMA RaisedUnsettles ==
  ASSUME NEW h \in HandType, NEW e, e.seat \in Seats, e.to \in Nat, e.to > h.highest,
         NEW x \in HandType, x = PayTo(h, e.seat, e.to), ~x.terminal
  PROVE  Unsettled(Ended(Raised(h, e)))
<1>1. PICK seat \in Seats, target \in Nat : seat = e.seat /\ target = e.to
  OBVIOUS
<1>2. h.highest \in Nat
  BY DEF HandType
<1>3. PICK size \in Nat \ {0} : size = target - h.highest
  <2>1. target - h.highest \in Nat \ {0}
    BY <1>1, <1>2
  <2>2. QED
    BY <2>1
<1>4. PICK paid : paid = [x EXCEPT !.highest = target]
  OBVIOUS
<1>5. paid \in HandType /\ ~paid.terminal
  BY <1>4 DEF HandType
<1>6. Eligible(paid) \subseteq Seats
  BY DEF Eligible, Live
<1>7. CASE e.kind # "ALL_IN_TO" \/ size >= h.lastFullRaise
  <2>1. PICK q : q = OrderedAfter(seat, Eligible(paid) \ {seat})
    OBVIOUS
  <2>2. q \in Seq(Seats)
    BY <1>6, <2>1, OrderedAfterFacts
  <2>3. PICK y : y = [paid EXCEPT !.lastFullRaise = size, !.acted = {seat}, !.pending = q]
    OBVIOUS
  <2>4. y \in HandType /\ ~y.terminal
    BY <1>5, <2>2, <2>3 DEF HandType
  <2>5. FullAggression(paid, seat, size) = NormalizeRound(y)
    BY <2>1, <2>3 DEF FullAggression
  <2>6. Raised(h, e) = FullAggression(paid, seat, size)
    BY <1>1, <1>3, <1>4, <1>7 DEF Raised
  <2>7. QED
    BY <2>4, <2>5, <2>6, NormalizeUnsettles
<1>8. CASE ~(e.kind # "ALL_IN_TO" \/ size >= h.lastFullRaise)
  <2>1. PICK q : q = OrderedAfter(seat, {s \in Eligible(paid) \ {seat} : paid.streetPaid[s] < paid.highest})
    OBVIOUS
  <2>2. q \in Seq(Seats)
    BY <1>6, <2>1, OrderedAfterFacts
  <2>3. PICK acted \in SUBSET Seats : acted = paid.acted \cup {seat}
    BY <1>5 DEF HandType
  <2>4. PICK y : y = [paid EXCEPT !.acted = acted, !.pending = q]
    OBVIOUS
  <2>5. y \in HandType /\ ~y.terminal
    BY <1>5, <2>2, <2>4 DEF HandType
  <2>6. ShortAllInAggression(paid, seat) = NormalizeRound(y)
    BY <2>1, <2>3, <2>4 DEF ShortAllInAggression
  <2>7. Raised(h, e) = ShortAllInAggression(paid, seat)
    BY <1>1, <1>3, <1>4, <1>8 DEF Raised
  <2>8. QED
    BY <2>5, <2>6, <2>7, NormalizeUnsettles
<1>9. QED
  BY <1>7, <1>8

LEMMA ActUnsettles ==
  ASSUME NEW stacks, NEW h, HandOK(h, stacks), NEW e, NEW g, Acts(h, e, g)
  PROVE  Unsettled(g)
<1>1. /\ Accepts(h, e) /\ g = Applied(h, e) /\ e.kind \in Kinds /\ e.to \in Nat \cup {NoAmount}
  BY DEF Acts, HandEvents
<1>2. PICK seat : seat = Actor(h)
  OBVIOUS
<1>3. ~h.closed /\ e.seat = seat
  BY <1>1, <1>2 DEF Accepts
<1>4. /\ h \in HandType /\ ~h.terminal /\ ChipsOK(h, stacks) /\ seat \in Seats /\ h.pending # <<>>
      /\ IsInjective(h.pending)
  BY <1>2, <1>3, ActorFacts
<1>5. h.highest \in Nat
  BY <1>4 DEF HandType
<1>6. PICK low \in BOOLEAN : low <=> e.to <= h.highest
  OBVIOUS
<1>7. ~low <=> e.to > h.highest
  BY <1>1, <1>5, <1>6 DEF NoAmount
<1>8. CASE e.kind = "FOLD"
  <2>1. PICK folded \in SUBSET Seats : folded = h.folded \cup {seat}
    BY <1>4 DEF HandType
  <2>2. PICK x : x = [h EXCEPT !.folded = folded]
    OBVIOUS
  <2>3. x \in HandType /\ ~x.terminal /\ x.pending = h.pending
    BY <1>4, <2>2 DEF HandType
  <2>4. g = Ended(PassiveComplete(x, seat))
    BY <1>1, <1>3, <1>6, <1>7, <1>8, <2>1, <2>2, AppliedCases
  <2>5. x.pending # <<>> /\ IsInjective(x.pending)
    BY <1>4, <2>3
  <2>6. QED
    BY <1>4, <2>3, <2>4, <2>5, PassiveUnsettles
<1>9. CASE e.kind = "CHECK"
  <2>1. g = Ended(PassiveComplete(h, seat))
    BY <1>1, <1>3, <1>6, <1>7, <1>9, AppliedCases
  <2>2. QED
    BY <1>4, <2>1, PassiveUnsettles
<1>10. CASE e.kind \in Wagers
  <2>1. e.to \in Nat /\ e.to > h.streetPaid[seat] /\ e.to <= MaxTarget(h, seat)
    BY <1>1, <1>2, <1>10, WagerFacts
  <2>2. PICK x : x = PayTo(h, seat, e.to)
    OBVIOUS
  <2>3. h.streetPaid[seat] \in Nat
    BY <1>4 DEF HandType
  <2>4. e.to >= h.streetPaid[seat]
    BY <2>1, <2>3
  <2>5. x \in HandType /\ ~x.terminal /\ x.pending = h.pending
    BY <1>4, <2>1, <2>2, <2>4, PayFacts
  <2>6. CASE low
    <3>1. g = Ended(PassiveComplete(x, seat))
      BY <1>1, <1>3, <1>6, <1>7, <1>10, <2>2, <2>6, AppliedCases
    <3>2. x.pending # <<>> /\ IsInjective(x.pending)
      BY <1>4, <2>5
    <3>3. QED
      BY <1>4, <2>5, <3>1, <3>2, PassiveUnsettles
  <2>7. CASE ~low
    <3>1. g = Ended(Raised(h, e))
      BY <1>1, <1>6, <1>7, <1>10, <2>7, AppliedCases
    <3>2. e.to > h.highest
      BY <1>7, <2>7
    <3>3. Unsettled(Ended(Raised(h, e)))
      BY <1>3, <1>4, <2>1, <2>2, <2>5, <3>2, RaisedUnsettles
    <3>4. QED
      BY <3>1, <3>3
  <2>8. QED
    BY <2>6, <2>7
<1>11. QED
  BY <1>1, <1>8, <1>9, <1>10 DEF Kinds

LEMMA DealUnsettles ==
  ASSUME NEW stacks, NEW h, HandOK(h, stacks), NEW g, Deals(h, g)
  PROVE  Unsettled(g)
<1>1. PICK next : next = [h EXCEPT !.street = @ + 1, !.streetPaid = Zero, !.highest = 0,
                                   !.lastFullRaise = BigBlind, !.acted = {}, !.closed = FALSE]
  OBVIOUS
<1>2. Button \in Seats /\ Zero \in [Seats -> Nat] /\ BigBlind \in Nat \ {0}
  BY ReplayAssumption DEF Button, Seats, Zero
<1>3. h \in HandType /\ h.street + 1 \in 1..4 /\ ~h.terminal
  BY DEF HandOK, HandType, Deals, AcceptsDeal
<1>4. next \in HandType /\ ~next.terminal
  BY <1>1, <1>2, <1>3 DEF HandType
<1>5. PICK q : q = OrderedAfter(Button, Eligible(next))
  OBVIOUS
<1>6. Eligible(next) \in SUBSET Seats
  BY DEF Eligible, Live
<1>7. q \in Seq(Seats)
  BY <1>2, <1>5, <1>6, OrderedAfterFacts
<1>8. PICK x : x = [next EXCEPT !.pending = q]
  OBVIOUS
<1>9. x \in HandType /\ ~x.terminal
  BY <1>4, <1>7, <1>8 DEF HandType
<1>10. AppliedDeal(h, Button) = Ended(NormalizeRound(x))
  BY <1>1, <1>5, <1>8 DEF AppliedDeal
<1>11. QED
  BY <1>9, <1>10, NormalizeUnsettles DEF Deals

-----------------------------------------------------------------------------
(* What is at stake: two players at least have paid a blind before this    *)
(* round, and only who is all-in bets less than one.                       *)
TwoPaid(h) ==
  \E a, b \in Seats : /\ a # b
                      /\ BigBlind <= h.totalPaid[a] - h.streetPaid[a]
                      /\ BigBlind <= h.totalPaid[b] - h.streetPaid[b]

ShortBet(h) == h.highest > 0 /\ h.highest < BigBlind
ShortIsAllIn(h) == ShortBet(h) => \E s \in h.allIn : h.streetPaid[s] = h.highest

Stakes(h) ==
  /\ BigBlind <= h.lastFullRaise /\ ShortIsAllIn(h)
  /\ h.street = 1 => h.highest >= BigBlind
  /\ h.street > 1 => TwoPaid(h) /\ Unsettled(h)

DeepStacks(stacks) == \A s \in Seats : stacks[s] > BigBlind

StakesInv == DeepStacks(start) /\ Stakes(hand)

\* What a raise is at least.
LEMMA RaiseIsFull ==
  ASSUME NEW stacks, NEW h, HandOK(h, stacks), BigBlind <= h.lastFullRaise,
         NEW e, NEW g, Acts(h, e, g), e.to > h.highest, e.kind \in Wagers
  PROVE  e.to \in Nat /\ (e.kind = "ALL_IN_TO" \/ e.to - h.highest >= BigBlind)
<1>1. Accepts(h, e) /\ e.to \in Nat \cup {NoAmount}
  BY DEF Acts, HandEvents
<1>2. PICK seat : seat = Actor(h)
  OBVIOUS
<1>3. /\ e.to \in Nat
      /\ e.kind = "CALL" => e.to <= h.highest
      /\ e.kind = "BET_TO" => e.to - h.highest >= BigBlind
      /\ e.kind = "RAISE_TO" => e.to - h.highest >= h.lastFullRaise
  BY <1>1, <1>2, WagerFacts
<1>4. /\ h.highest \in Nat /\ h.lastFullRaise \in Nat /\ BigBlind \in Nat
  BY ReplayAssumption DEF HandOK, HandType
<1>5. e.kind # "CALL"
  BY <1>3, <1>4
<1>6. e.kind = "BET_TO" \/ e.kind = "RAISE_TO" \/ e.kind = "ALL_IN_TO"
  BY <1>5 DEF Wagers
<1>7. QED
  BY <1>3, <1>4, <1>6

\* Who bets most.
LEMMA HighestIsPaid ==
  ASSUME NEW stacks, NEW h, HandOK(h, stacks), NEW e, NEW g, Acts(h, e, g),
         g.highest # h.highest
  PROVE  /\ e.kind \in Wagers /\ g.highest = e.to /\ e.to > h.highest
         /\ g.streetPaid[e.seat] = e.to
<1>1. /\ Effect(h, e, g) /\ ChipsOK(g, stacks) /\ e.seat \in Seats
      /\ h.highest \in Nat /\ g.highest \in Nat
      /\ \A s \in Seats : h.streetPaid[s] \in Nat /\ h.streetPaid[s] <= h.highest
  BY ActFacts
<1>2. /\ g.highest > h.highest /\ e.kind \in Wagers /\ g.streetPaid[e.seat] = e.to
      /\ \A s \in Seats : s # e.seat => g.streetPaid[s] = h.streetPaid[s]
  BY <1>1 DEF Effect
<1>3. PICK s \in Seats : g.streetPaid[s] = g.highest
  BY <1>1 DEF ChipsOK
<1>4. s = e.seat
  BY <1>1, <1>2, <1>3
<1>5. QED
  BY <1>2, <1>3, <1>4

LEMMA ShortKeeps ==
  ASSUME NEW stacks, NEW h, HandOK(h, stacks), BigBlind <= h.lastFullRaise, ShortIsAllIn(h),
         NEW e, NEW g, Acts(h, e, g)
  PROVE  ShortIsAllIn(g)
<1>1. /\ Effect(h, e, g) /\ ChipsOK(h, stacks) /\ ChipsOK(g, stacks) /\ e.seat \in Seats
      /\ h.highest \in Nat /\ g.highest \in Nat /\ h.remaining[e.seat] \in Nat \ {0}
  BY ActFacts
<1>2. SUFFICES ASSUME ShortBet(g) PROVE \E s \in g.allIn : g.streetPaid[s] = g.highest
  BY DEF ShortIsAllIn
<1>3. CASE g.highest = h.highest
  <2>1. PICK s \in h.allIn : h.streetPaid[s] = h.highest
    BY <1>2, <1>3 DEF ShortIsAllIn, ShortBet
  <2>2. s \in Seats /\ h.remaining[s] = 0
    BY <1>1 DEF ChipsOK
  <2>3. s # e.seat
    BY <1>1, <2>2
  <2>4. g.streetPaid[s] = h.streetPaid[s] /\ g.remaining[s] = h.remaining[s]
    BY <1>1, <2>2, <2>3 DEF Effect
  <2>5. s \in g.allIn
    BY <1>1, <2>2, <2>4 DEF ChipsOK
  <2>6. QED
    BY <1>3, <2>1, <2>4, <2>5
<1>4. CASE g.highest # h.highest
  <2>1. /\ e.kind \in Wagers /\ g.highest = e.to /\ e.to > h.highest
        /\ g.streetPaid[e.seat] = e.to
    BY <1>4, HighestIsPaid
  <2>2. BigBlind <= h.lastFullRaise /\ BigBlind \in Nat
    BY ReplayAssumption
  <2>3. e.to \in Nat /\ (e.kind = "ALL_IN_TO" \/ e.to - h.highest >= BigBlind)
    BY <2>1, <2>2, RaiseIsFull
  <2>4. e.kind = "ALL_IN_TO"
    BY <1>1, <1>2, <2>1, <2>2, <2>3 DEF ShortBet
  <2>5. e.to = MaxTarget(h, e.seat)
    BY <2>4 DEF Acts, Accepts
  <2>6. g.remaining[e.seat] = MaxTarget(h, e.seat) - e.to
    BY <1>1, <2>1 DEF Effect
  <2>7. e.seat \in g.allIn
    BY <1>1, <2>3, <2>5, <2>6 DEF ChipsOK
  <2>8. QED
    BY <2>1, <2>7
<1>5. QED
  BY <1>3, <1>4

\* The least raise is never less than a blind.
LEMMA FullKeeps ==
  ASSUME NEW stacks, NEW h, HandOK(h, stacks), BigBlind <= h.lastFullRaise,
         NEW e, NEW g, Acts(h, e, g)
  PROVE  BigBlind <= g.lastFullRaise
<1>1. /\ h \in HandType /\ g \in HandType /\ h.highest \in Nat /\ g.highest \in Nat
  BY ActFacts
<1>2. /\ BigBlind \in Nat /\ h.lastFullRaise \in Nat /\ g.lastFullRaise \in Nat
  BY <1>1, ReplayAssumption DEF HandType
<1>3. Reopens(h, e, g)
  BY ActReopens
<1>4. CASE g.lastFullRaise = h.lastFullRaise
  BY <1>2, <1>4
<1>5. CASE /\ g.lastFullRaise = g.highest - h.highest
           /\ g.highest = e.to /\ e.to > h.highest
           /\ e.kind = "ALL_IN_TO" => g.lastFullRaise >= h.lastFullRaise
  <2>1. e.kind \in Wagers
    BY <1>1, <1>5, HighestIsPaid
  <2>2. e.kind = "ALL_IN_TO" \/ e.to - h.highest >= BigBlind
    BY <1>2, <1>5, <2>1, RaiseIsFull
  <2>3. QED
    BY <1>2, <1>5, <2>2
<1>6. QED
  BY <1>3, <1>4, <1>5 DEF Reopens

LEMMA StakesAct ==
  ASSUME NEW stacks, NEW h, HandOK(h, stacks), Stakes(h), NEW e, NEW g, Acts(h, e, g)
  PROVE  Stakes(g)
<1>1. /\ Effect(h, e, g) /\ h \in HandType /\ g \in HandType /\ e.seat \in Seats
      /\ h.highest \in Nat /\ g.highest \in Nat /\ g.street = h.street
      /\ \A s \in Seats : g.totalPaid[s] - g.streetPaid[s] = h.totalPaid[s] - h.streetPaid[s]
  BY ActFacts
<1>2. BigBlind \in Nat /\ BigBlind <= h.lastFullRaise /\ ShortIsAllIn(h)
  BY ReplayAssumption DEF Stakes
<1>4. BigBlind <= g.lastFullRaise /\ ShortIsAllIn(g)
  BY <1>2, FullKeeps, ShortKeeps
<1>5. g.street = 1 => g.highest >= BigBlind
  <2>1. g.highest = h.highest \/ g.highest > h.highest
    BY <1>1 DEF Effect
  <2>2. QED
    BY <1>1, <1>2, <2>1 DEF Stakes
<1>6. g.street > 1 => TwoPaid(g)
  BY <1>1 DEF Stakes, TwoPaid
<1>7. QED
  BY <1>4, <1>5, <1>6, ActUnsettles DEF Stakes

LEMMA TwoLive ==
  ASSUME NEW S \in SUBSET Seats, ~(Cardinality(S) <= 1)
  PROVE  \E a, b \in S : a # b
<1>1. S # {}
  BY FS_EmptySet
<1>2. PICK a \in S : TRUE
  BY <1>1
<1>3. S # {a}
  BY FS_Singleton
<1>4. QED
  BY <1>2, <1>3

LEMMA StakesDeal ==
  ASSUME NEW stacks \in [Seats -> Nat], DeepStacks(stacks), NEW h, HandOK(h, stacks), Stakes(h),
         h.street = 1 => Opening(h), NEW g, Deals(h, g)
  PROVE  Stakes(g)
<1>1. /\ h \in HandType /\ g \in HandType
      /\ h.closed /\ ~h.terminal /\ h.street \in 1..4 /\ g.street = h.street + 1
      /\ g.totalPaid = h.totalPaid /\ g.highest = 0 /\ g.lastFullRaise = BigBlind
      /\ \A s \in Seats : g.streetPaid[s] = 0
  BY StreetFacts
<1>2. BigBlind \in Nat \ {0} /\ \A s \in Seats : h.totalPaid[s] \in Nat /\ h.streetPaid[s] \in Nat
  BY <1>1, ReplayAssumption DEF HandType
<1>3. TwoPaid(g)
  <2>1. CASE h.street = 1
    <3>1. Live(h) \in SUBSET Seats /\ Cardinality(Live(h)) \in Nat /\ ~(Cardinality(Live(h)) <= 1)
      <4>1. Live(h) \in SUBSET Seats
        BY DEF Live
      <4>2. QED
        BY <1>1, <4>1, SeatsFinite DEF HandOK
    <3>2. PICK a, b \in Live(h) : a # b
      BY <3>1, TwoLive
    <3>3. ChipsOK(h, stacks) /\ \A s \in Eligible(h) : h.streetPaid[s] = h.highest
      <4>1. Cardinality(Live(h)) > 1
        BY <3>1
      <4>2. QED
        BY <1>1, <4>1 DEF HandOK
    <3>4. h.highest >= BigBlind /\ h.highest \in Nat
      BY <1>1, <2>1 DEF Stakes, HandType
    <3>5. ASSUME NEW s \in Live(h) PROVE s \in Seats /\ BigBlind <= h.totalPaid[s]
      <4>1. s \in Seats /\ h.totalPaid[s] = h.streetPaid[s]
        BY <2>1, <3>1 DEF Opening
      <4>2. CASE s \in h.allIn
        <5>1. h.remaining[s] = 0 /\ h.remaining[s] + h.totalPaid[s] = stacks[s]
              /\ stacks[s] > BigBlind /\ stacks[s] \in Nat
          BY <3>3, <4>1, <4>2 DEF ChipsOK, DeepStacks
        <5>2. QED
          BY <1>2, <4>1, <5>1
      <4>3. CASE s \notin h.allIn
        <5>1. h.streetPaid[s] = h.highest
          BY <3>3, <4>3 DEF Eligible
        <5>2. QED
          BY <3>4, <4>1, <5>1
      <4>4. QED
        BY <4>2, <4>3
    <3>6. /\ a \in Seats /\ b \in Seats
          /\ BigBlind <= h.totalPaid[a] /\ BigBlind <= h.totalPaid[b]
      BY <3>5
    <3>7. BigBlind <= g.totalPaid[a] - g.streetPaid[a] /\ BigBlind <= g.totalPaid[b] - g.streetPaid[b]
      BY <1>1, <1>2, <3>6
    <3>8. QED
      BY <3>2, <3>6, <3>7 DEF TwoPaid
  <2>2. CASE h.street # 1
    <3>1. TwoPaid(h)
      BY <1>1, <2>2 DEF Stakes
    <3>2. PICK a, b \in Seats : /\ a # b
                               /\ BigBlind <= h.totalPaid[a] - h.streetPaid[a]
                               /\ BigBlind <= h.totalPaid[b] - h.streetPaid[b]
      BY <3>1 DEF TwoPaid
    <3>3. BigBlind <= g.totalPaid[a] - g.streetPaid[a] /\ BigBlind <= g.totalPaid[b] - g.streetPaid[b]
      BY <1>1, <1>2, <3>2
    <3>4. QED
      BY <3>2, <3>3 DEF TwoPaid
  <2>3. QED
    BY <2>1, <2>2
<1>4. Unsettled(g)
  BY DealUnsettles
<1>5. ShortIsAllIn(g) /\ BigBlind <= g.lastFullRaise /\ g.street # 1
  BY <1>1, <1>2 DEF ShortIsAllIn, ShortBet
<1>6. QED
  BY <1>3, <1>4, <1>5 DEF Stakes

LEMMA StakesInit ==
  ASSUME \A stacks \in Starts : DeepStacks(stacks), SpotInit
  PROVE  StakesInv
<1>1. /\ start \in [Seats -> Nat \ {0}] /\ DeepStacks(start) /\ hand = Dealt(Button, start, 0)
  BY SpotAssumption DEF SpotInit
<1>2. Button \in Seats /\ BigBlind \in Nat \ {0}
  BY ReplayAssumption DEF Button, Seats
<1>3. PICK bound \in Nat : \A s \in Seats : start[s] <= bound
  <2> DEFINE paid == {start[s] : s \in Seats}
  <2>1. IsFiniteSet(paid)
    <3>1. start \in Surjection(Seats, paid)
      BY <1>1 DEF Surjection
    <3>2. QED
      BY <3>1, SeatsFinite, FS_Surjection
  <2>2. paid \subseteq Nat
    BY <1>1
  <2> HIDE DEF paid
  <2>3. PICK bound \in Nat : \A y \in paid : y <= bound
    BY <2>1, <2>2, FiniteIsBounded
  <2>4. QED
    BY <2>3 DEF paid
<1>4. PICK fee \in Nat : fee = 0
  OBVIOUS
<1>5. PICK g : g = Dealt(Button, start, fee)
  OBVIOUS
<1>6. HandOK(g, start) /\ g.street = 1 /\ g.lastFullRaise = BigBlind /\ BlindIsBet(g, start, fee)
  BY <1>1, <1>2, <1>3, <1>5, DealtFacts
<1>7. PICK s \in Seats : g.highest >= Lesser(BigBlind, start[s] - Lesser(fee, start[s]))
  BY <1>6 DEF BlindIsBet
<1>8. g.highest >= BigBlind /\ g.highest \in Nat
  <2>1. start[s] \in Nat /\ start[s] > BigBlind /\ g.highest \in Nat
    BY <1>1, <1>6 DEF DeepStacks, HandOK, HandType
  <2>2. Lesser(BigBlind, start[s] - Lesser(fee, start[s])) = BigBlind
    BY <1>2, <1>4, <2>1 DEF Lesser
  <2>3. QED
    BY <1>7, <2>1, <2>2
<1>9. g = hand
  BY <1>1, <1>4, <1>5
<1>10. Stakes(g)
  BY <1>2, <1>6, <1>8 DEF Stakes, ShortIsAllIn, ShortBet
<1>11. QED
  BY <1>1, <1>9, <1>10 DEF StakesInv

LEMMA StakesStep ==
  ASSUME SpotInv, StakesInv, [SpotNext]_spotVars
  PROVE  StakesInv'
<1>1. /\ HandOK(hand, start) /\ (hand.street = 1 => Opening(hand))
      /\ DeepStacks(start) /\ Stakes(hand) /\ start \in [Seats -> Nat]
  BY DEF SpotInv, HandSeen, StakesInv
<1>2. ASSUME NEW reading \in Readings, TakeFrame(reading) PROVE StakesInv'
  BY <1>2 DEF TakeFrame, StakesInv
<1>3. ASSUME NEW event \in Events(hand), PlayEvent(event) PROVE StakesInv'
  <2>1. PICK g : g = Applied(hand, event)
    OBVIOUS
  <2>2. Acts(hand, event, g)
    BY <1>1, <2>1, EventsFacts
  <2>3. Stakes(g)
    BY <1>1, <2>2, StakesAct
  <2>4. hand' = g /\ start' = start
    BY <1>3, <2>1 DEF PlayEvent
  <2>5. QED
    BY <1>1, <2>3, <2>4 DEF StakesInv
<1>4. CASE DealNextStreet
  <2>1. PICK g : g = AppliedDeal(hand, Button)
    OBVIOUS
  <2>2. Deals(hand, g) /\ hand' = g /\ start' = start
    BY <1>4, <2>1 DEF DealNextStreet, Deals
  <2>3. Stakes(g)
    BY <1>1, <2>2, StakesDeal
  <2>4. QED
    BY <1>1, <2>2, <2>3 DEF StakesInv
<1>5. CASE UNCHANGED spotVars
  BY <1>5 DEF StakesInv, spotVars
<1>6. QED
  BY <1>2, <1>3, <1>4, <1>5 DEF SpotNext

LEMMA StakesInvariant ==
  ASSUME \A stacks \in Starts : DeepStacks(stacks)
  PROVE  SpotSpec => [](SpotInv /\ StakesInv)
<1>1. SpotInit => SpotInv /\ StakesInv
  BY SpotInitKeeps, StakesInit
<1>2. (SpotInv /\ StakesInv) /\ [SpotNext]_spotVars => (SpotInv /\ StakesInv)'
  BY SpotStepKeeps, StakesStep
<1>3. QED
  BY <1>1, <1>2, PTL DEF SpotSpec

-----------------------------------------------------------------------------
(* Sums.                                                                   *)

\* What two seats have paid is in the pot.
LEMMA TotalOfTwo ==
  ASSUME NEW amounts \in [Seats -> Nat], NEW a \in Seats, NEW b \in Seats, a # b
  PROVE  Total(amounts) \in Nat /\ Total(amounts) >= amounts[a] + amounts[b]
<1>0. Players \in Nat /\ Seats = 0 .. Players - 1 /\ a \in Nat /\ b \in Nat
  BY ReplayAssumption DEF Seats
<1>1. PICK f : /\ Total(amounts) = f[Players] /\ f[0] = 0
               /\ \A n \in 1..Players : f[n] = f[n - 1] + amounts[n - 1]
  BY TotalFacts
<1>2. PICK x \in Nat, y \in Nat : x = amounts[a] /\ y = amounts[b]
  OBVIOUS
<1> DEFINE Least(n) == (IF a < n THEN x ELSE 0) + (IF b < n THEN y ELSE 0)
           Fine(n) == f[n] \in Nat /\ f[n] >= Least(n)
           B == {k \in 0..Players : ~Fine(k)}
<1>3. Fine(Players) => Total(amounts) \in Nat /\ Total(amounts) >= x + y
  BY <1>0, <1>1
<1>4. SUFFICES ASSUME B # {} PROVE FALSE
  <2>1. Players \in 0..Players
    BY <1>0
  <2>2. QED
    BY <1>2, <1>3, <2>1, Zenon
<1>5. PICK k \in B : \A l \in B : k <= l
  <2> HIDE DEF B
  <2>1. B \subseteq Nat
    BY DEF B
  <2>2. QED
    BY <1>4, <2>1, LeastNumber
<1>6. k \in 0..Players /\ ~Fine(k)
  BY Zenon
<1>7. k # 0
  BY <1>0, <1>1, <1>2, <1>6
<1>8. k - 1 \in 0..Players /\ ~(k <= k - 1) /\ k \in 1..Players /\ k - 1 \in Seats
  BY <1>0, <1>6, <1>7
<1>9. Fine(k - 1)
  BY <1>5, <1>8
<1>10. PICK more \in Nat, before \in Nat : more = amounts[k - 1] /\ before = f[k - 1]
  BY <1>8, <1>9
<1>11. f[k] = before + more
  BY <1>1, <1>8, <1>10
<1>12. Least(k) <= Least(k - 1) + more
  <2>1. (IF a < k THEN x ELSE 0) <= (IF a < k - 1 THEN x ELSE 0) + (IF a = k - 1 THEN x ELSE 0)
    BY <1>0, <1>2, <1>6
  <2>2. (IF b < k THEN y ELSE 0) <= (IF b < k - 1 THEN y ELSE 0) + (IF b = k - 1 THEN y ELSE 0)
    BY <1>0, <1>2, <1>6
  <2>3. (IF a = k - 1 THEN x ELSE 0) + (IF b = k - 1 THEN y ELSE 0) <= more
    BY <1>2, <1>10
  <2>4. QED
    BY <1>2, <2>1, <2>2, <2>3
<1>13. before >= Least(k - 1)
  BY <1>9, <1>10
<1>14. Fine(k)
  BY <1>2, <1>10, <1>11, <1>12, <1>13
<1>15. QED
  BY <1>6, <1>14, Zenon

LEMMA TotalOfNothing ==
  ASSUME NEW amounts \in [Seats -> Nat], \A s \in Seats : amounts[s] = 0
  PROVE  Total(amounts) = 0
<1>0. Players \in Nat /\ Seats = 0 .. Players - 1
  BY ReplayAssumption DEF Seats
<1>1. PICK f : /\ Total(amounts) = f[Players] /\ f[0] = 0
               /\ \A n \in 1..Players : f[n] = f[n - 1] + amounts[n - 1]
  BY TotalFacts
<1> DEFINE B == {k \in 0..Players : f[k] # 0}
<1>2. SUFFICES ASSUME B # {} PROVE FALSE
  BY <1>0, <1>1
<1>3. PICK k \in B : \A l \in B : k <= l
  <2> HIDE DEF B
  <2>1. B \subseteq Nat
    BY DEF B
  <2>2. QED
    BY <1>2, <2>1, LeastNumber
<1>4. k \in 0..Players /\ f[k] # 0 /\ k # 0
  BY <1>1
<1>5. k - 1 \in 0..Players /\ ~(k <= k - 1) /\ k \in 1..Players /\ k - 1 \in Seats
  BY <1>0, <1>4
<1>6. f[k - 1] = 0
  BY <1>3, <1>5
<1>7. f[k] = f[k - 1] + amounts[k - 1] /\ amounts[k - 1] = 0
  BY <1>1, <1>5
<1>8. QED
  BY <1>4, <1>6, <1>7

\* The pot of a street has two blinds.
LEMMA PotOfTwo ==
  ASSUME NEW h \in HandType, TwoPaid(h)
  PROVE  Total(h.totalPaid) \in Nat /\ Total(h.totalPaid) >= 2 * BigBlind
<1>1. BigBlind \in Nat
  BY ReplayAssumption
<1>2. PICK a, b \in Seats : /\ a # b
                            /\ BigBlind <= h.totalPaid[a] - h.streetPaid[a]
                            /\ BigBlind <= h.totalPaid[b] - h.streetPaid[b]
  BY DEF TwoPaid
<1>3. a \in Seats
  BY <1>2
<1>4. h.totalPaid \in [Seats -> Nat] /\ \A s \in Seats : h.totalPaid[s] \in Nat /\ h.streetPaid[s] \in Nat
  BY DEF HandType
<1>5. h.totalPaid[a] >= BigBlind /\ h.totalPaid[b] >= BigBlind
  BY <1>1, <1>2, <1>3, <1>4
<1>6. Total(h.totalPaid) \in Nat /\ Total(h.totalPaid) >= h.totalPaid[a] + h.totalPaid[b]
  BY <1>2, <1>3, <1>4, TotalOfTwo
<1>7. h.totalPaid[a] \in Nat /\ h.totalPaid[b] \in Nat
  BY <1>2, <1>3, <1>4
<1>8. QED
  BY <1>1, <1>5, <1>6, <1>7

\* Half of such a pot is a blind.
LEMMA BetIsBlind ==
  ASSUME NEW pot \in Nat, pot >= 2 * BigBlind, BetPct >= 50
  PROVE  HalfUp(pot * BetPct, 100) \in Nat /\ HalfUp(pot * BetPct, 100) >= BigBlind
<1>1. BetPct \in Nat /\ BigBlind \in Nat
  BY RouterAssumption, ReplayAssumption
<1>2. PICK more \in Nat : BetPct = 50 + more
  <2>1. BetPct - 50 \in Nat /\ BetPct = 50 + (BetPct - 50)
    BY <1>1
  <2>2. QED
    BY <2>1
<1>3. PICK rest \in Nat : rest = pot * more
  <2>1. pot * more \in Nat
    BY <1>2
  <2>2. QED
    BY <2>1
<1>4. pot * BetPct = 50 * pot + rest
  <2>1. pot * (50 + more) = 50 * pot + pot * more
    BY <1>2
  <2>2. QED
    BY <1>2, <1>3, <2>1
<1>5. PICK product \in Nat : product = pot * BetPct
  BY <1>4
<1>6. product >= 100 * BigBlind
  BY <1>1, <1>3, <1>4, <1>5
<1>7. (2 * product + 100) \div 200 \in Nat /\ (2 * product + 100) \div 200 >= BigBlind
  BY <1>1, <1>6
<1>8. HalfUp(product, 100) = (2 * product + 100) \div 200
  BY DEF HalfUp
<1>9. QED
  BY <1>5, <1>7, <1>8

-----------------------------------------------------------------------------
(* Hero's turn.                                                            *)

LEMMA AskedFacts ==
  ASSUME SpotInv, Asked
  PROVE  /\ frames # <<>> /\ Last(frames).hand = hand /\ Actor(hand) = hero /\ hero \in Seats
         /\ HandOK(hand, start) /\ LeastRaise(hand) /\ Sound(hand)
<1>1. Last(frames).hand = hand /\ hero \in Seats /\ HandSeen(hand)
  BY DEF SpotInv, Asked
<1>2. Actor(hand) = hero
  <2>1. PICK S : frames \in Seq(S)
    BY DEF SpotInv
  <2>2. frames # <<>>
    BY DEF Asked
  <2>3. Len(frames) \in 1..Len(frames) /\ Last(frames) = frames[Len(frames)]
    BY <2>1, <2>2 DEF Last
  <2>4. Actor(frames[Len(frames)].hand) = hero
    BY <2>3 DEF SpotInv
  <2>5. QED
    BY <1>1, <2>3, <2>4
<1>3. QED
  BY <1>1, <1>2 DEF HandSeen, Asked

\* The turn in numbers: what Hero has in and behind, the bet to beat, the
\* raise it takes, and the right to it.
Turn(paid, left, top, full, may) ==
  /\ paid \in Nat /\ left \in Nat \ {0} /\ top \in Nat /\ full \in Nat /\ may \in BOOLEAN
  /\ hand.streetPaid[hero] = paid /\ hand.remaining[hero] = left
  /\ hand.highest = top /\ hand.lastFullRaise = full
  /\ may <=> MayRaise(hand, hero)
  /\ paid <= top /\ Facing(hand, hero) = top - paid
  /\ MaxTarget(hand, hero) = paid + left /\ ReplayedTarget(hero) = paid + left
  /\ may => full <= BigBlind \/ full <= top - paid

LEMMA TurnInNumbers ==
  ASSUME SpotInv, Asked
  PROVE  \E paid, left, top, full, may : Turn(paid, left, top, full, may)
<1>1. hero \in Seats /\ HandOK(hand, start) /\ LeastRaise(hand) /\ Actor(hand) = hero
  BY AskedFacts
<1>2. PICK seat \in Seats : seat = hero
  BY <1>1
<1>3. PICK h : h = hand
  OBVIOUS
<1>4. PICK may \in BOOLEAN : may <=> MayRaise(h, seat)
  OBVIOUS
<1>5. /\ ~h.closed
      /\ h.streetPaid[seat] \in Nat /\ h.remaining[seat] \in Nat \ {0}
      /\ h.highest \in Nat /\ h.lastFullRaise \in Nat /\ BigBlind \in Nat \ {0}
      /\ h.streetPaid[seat] <= h.highest
      /\ Facing(h, seat) = h.highest - h.streetPaid[seat]
      /\ MaxTarget(h, seat) = h.streetPaid[seat] + h.remaining[seat]
      /\ MayRaise(h, seat) =>
           h.lastFullRaise <= BigBlind \/ h.lastFullRaise <= Facing(h, seat)
  BY <1>1, <1>2, <1>3, HeroFacts
<1>6. PICK paid \in Nat, left \in Nat \ {0}, top \in Nat, full \in Nat :
        /\ paid = h.streetPaid[seat] /\ left = h.remaining[seat] /\ top = h.highest
        /\ full = h.lastFullRaise
  BY <1>5
<1>7. ReplayedTarget(seat) = paid + left
  BY <1>3, <1>6 DEF ReplayedTarget
<1>8. Turn(paid, left, top, full, may)
  BY <1>2, <1>3, <1>4, <1>5, <1>6, <1>7 DEF Turn
<1>9. QED
  BY <1>8

\* What the rules make of an action in Hero's turn.
LEMMA TurnAccepts ==
  ASSUME SpotInv, Asked, NEW paid, NEW left, NEW top, NEW full, NEW may,
         Turn(paid, left, top, full, may), NEW to \in Nat
  PROVE  /\ top > paid => Accepts(hand, Event(hand, "FOLD", NoAmount))
         /\ top > paid => Accepts(hand, Event(hand, "CALL", CallTarget(hand, hero)))
         /\ top = paid => Accepts(hand, Event(hand, "CHECK", NoAmount))
         /\ may /\ to = paid + left => Accepts(hand, Event(hand, "ALL_IN_TO", to))
         /\ top = 0 /\ to <= paid + left /\ to >= BigBlind =>
              Accepts(hand, Event(hand, "BET_TO", to))
         /\ top > 0 /\ may /\ to <= paid + left /\ to > top /\ to - top >= full =>
              Accepts(hand, Event(hand, "RAISE_TO", to))
<1>0. PICK seat \in Seats : seat = hero
  BY AskedFacts
<1>1. PICK h : seat = hero /\ h = hand
  BY <1>0
<1>2. HandOK(h, start) /\ LeastRaise(h) /\ seat = Actor(h)
  BY <1>1, AskedFacts
<1>3. ~h.closed
  BY <1>2, HeroFacts
<1>4. BigBlind \in Nat \ {0}
  BY ReplayAssumption
<1>5. ASSUME NEW x
      PROVE  /\ Accepts(h, Event(h, "FOLD", x)) <=> x = NoAmount /\ Facing(h, seat) > 0
             /\ Accepts(h, Event(h, "CHECK", x)) <=> x = NoAmount /\ Facing(h, seat) = 0
             /\ Accepts(h, Event(h, "CALL", x)) <=> Facing(h, seat) > 0 /\ x = CallTarget(h, seat)
             /\ Accepts(h, Event(h, "BET_TO", x)) <=>
                  /\ h.highest = 0 /\ x > h.streetPaid[seat] /\ x <= MaxTarget(h, seat)
                  /\ x - h.streetPaid[seat] >= BigBlind
             /\ Accepts(h, Event(h, "RAISE_TO", x)) <=>
                  /\ h.highest > 0 /\ MayRaise(h, seat)
                  /\ x > h.highest /\ x <= MaxTarget(h, seat)
                  /\ x - h.highest >= h.lastFullRaise
             /\ Accepts(h, Event(h, "ALL_IN_TO", x)) <=>
                  /\ x = MaxTarget(h, seat) /\ x > h.streetPaid[seat]
                  /\ x > h.highest => MayRaise(h, seat)
  BY <1>2, <1>3, AcceptsCases
<1>6. /\ paid \in Nat /\ left \in Nat \ {0} /\ top \in Nat /\ full \in Nat /\ may \in BOOLEAN
      /\ h.streetPaid[seat] = paid /\ h.highest = top /\ h.lastFullRaise = full
      /\ may <=> MayRaise(h, seat)
      /\ paid <= top /\ Facing(h, seat) = top - paid /\ MaxTarget(h, seat) = paid + left
  BY <1>1 DEF Turn
<1>7. top > paid => /\ Accepts(h, Event(h, "FOLD", NoAmount))
                    /\ Accepts(h, Event(h, "CALL", CallTarget(h, seat)))
  BY <1>5, <1>6
<1>8. top = paid => Accepts(h, Event(h, "CHECK", NoAmount))
  BY <1>5, <1>6
<1>9. may /\ to = paid + left => Accepts(h, Event(h, "ALL_IN_TO", to))
  BY <1>5, <1>6
<1>10. top = 0 /\ to <= paid + left /\ to >= BigBlind => Accepts(h, Event(h, "BET_TO", to))
  BY <1>4, <1>5, <1>6
<1>11. top > 0 /\ may /\ to <= paid + left /\ to > top /\ to - top >= full =>
         Accepts(h, Event(h, "RAISE_TO", to))
  BY <1>5, <1>6
<1>12. QED
  BY <1>1, <1>7, <1>8, <1>9, <1>10, <1>11

\* A wager is all that Hero has, all that the other has, or less than both.
Covered(to, v) == to = Lesser(ReplayedTarget(hero), ReplayedTarget(v))

LEMMA WagerIsPlayable ==
  ASSUME SpotInv, Asked, NEW paid, NEW left, NEW top, NEW full, NEW may,
         Turn(paid, left, top, full, may), may, NEW v \in Live(hand) \ {hero},
         NEW a, a.kind \in Sizes, NEW to \in Nat, a.to = to,
         \/ Covered(to, v)
         \/ /\ to < paid + left
            /\ top = 0 => to >= BigBlind
            /\ top > 0 => to - top >= full /\ to > top
  PROVE  Playable(a) \/ CoversVillain(a)
<1>1. /\ Actor(hand) = hero /\ MaxTarget(hand, hero) = paid + left
      /\ ReplayedTarget(hero) = paid + left /\ hand.highest = top
      /\ paid \in Nat /\ left \in Nat \ {0} /\ top \in Nat /\ full \in Nat
  BY AskedFacts DEF Turn
<1>2. /\ a.to = MaxTarget(hand, hero) => EventFor(a) = Event(hand, "ALL_IN_TO", a.to)
      /\ a.to # MaxTarget(hand, hero) /\ hand.highest = 0 => EventFor(a) = Event(hand, "BET_TO", a.to)
      /\ a.to # MaxTarget(hand, hero) /\ hand.highest # 0 =>
           EventFor(a) = Event(hand, "RAISE_TO", a.to)
  BY <1>1, EventForCases
<1>3. /\ may /\ to = paid + left => Accepts(hand, Event(hand, "ALL_IN_TO", to))
      /\ top = 0 /\ to <= paid + left /\ to >= BigBlind => Accepts(hand, Event(hand, "BET_TO", to))
      /\ top > 0 /\ may /\ to <= paid + left /\ to > top /\ to - top >= full =>
           Accepts(hand, Event(hand, "RAISE_TO", to))
  BY TurnAccepts
<1>4. CASE to = paid + left
  BY <1>1, <1>2, <1>3, <1>4 DEF Playable
<1>5. CASE to # paid + left /\ Covered(to, v)
  <2>1. to = ReplayedTarget(v)
    BY <1>1, <1>5 DEF Covered, Lesser
  <2>2. QED
    BY <2>1 DEF CoversVillain
<1>6. CASE to < paid + left /\ top = 0 /\ to >= BigBlind
  <2>1. to # paid + left /\ to <= paid + left
    BY <1>1, <1>6
  <2>2. QED
    BY <1>1, <1>2, <1>3, <1>6, <2>1 DEF Playable
<1>7. CASE to < paid + left /\ top > 0 /\ to - top >= full /\ to > top
  <2>1. to # paid + left /\ to <= paid + left /\ top # 0
    BY <1>1, <1>7
  <2>2. QED
    BY <1>1, <1>2, <1>3, <1>7, <2>1 DEF Playable
<1>8. QED
  BY <1>1, <1>4, <1>5, <1>6, <1>7

\* Folds, checks and calls, where Hero's chips say which.
LEMMA PassiveIsPlayable ==
  ASSUME SpotInv, Asked, NEW paid, NEW left, NEW top, NEW full, NEW may,
         Turn(paid, left, top, full, may)
  PROVE  /\ top > paid => Playable(Unsized("FOLD")) /\ Playable(Unsized("CALL"))
         /\ top = paid => Playable(Unsized("CHECK"))
<1>1. Actor(hand) = hero
  BY AskedFacts
<1>2. /\ Unsized("FOLD").kind = "FOLD" /\ Unsized("CALL").kind = "CALL"
      /\ Unsized("CHECK").kind = "CHECK"
  BY DEF Unsized
<1>3. EventFor(Unsized("FOLD")) = Event(hand, "FOLD", NoAmount)
  BY <1>1, <1>2, EventForCases
<1>4. EventFor(Unsized("CALL")) = Event(hand, "CALL", CallTarget(hand, hero))
  BY <1>1, <1>2, EventForCases
<1>5. EventFor(Unsized("CHECK")) = Event(hand, "CHECK", NoAmount)
  BY <1>1, <1>2, EventForCases
<1>6. 0 \in Nat
  OBVIOUS
<1>7. /\ top > paid => Accepts(hand, Event(hand, "FOLD", NoAmount))
      /\ top > paid => Accepts(hand, Event(hand, "CALL", CallTarget(hand, hero)))
      /\ top = paid => Accepts(hand, Event(hand, "CHECK", NoAmount))
  BY <1>6, TurnAccepts
<1>8. QED
  BY <1>3, <1>4, <1>5, <1>7 DEF Playable

\* The buttons in the turn.
LEMMA TurnButtons ==
  ASSUME SpotInv, Asked, NEW paid, NEW left, NEW top, NEW full, NEW may,
         Turn(paid, left, top, full, may)
  PROVE  /\ "BET" \in Buttons(Last(frames)) => may /\ top = 0
         /\ "RAISE" \in Buttons(Last(frames)) => may
         /\ "ALL-IN" \in Buttons(Last(frames)) => may
         /\ "CHECK" \in Buttons(Last(frames)) => top = paid
         /\ "CALL" \in Buttons(Last(frames)) => top > paid
<1>0. PICK seat \in Seats : seat = hero
  BY AskedFacts
<1>1. PICK h, f : seat = hero /\ h = hand /\ f = Last(frames)
  BY <1>0
<1>2. HandOK(h, start) /\ LeastRaise(h) /\ Actor(h) = seat /\ h = f.hand
  BY <1>1, AskedFacts
<1>3. /\ "CALL" \in Buttons(f) => Facing(h, seat) > 0
      /\ "CHECK" \in Buttons(f) => Facing(h, seat) = 0
      /\ "BET" \in Buttons(f) => MayRaise(h, seat) /\ h.highest = 0
      /\ "RAISE" \in Buttons(f) => MayRaise(h, seat) /\ h.highest > 0
      /\ "ALL-IN" \in Buttons(f) => MayRaise(h, seat) /\ MaxTarget(h, seat) > h.highest
  BY <1>1, <1>2, ButtonFacts
<1>4. /\ h.highest = top /\ (may <=> MayRaise(h, seat)) /\ Facing(h, seat) = top - paid
      /\ paid \in Nat /\ top \in Nat /\ paid <= top
  BY <1>1 DEF Turn
<1>5. /\ "CALL" \in Buttons(f) => top > paid
      /\ "CHECK" \in Buttons(f) => top = paid
  BY <1>3, <1>4
<1>6. QED
  BY <1>1, <1>3, <1>4, <1>5

LEMMA RaiseIsDouble ==
  ASSUME NEW n \in Nat
  PROVE  HalfUp(n * 5, 2) \in Nat /\ HalfUp(n * 5, 2) >= 2 * n
<1>1. HalfUp(n * 5, 2) = (2 * (n * 5) + 2) \div 4
  BY DEF HalfUp
<1>2. QED
  BY <1>1

-----------------------------------------------------------------------------
(* The state that the questions are about.                                 *)

LEMMA OneLeft ==
  ASSUME NEW S, Cardinality(S) = 1
  PROVE  (CHOOSE v \in S : TRUE) \in S
<1>1. S # {}
  BY FS_EmptySet
<1>2. QED
  BY <1>1

LEMMA VillainFacts ==
  ASSUME NEW f, Villain(f) # NoSeat
  PROVE  Villain(f) \in Live(f.hand) \ {hero}
<1>1. PICK active, others : /\ active = ActiveSeats(f) \ {hero}
                            /\ others = LiveIn(f) \ {hero}
  OBVIOUS
<1>2. active \subseteq others /\ others = Live(f.hand) \ {hero}
  BY <1>1 DEF ActiveSeats, LiveIn, Eligible
<1>3. CASE Cardinality(active) = 1
  <2>1. Villain(f) = CHOOSE v \in active : TRUE
    BY <1>1, <1>3 DEF Villain
  <2>2. QED
    BY <1>2, <1>3, <2>1, OneLeft
<1>4. CASE Cardinality(active) # 1
  <2>1. Cardinality(others) = 1 /\ Villain(f) = CHOOSE v \in others : TRUE
    BY <1>1, <1>4 DEF Villain
  <2>2. QED
    BY <1>2, <2>1, OneLeft
<1>5. QED
  BY <1>3, <1>4

LEMMA VillainExists ==
  ASSUME NEW f, Cardinality(LiveIn(f) \ {hero}) = 1, LiveIn(f) \subseteq Seats
  PROVE  Villain(f) # NoSeat
<1>1. PICK active, others : /\ active = ActiveSeats(f) \ {hero}
                            /\ others = LiveIn(f) \ {hero}
  OBVIOUS
<1>2. active \subseteq others /\ others \subseteq Seats
  BY <1>1 DEF ActiveSeats, LiveIn, Eligible
<1>3. \/ Cardinality(active) = 1 /\ Villain(f) = CHOOSE v \in active : TRUE
      \/ Villain(f) = CHOOSE v \in others : TRUE
  BY <1>1 DEF Villain
<1>4. Villain(f) \in Seats
  BY <1>1, <1>2, <1>3, OneLeft
<1>5. QED
  BY <1>4, SeatsFinite

\* What a state says of the table.
TableState(st) ==
  /\ st.street = hand.street
  /\ st.villain # NoSeat => /\ st.villain \in Live(hand) \ {hero}
                            /\ st.villainStack = ReplayedTarget(st.villain)
                            /\ st.villainBet = hand.streetPaid[st.villain]
  /\ Cardinality(Live(hand) \ {hero}) = 1 => st.villain # NoSeat
  /\ st.pot = Total(hand.totalPaid) - Total(hand.streetPaid)
  /\ st.heroStack = ReplayedTarget(hero) /\ st.heroBet = hand.streetPaid[hero]
  /\ st.call = Lesser(Facing(hand, hero), hand.remaining[hero])
  /\ st.buttons = Buttons(Last(frames))
  /\ st.mapped => \A s \in Seats \ {hero, st.villain} : ~(hand.streetPaid[s] > 0)

\* A bet of a third seat has no history.
LEMMA MappedFacts ==
  ASSUME NEW seen, NEW villain, NEW position, ActionHistory(seen, villain, position) # Unmapped
  PROVE  ~OtherBets(Last(seen), villain)
<1>1. PICK other \in BOOLEAN : other <=> (villain = NoSeat \/ OtherBets(Last(seen), villain))
  OBVIOUS
<1>2. PICK root, facing : /\ root = HistoryAtRoot(seen, villain, position)
                          /\ facing = HistoryFacingBet(seen, villain, position)
  OBVIOUS
<1>3. other => ActionHistory(seen, villain, position) = Unmapped
  BY <1>1, Zenon DEF ActionHistory
<1>4. QED
  BY <1>1, <1>3

LEMMA LiveStateFacts ==
  ASSUME SpotInv, Asked
  PROVE  TableState(LiveState(frames))
<1>1. PICK f : f = Last(frames)
  OBVIOUS
<1>2. f.hand = hand /\ hero \in Seats /\ hand \in HandType
  BY <1>1, AskedFacts DEF HandOK
<1>3. hero # NoSeat
  BY <1>2, SeatsFinite
<1>4. PICK villain, position, history :
        /\ villain = Villain(f)
        /\ position = RelativePosition(hero, LiveIn(f) \ {hero})
        /\ history = ActionHistory(frames, villain, position)
  OBVIOUS
<1>5. PICK mine, his, bet, observed, root, seen, oop, mapped :
        /\ oop = (position = "OOP") /\ mapped = (history # Unmapped)
        /\ mine = IF hero = NoSeat THEN 0 ELSE Stack(f, hero) + Bet(f, hero)
        /\ his = IF villain = NoSeat THEN 0 ELSE Stack(f, villain) + Bet(f, villain)
        /\ bet = IF villain = NoSeat THEN 0 ELSE Bet(f, villain)
        /\ observed = IF history # Unmapped /\ CallAmount(f) > 0 THEN Bet(f, villain) ELSE 0
        /\ root = StreetRootConfirmed(frames)
        /\ seen = TerminalFromHistory(frames)
  OBVIOUS
<1>6. LiveState(frames) =
        [street |-> Street(f), villain |-> villain, oop |-> oop,
         villains |-> Cardinality(LiveIn(f) \ {hero}),
         pot |-> TotalPot(f) - Total(f.hand.streetPaid),
         heroStack |-> mine, villainStack |-> his,
         heroBet |-> Bet(f, hero), villainBet |-> bet,
         call |-> CallAmount(f), buttons |-> Buttons(f),
         rootConfirmed |-> root, history |-> history, mapped |-> mapped,
         observedBet |-> observed, observation |-> seen]
  BY <1>1, <1>4, <1>5, Zenon DEF LiveState
<1>7. PICK st : st = LiveState(frames)
  OBVIOUS
<1>8. /\ st.street = Street(f) /\ st.villain = villain
      /\ st.pot = TotalPot(f) - Total(f.hand.streetPaid)
      /\ st.heroStack = mine /\ st.villainStack = his
      /\ st.heroBet = Bet(f, hero) /\ st.villainBet = bet
      /\ st.call = CallAmount(f) /\ st.buttons = Buttons(f)
      /\ st.mapped = mapped
  BY <1>6, <1>7
<1>9. villain # NoSeat => villain \in Live(hand) \ {hero}
  BY <1>2, <1>4, VillainFacts
<1>10. Cardinality(Live(hand) \ {hero}) = 1 => villain # NoSeat
  <2>1. LiveIn(f) = Live(hand) /\ Live(hand) \subseteq Seats
    BY <1>2 DEF LiveIn, Live
  <2>2. QED
    BY <1>4, <2>1, VillainExists
<1>11. st.mapped => \A s \in Seats \ {hero, villain} : ~(hand.streetPaid[s] > 0)
  <2>1. st.mapped => ~OtherBets(f, villain)
    BY <1>1, <1>4, <1>5, <1>8, MappedFacts
  <2>2. QED
    BY <1>2, <2>1 DEF OtherBets, Bet
<1>12. villain # NoSeat => /\ his = ReplayedTarget(villain)
                           /\ bet = hand.streetPaid[villain]
  BY <1>2, <1>5 DEF Stack, Bet, ReplayedTarget
<1>13. mine = ReplayedTarget(hero) /\ Bet(f, hero) = hand.streetPaid[hero]
  BY <1>2, <1>3, <1>5 DEF Stack, Bet, ReplayedTarget
<1>14. /\ Street(f) = hand.street /\ TotalPot(f) = Total(hand.totalPaid)
       /\ CallAmount(f) = Lesser(Facing(hand, hero), hand.remaining[hero])
  BY <1>2 DEF Street, TotalPot, CallAmount
<1>15. TableState(st)
  BY <1>1, <1>2, <1>8, <1>9, <1>10, <1>11, <1>12, <1>13, <1>14 DEF TableState
<1>16. QED
  BY <1>7, <1>15

LEMMA StateForFacts ==
  ASSUME SpotInv, Asked, NEW mode
  PROVE  TableState(StateFor(mode))
<1>1. PICK st : st = LiveState(frames)
  OBVIOUS
<1>2. TableState(st)
  BY <1>1, LiveStateFacts
<1>3. ASSUME NEW o PROVE TableState([st EXCEPT !.observation = o])
  <2>1. PICK again : again = [st EXCEPT !.observation = o]
    OBVIOUS
  <2>2. /\ again.street = st.street /\ again.villain = st.villain
        /\ again.villainStack = st.villainStack /\ again.villainBet = st.villainBet
        /\ again.pot = st.pot /\ again.heroStack = st.heroStack /\ again.heroBet = st.heroBet
        /\ again.call = st.call /\ again.buttons = st.buttons /\ again.mapped = st.mapped
    BY <1>1, <2>1 DEF LiveState
  <2>3. QED
    BY <1>2, <2>1, <2>2 DEF TableState
<1>4. PositionContinuity(frames, st) = st \/ \E o : PositionContinuity(frames, st) = [st EXCEPT !.observation = o]
  BY DEF PositionContinuity
<1>5. TableState(PositionContinuity(frames, st))
  BY <1>2, <1>3, <1>4
<1>6. QED
  BY <1>1, <1>2, <1>5 DEF StateFor

-----------------------------------------------------------------------------
(* The question of one street.                                             *)

LEMMA SupportedFacts ==
  ASSUME NEW st, SupportedHistory(st), st.call \in Nat
  PROVE  /\ st.heroBet = 0
         /\ st.call > 0 => st.villainBet = st.call /\ st.observedBet = st.call
<1>1. PICK call, mine, his, seen :
        /\ call \in Nat
        /\ call = st.call /\ mine = st.heroBet /\ his = st.villainBet /\ seen = st.observedBet
  OBVIOUS
<1>2. PICK untouched \in BOOLEAN, faced \in BOOLEAN :
        /\ untouched <=> st.call = 0 /\ st.heroBet = 0 /\ st.villainBet = 0
        /\ faced <=> /\ st.observedBet > 0 /\ st.heroBet = 0
                     /\ st.villainBet = st.observedBet /\ st.call = st.observedBet
                     /\ st.observedBet <= Effective(st)
  OBVIOUS
<1>3. untouched \/ faced
  BY <1>2, Zenon DEF SupportedHistory
<1>4. QED
  BY <1>1, <1>2, <1>3

LEMMA EligibleFacts ==
  ASSUME NEW st, TableState(st), IsEligible(st), st.call \in Nat
  PROVE  /\ st.villain \in Live(hand) \ {hero} /\ Covered(Effective(st), st.villain)
         /\ hand.streetPaid[hero] = 0
         /\ \A s \in Seats \ {hero, st.villain} : ~(hand.streetPaid[s] > 0)
         /\ st.call = 0 => Bets \cap Buttons(Last(frames)) # {}
         /\ st.call > 0 => /\ hand.streetPaid[st.villain] = st.call
                           /\ st.observedBet = st.call
                           /\ Effective(st) > st.call =>
                                {"RAISE", "ALL-IN"} \cap Buttons(Last(frames)) # {}
<1>1. /\ st.mapped /\ SupportedHistory(st) /\ st.villain # NoSeat
      /\ st.call = 0 => Bets \cap st.buttons # {}
      /\ st.call # 0 /\ Effective(st) > st.observedBet => {"RAISE", "ALL-IN"} \cap st.buttons # {}
  BY DEF IsEligible, VerifiedHandoff
<1>2. /\ st.heroBet = 0
      /\ st.call > 0 => st.villainBet = st.call /\ st.observedBet = st.call
  BY <1>1, SupportedFacts
<1>3. /\ st.villain \in Live(hand) \ {hero} /\ st.villainStack = ReplayedTarget(st.villain)
      /\ st.villainBet = hand.streetPaid[st.villain]
      /\ st.heroStack = ReplayedTarget(hero) /\ st.heroBet = hand.streetPaid[hero]
      /\ st.buttons = Buttons(Last(frames))
      /\ \A s \in Seats \ {hero, st.villain} : ~(hand.streetPaid[s] > 0)
  BY <1>1 DEF TableState
<1>4. Covered(Effective(st), st.villain)
  BY <1>3 DEF Covered, Effective
<1>5. st.call > 0 => st.call # 0
  OBVIOUS
<1>6. QED
  BY <1>1, <1>2, <1>3, <1>4, <1>5

\* What is called, in numbers.
LEMMA CallFacts ==
  ASSUME SpotInv, Asked, NEW paid, NEW left, NEW top, NEW full, NEW may,
         Turn(paid, left, top, full, may), NEW st, TableState(st)
  PROVE  /\ st.call \in Nat /\ st.call = Lesser(top - paid, left)
         /\ st.call = 0 => top = paid
         /\ st.call > 0 => top > paid
<1>1. /\ paid \in Nat /\ left \in Nat \ {0} /\ top \in Nat /\ paid <= top
      /\ Facing(hand, hero) = top - paid /\ hand.remaining[hero] = left
  BY DEF Turn
<1>2. st.call = Lesser(top - paid, left)
  BY <1>1 DEF TableState
<1>3. QED
  BY <1>1, <1>2 DEF Lesser

LEMMA UntouchedActions ==
  ASSUME SpotInv, Asked, Stakes(hand), hand.street > 1, BetPct >= 50,
         NEW st, TableState(st), IsEligible(st), st.call = 0, NEW a \in RootActions(st)
  PROVE  Playable(a) \/ CoversVillain(a)
<1>1. PICK paid, left, top, full, may : Turn(paid, left, top, full, may)
  BY TurnInNumbers
<1>2. st.call \in Nat /\ top = paid
  BY <1>1, CallFacts
<1>3. /\ st.villain \in Live(hand) \ {hero} /\ Covered(Effective(st), st.villain)
      /\ hand.streetPaid[hero] = 0 /\ Bets \cap Buttons(Last(frames)) # {}
  BY <1>2, EligibleFacts
<1>4. /\ paid \in Nat /\ left \in Nat \ {0} /\ top \in Nat /\ full \in Nat /\ may \in BOOLEAN
      /\ hand.streetPaid[hero] = paid /\ hand.highest = top /\ ReplayedTarget(hero) = paid + left
  BY <1>1 DEF Turn
<1>5. paid = 0 /\ top = 0
  BY <1>2, <1>3, <1>4
<1>6. HandOK(hand, start) /\ hand \in HandType /\ ChipsOK(hand, start)
  BY AskedFacts DEF HandOK
<1>7. PICK pot \in Nat : st.pot = pot /\ pot >= 2 * BigBlind
  <2>1. hand.streetPaid \in [Seats -> Nat] /\ \A s \in Seats : hand.streetPaid[s] = 0
    <3>1. \A s \in Seats : hand.streetPaid[s] <= 0
      BY <1>4, <1>5, <1>6 DEF ChipsOK
    <3>2. hand.streetPaid \in [Seats -> Nat]
      BY <1>6 DEF HandType
    <3>3. QED
      BY <3>1, <3>2
  <2>2. Total(hand.streetPaid) = 0
    BY <2>1, TotalOfNothing
  <2>3. Total(hand.totalPaid) \in Nat /\ Total(hand.totalPaid) >= 2 * BigBlind
    BY <1>6, PotOfTwo DEF Stakes
  <2>4. st.pot = Total(hand.totalPaid) - Total(hand.streetPaid)
    BY DEF TableState
  <2>5. st.pot = Total(hand.totalPaid)
    BY <2>2, <2>3, <2>4
  <2>6. QED
    BY <2>3, <2>5
<1>8. PICK bet \in Nat : bet = HalfUp(st.pot * BetPct, 100) /\ bet >= BigBlind
  BY <1>7, BetIsBlind
<1>9. BigBlind \in Nat \ {0}
  BY ReplayAssumption
<1>10. PICK wanted \in Nat : wanted = Greater(1, HalfUp(st.pot * BetPct, 100)) /\ wanted >= BigBlind
  BY <1>8, <1>9 DEF Greater
<1>11. PICK effective : effective = Effective(st)
  OBVIOUS
<1>12. /\ "BET" \in Buttons(Last(frames)) => may
       /\ "ALL-IN" \in Buttons(Last(frames)) => may
  BY <1>1, TurnButtons
<1>13. may
  BY <1>3, <1>12 DEF Bets
<1>14. PICK low \in BOOLEAN : low <=> ("BET" \notin st.buttons \/ wanted >= effective)
  OBVIOUS
<1>15. RootActions(st) = {Unsized("CHECK"),
                          IF low THEN Sized("ALL-IN", effective) ELSE Sized("BET", wanted)}
  BY <1>10, <1>11, <1>14, Zenon DEF RootActions
<1>16. CASE a = Unsized("CHECK")
  BY <1>1, <1>2, <1>16, PassiveIsPlayable
<1>17. effective \in Nat /\ effective <= paid + left
  <2>1. PICK other \in Nat : other = ReplayedTarget(st.villain)
    <3>1. st.villain \in Seats
      BY <1>3 DEF Live
    <3>2. hand.remaining[st.villain] \in Nat /\ hand.streetPaid[st.villain] \in Nat
      BY <1>6, <3>1 DEF HandType
    <3>3. QED
      BY <3>2 DEF ReplayedTarget
  <2>2. effective = Lesser(paid + left, other)
    BY <1>3, <1>4, <1>11, <2>1 DEF Covered
  <2>3. QED
    BY <1>4, <2>1, <2>2 DEF Lesser
<1>18. CASE low /\ a = Sized("ALL-IN", effective)
  <2>1. a.kind \in Sizes /\ a.to = effective
    BY <1>18 DEF Sized, Sizes
  <2>2. Covered(effective, st.villain)
    BY <1>3, <1>11
  <2>3. QED
    BY <1>1, <1>3, <1>13, <1>17, <2>1, <2>2, WagerIsPlayable
<1>19. CASE ~low /\ a = Sized("BET", wanted)
  <2>1. a.kind \in Sizes /\ a.to = wanted
    BY <1>19 DEF Sized, Sizes
  <2>2. ~(wanted >= effective)
    BY <1>14, <1>19
  <2>3. wanted < paid + left
    BY <1>4, <1>17, <2>2
  <2>4. /\ top = 0 => wanted >= BigBlind
        /\ top > 0 => wanted - top >= full /\ wanted > top
    BY <1>5, <1>10
  <2>5. QED
    BY <1>1, <1>3, <1>13, <2>1, <2>3, <2>4, WagerIsPlayable
<1>20. QED
  BY <1>15, <1>16, <1>18, <1>19

\* A bet that leaves its maker chips is a big blind at least.
LEMMA FirstBetIsBlind ==
  ASSUME SpotInv, Asked, ShortIsAllIn(hand), NEW v \in Seats, v # hero,
         hand.streetPaid[hero] = 0, hand.remaining[v] > 0, hand.highest > 0,
         \A s \in Seats \ {hero, v} : ~(hand.streetPaid[s] > 0)
  PROVE  hand.highest >= BigBlind
<1>1. hand \in HandType /\ ChipsOK(hand, start) /\ hand.highest \in Nat /\ BigBlind \in Nat
  BY AskedFacts, ReplayAssumption DEF HandOK, HandType
<1>2. SUFFICES ASSUME hand.highest < BigBlind PROVE FALSE
  BY <1>1
<1>3. PICK s \in hand.allIn : hand.streetPaid[s] = hand.highest
  BY <1>2 DEF ShortIsAllIn, ShortBet
<1>4. s \in Seats /\ hand.remaining[s] = 0
  BY <1>1 DEF ChipsOK
<1>5. s # hero /\ s # v
  BY <1>1, <1>3, <1>4
<1>6. QED
  BY <1>3, <1>4, <1>5

LEMMA FacedActions ==
  ASSUME SpotInv, Asked, Stakes(hand), NEW st, TableState(st), IsEligible(st),
         st.call \in Nat, st.call > 0, NEW a \in RaiseOverBet(st)
  PROVE  Playable(a) \/ CoversVillain(a)
<1>1. PICK paid, left, top, full, may : Turn(paid, left, top, full, may)
  BY TurnInNumbers
<1>2. PICK call \in Nat : call = st.call /\ call = Lesser(top - paid, left) /\ call > 0
  BY <1>1, CallFacts
<1>3. PICK v : v = st.villain
  OBVIOUS
<1>4. PICK effective : effective = Effective(st)
  OBVIOUS
<1>5. /\ v \in Live(hand) \ {hero} /\ Covered(effective, v)
      /\ hand.streetPaid[hero] = 0 /\ hand.streetPaid[v] = call
      /\ \A s \in Seats \ {hero, v} : ~(hand.streetPaid[s] > 0)
      /\ effective > call => {"RAISE", "ALL-IN"} \cap Buttons(Last(frames)) # {}
  BY <1>2, <1>3, <1>4, EligibleFacts
<1>6. /\ paid \in Nat /\ left \in Nat \ {0} /\ top \in Nat /\ full \in Nat /\ may \in BOOLEAN
      /\ hand.streetPaid[hero] = paid /\ hand.highest = top /\ hand.remaining[hero] = left
      /\ hand.lastFullRaise = full /\ ReplayedTarget(hero) = paid + left
      /\ may => full <= BigBlind \/ full <= top - paid
  BY <1>1 DEF Turn
<1>7. paid = 0 /\ BigBlind \in Nat \ {0}
  BY <1>5, <1>6, ReplayAssumption
<1>8. v \in Seats /\ v # hero
  BY <1>5 DEF Live
<1>9. PICK behind \in Nat : behind = hand.remaining[v] /\ ReplayedTarget(v) = behind + call
  <2>1. hand.remaining[v] \in Nat
    BY <1>8, AskedFacts DEF HandOK, HandType
  <2>2. ReplayedTarget(v) = hand.remaining[v] + call
    BY <1>5 DEF ReplayedTarget
  <2>3. QED
    BY <2>1, <2>2
<1>10. effective = Lesser(left, behind + call)
  BY <1>5, <1>6, <1>7, <1>9 DEF Covered
<1>11. effective \in Nat /\ effective <= left /\ effective <= behind + call
  BY <1>2, <1>6, <1>9, <1>10 DEF Lesser
<1>12. PICK raise \in Nat : raise = HalfUp(st.call * 5, 2) /\ raise >= 2 * call
  BY <1>2, RaiseIsDouble
<1>13. PICK to \in Nat : to = Lesser(Effective(st), HalfUp(st.call * 5, 2)) /\ to = Lesser(effective, raise)
  BY <1>4, <1>11, <1>12 DEF Lesser
<1>14. PICK more \in BOOLEAN, button \in BOOLEAN :
         (more <=> effective > call) /\ (button <=> "RAISE" \in st.buttons)
  OBVIOUS
<1>15. (effective <= st.call <=> ~more) /\ (effective > st.call <=> more)
  BY <1>2, <1>11, <1>14
<1>16. RaiseOverBet(st) =
         CASE ~more -> {}
           [] more /\ button -> {Sized(IF to = effective THEN "ALL-IN" ELSE "RAISE", to)}
           [] OTHER -> {Sized("ALL-IN", effective)}
  BY <1>4, <1>13, <1>14, <1>15, Zenon DEF RaiseOverBet
<1>17. /\ more
       /\ \/ a = Sized(IF to = effective THEN "ALL-IN" ELSE "RAISE", to)
          \/ a = Sized("ALL-IN", effective)
  BY <1>16, Zenon
<1>18. /\ "RAISE" \in Buttons(Last(frames)) => may
       /\ "ALL-IN" \in Buttons(Last(frames)) => may
  BY <1>1, TurnButtons
<1>19. effective > call /\ may
  BY <1>5, <1>14, <1>17, <1>18
<1>20. top = call /\ behind > 0
  BY <1>2, <1>6, <1>7, <1>11, <1>19 DEF Lesser
<1>21. top >= BigBlind
  <2>1. /\ hand.remaining[v] > 0 /\ hand.highest > 0 /\ hand.streetPaid[hero] = 0
        /\ \A s \in Seats \ {hero, v} : ~(hand.streetPaid[s] > 0)
    BY <1>2, <1>5, <1>6, <1>9, <1>20
  <2>2. ShortIsAllIn(hand)
    BY DEF Stakes
  <2>3. QED
    BY <1>6, <1>8, <2>1, <2>2, FirstBetIsBlind
<1>22. CASE a.to = effective /\ a.kind \in Sizes
  BY <1>1, <1>5, <1>11, <1>19, <1>22, WagerIsPlayable
<1>23. CASE a.to = to /\ to # effective /\ a.kind \in Sizes
  <2>1. to = raise /\ to < effective
    BY <1>11, <1>12, <1>13, <1>23 DEF Lesser
  <2>2. to < paid + left
    BY <1>6, <1>7, <1>11, <2>1
  <2>3. to - top >= full /\ to > top
    BY <1>2, <1>6, <1>7, <1>12, <1>19, <1>20, <1>21, <2>1
  <2>4. /\ top = 0 => to >= BigBlind
        /\ top > 0 => to - top >= full /\ to > top
    BY <1>2, <1>20, <2>3
  <2>5. QED
    BY <1>1, <1>5, <1>19, <1>23, <2>2, <2>4, WagerIsPlayable
<1>24. a.kind \in Sizes /\ (a.to = effective \/ a.to = to)
  BY <1>17 DEF Sized, Sizes
<1>25. QED
  BY <1>22, <1>23, <1>24

LEMMA StreetActions ==
  ASSUME SpotInv, Asked, Stakes(hand), hand.street > 1, BetPct >= 50,
         NEW mode, NEW st, TableState(st), StreetSpec(st, mode).asked,
         NEW a \in StreetSpec(st, mode).modeled
  PROVE  Playable(a) \/ CoversVillain(a)
<1>1. NoSpec.asked = FALSE
  BY DEF NoSpec
<1>2. IsEligible(st) /\ StreetSpec(st, mode) = BuildLiveSpec(st)
  BY <1>1 DEF StreetSpec
<1>3. PICK modeled : modeled = IF st.call = 0 THEN RootActions(st)
                               ELSE {Unsized("FOLD"), Unsized("CALL")} \cup RaiseOverBet(st)
  OBVIOUS
<1>4. BuildLiveSpec(st).modeled = modeled
  BY <1>3 DEF BuildLiveSpec
<1>5. PICK paid, left, top, full, may : Turn(paid, left, top, full, may)
  BY TurnInNumbers
<1>6. st.call \in Nat /\ (st.call > 0 => top > paid)
  BY <1>5, CallFacts
<1>7. CASE st.call = 0
  <2>1. a \in RootActions(st)
    BY <1>2, <1>3, <1>4, <1>7
  <2>2. QED
    BY <1>2, <1>7, <2>1, UntouchedActions
<1>8. CASE st.call # 0
  <2>1. st.call > 0 /\ top > paid
    BY <1>6, <1>8
  <2>2. a \in {Unsized("FOLD"), Unsized("CALL")} \cup RaiseOverBet(st)
    BY <1>2, <1>3, <1>4, <1>8
  <2>3. CASE a \in RaiseOverBet(st)
    BY <1>2, <1>6, <2>1, <2>3, FacedActions
  <2>4. CASE a \in {Unsized("FOLD"), Unsized("CALL")}
    BY <1>5, <2>1, <2>4, PassiveIsPlayable
  <2>5. QED
    BY <2>2, <2>3, <2>4
<1>9. QED
  BY <1>7, <1>8

-----------------------------------------------------------------------------
(* The question of a whole hand.                                           *)

LEMMA SizedFacts ==
  ASSUME NEW kind, NEW to
  PROVE  Sized(kind, to).kind = kind /\ Sized(kind, to).to = to
BY DEF Sized

\* What the buttons must offer for a wager.
LEMMA AgreedFacts ==
  ASSUME NEW st, NEW actions, ButtonsAgree(st, actions), NEW a \in actions
  PROVE  /\ a.kind = "BET" => "BET" \in st.buttons
         /\ a.kind = "RAISE" => {"RAISE", "ALL-IN"} \cap st.buttons # {}
         /\ a.kind = "ALL-IN" /\ Facing(hand, hero) = 0 => Bets \cap st.buttons # {}
         /\ a.kind = "ALL-IN" /\ Facing(hand, hero) > 0 => {"RAISE", "ALL-IN"} \cap st.buttons # {}
<1>1. PICK none \in BOOLEAN, some \in BOOLEAN :
        (none <=> Facing(hand, hero) = 0) /\ (some <=> Facing(hand, hero) > 0)
  OBVIOUS
<1>2. /\ a.kind = "BET" => a.kind # "RAISE" /\ a.kind # "ALL-IN"
      /\ a.kind = "RAISE" => a.kind # "BET" /\ a.kind # "ALL-IN"
      /\ a.kind = "ALL-IN" => a.kind # "BET" /\ a.kind # "RAISE"
  OBVIOUS
<1>3. (CASE a.kind = "BET" -> "BET" \in st.buttons
         [] a.kind = "RAISE" -> {"RAISE", "ALL-IN"} \cap st.buttons # {}
         [] a.kind = "ALL-IN" /\ none -> Bets \cap st.buttons # {}
         [] a.kind = "ALL-IN" /\ some -> {"RAISE", "ALL-IN"} \cap st.buttons # {}
         [] OTHER -> a.kind \in st.buttons)
  BY <1>1, Zenon DEF ButtonsAgree
<1>4. ~(none /\ some)
  BY <1>1
<1>5. a.kind = "BET" => "BET" \in st.buttons
  BY <1>2, <1>3, Zenon
<1>6. a.kind = "RAISE" => {"RAISE", "ALL-IN"} \cap st.buttons # {}
  BY <1>2, <1>3, Zenon
<1>7. a.kind = "ALL-IN" /\ none => Bets \cap st.buttons # {}
  BY <1>2, <1>3, <1>4, Zenon
<1>8. a.kind = "ALL-IN" /\ some => {"RAISE", "ALL-IN"} \cap st.buttons # {}
  BY <1>2, <1>3, <1>4, Zenon
<1>9. QED
  BY <1>1, <1>5, <1>6, <1>7, <1>8

\* The buttons give the right to a wager.
LEMMA AgreedMay ==
  ASSUME SpotInv, Asked, NEW paid, NEW left, NEW top, NEW full, NEW may,
         Turn(paid, left, top, full, may), NEW st, TableState(st),
         NEW actions, ButtonsAgree(st, actions), NEW a \in actions, a.kind \in Sizes
  PROVE  may /\ (a.kind = "BET" => top = 0)
<1>1. PICK buttons : buttons = Buttons(Last(frames))
  OBVIOUS
<1>2. /\ "BET" \in buttons => may /\ top = 0
      /\ "RAISE" \in buttons => may
      /\ "ALL-IN" \in buttons => may
  BY <1>1, TurnButtons
<1>3. /\ a.kind = "BET" => "BET" \in buttons
      /\ a.kind = "RAISE" => {"RAISE", "ALL-IN"} \cap buttons # {}
      /\ a.kind = "ALL-IN" /\ Facing(hand, hero) = 0 => Bets \cap buttons # {}
      /\ a.kind = "ALL-IN" /\ Facing(hand, hero) > 0 => {"RAISE", "ALL-IN"} \cap buttons # {}
  <2>1. st.buttons = buttons
    BY <1>1 DEF TableState
  <2>2. QED
    BY <2>1, AgreedFacts
<1>4. Facing(hand, hero) = 0 \/ Facing(hand, hero) > 0
  BY DEF Turn
<1>5. QED
  BY <1>2, <1>3, <1>4 DEF Bets, Sizes

\* Hero is in the hand.
LEMMA HeroIsLive ==
  ASSUME SpotInv, Asked
  PROVE  ~hand.closed /\ hero \in Seats /\ hero \in Live(hand) /\ hero \in Eligible(hand)
<1>1. HandOK(hand, start) /\ Actor(hand) = hero /\ hero \in Seats /\ LeastRaise(hand)
  BY AskedFacts
<1>2. ~hand.closed
  BY <1>1, HeroFacts
<1>3. hero \in Eligible(hand)
  BY <1>1, <1>2, ActorFacts
<1>4. QED
  BY <1>1, <1>2, <1>3 DEF Eligible

\* What the request for a whole hand says.
LEMMA ContinuationFields ==
  ASSUME NEW st, BuildContinuationSpec(st).asked,
         NEW pair, pair = FlopPair, NEW spec, spec = BuildContinuationSpec(st)
  PROVE  /\ Cardinality(Live(flop)) = 2 /\ Live(hand) = Live(flop)
         /\ st.villain = IF hero = pair[1] THEN pair[2] ELSE pair[1]
         /\ spec.modeled = CurrentNodeActions(st.villain)
         /\ ButtonsAgree(st, CurrentNodeActions(st.villain))
         /\ spec.actor = IF hero = pair[1] THEN "OOP" ELSE "IP"
         /\ spec.pot = Total(flop.totalPaid)
         /\ spec.effective = Lesser(flop.remaining[pair[1]], flop.remaining[pair[2]])
         /\ spec.facing = Facing(hand, hero) /\ spec.path = PathFromHistory
         /\ spec.invested = [i \in 1..2 |-> flop.remaining[pair[i]] - hand.remaining[pair[i]]]
<1>1. NoSpec.asked = FALSE
  BY DEF NoSpec
<1>2. PICK villain : villain = IF hero = pair[1] THEN pair[2] ELSE pair[1]
  OBVIOUS
<1>3. PICK actions : actions = CurrentNodeActions(villain)
  OBVIOUS
<1>4. PICK refused :
        refused = (\/ Live(hand) # Live(flop)
                   \/ hero \notin ToSet(pair) \/ st.villain # villain
                   \/ st.oop # (hero = pair[1]) \/ ~ButtonsAgree(st, actions))
  OBVIOUS
<1>5. PICK turn, pot, effective, facing, walked, invested :
        /\ turn = IF hero = pair[1] THEN "OOP" ELSE "IP"
        /\ pot = Total(flop.totalPaid)
        /\ effective = Lesser(flop.remaining[pair[1]], flop.remaining[pair[2]])
        /\ facing = Facing(hand, hero) /\ walked = PathFromHistory
        /\ invested = [i \in 1..2 |-> flop.remaining[pair[i]] - hand.remaining[pair[i]]]
  OBVIOUS
<1>6. spec =
        IF pair = <<>> THEN NoSpec ELSE IF refused THEN NoSpec
        ELSE [asked |-> TRUE, street |-> hand.street, actor |-> turn, pot |-> pot,
              effective |-> effective, facing |-> facing, modeled |-> actions,
              path |-> walked, invested |-> invested]
  BY <1>2, <1>3, <1>4, <1>5, Zenon DEF BuildContinuationSpec
<1>7. pair # <<>> /\ ~refused
  BY <1>1, <1>6
<1>8. Cardinality(Live(flop)) = 2
  BY <1>7 DEF FlopPair
<1>9. Live(hand) = Live(flop) /\ st.villain = villain /\ ButtonsAgree(st, actions)
  BY <1>4, <1>7, Zenon
<1>10. /\ spec.modeled = actions /\ spec.actor = turn /\ spec.pot = pot /\ spec.effective = effective
       /\ spec.facing = facing /\ spec.path = walked /\ spec.invested = invested
  BY <1>6, <1>7
<1>11. QED
  BY <1>2, <1>3, <1>5, <1>8, <1>9, <1>10

\* The other player, in a hand of two.
LEMMA ContinuationFacts ==
  ASSUME SpotInv, Asked, hand.street > 1, NEW st, TableState(st),
         BuildContinuationSpec(st).asked
  PROVE  /\ st.villain \in Seats /\ Live(hand) \ {hero} = {st.villain}
         /\ BuildContinuationSpec(st).modeled = CurrentNodeActions(st.villain)
         /\ ButtonsAgree(st, CurrentNodeActions(st.villain))
<1>1. PICK pair, spec : pair = FlopPair /\ spec = BuildContinuationSpec(st)
  OBVIOUS
<1>2. /\ Cardinality(Live(flop)) = 2 /\ Live(hand) = Live(flop)
      /\ spec.modeled = CurrentNodeActions(st.villain)
      /\ ButtonsAgree(st, CurrentNodeActions(st.villain))
  BY <1>1, ContinuationFields
<1>3. Live(hand) \subseteq Seats /\ hero \in Live(hand)
  BY HeroIsLive DEF Live
<1>4. IsFiniteSet(Live(hand)) /\ Cardinality(Live(hand)) = 2
  BY <1>2, <1>3, SeatsFinite, FS_Subset
<1>5. IsFiniteSet(Live(hand) \ {hero}) /\ Cardinality(Live(hand) \ {hero}) = 1
  BY <1>3, <1>4, FS_RemoveElement
<1>6. PICK other : Live(hand) \ {hero} = {other}
  BY <1>5, FS_Singleton
<1>7. st.villain \in Live(hand) \ {hero}
  BY <1>5 DEF TableState
<1>8. st.villain = other /\ st.villain \in Seats
  BY <1>3, <1>6, <1>7
<1>9. QED
  BY <1>1, <1>2, <1>6, <1>8

\* Two players, nothing bet: the other has chips, or the hand would be bet out.
LEMMA OtherHasChips ==
  ASSUME SpotInv, Asked, Stakes(hand), hand.street > 1, NEW v \in Seats,
         Live(hand) \ {hero} = {v}, hand.highest = 0
  PROVE  hand.remaining[v] \in Nat \ {0}
<1>1. /\ HandOK(hand, start) /\ hand \in HandType /\ ChipsOK(hand, start) /\ hero \in Seats
      /\ Actor(hand) = hero /\ LeastRaise(hand)
  BY AskedFacts DEF HandOK
<1>2. ~hand.closed /\ hand.remaining[hero] \in Nat \ {0} /\ hand.streetPaid[hero] \in Nat
  BY <1>1, HeroFacts
<1>3. hero \in Eligible(hand)
  BY <1>1, <1>2, ActorFacts
<1>4. Eligible(hand) # {hero}
  BY <1>1, <1>2 DEF Stakes, Unsettled
<1>5. v \in Eligible(hand)
  BY <1>3, <1>4 DEF Eligible
<1>6. hand.remaining[v] \in Nat /\ hand.remaining[v] # 0
  BY <1>1, <1>5 DEF Eligible, ChipsOK, HandType
<1>7. QED
  BY <1>6

LEMMA NodeWagers ==
  ASSUME SpotInv, Asked, Stakes(hand), hand.street > 1, BetPct >= 50,
         NEW st, TableState(st), NEW v \in Seats, Live(hand) \ {hero} = {v},
         NEW actions, ButtonsAgree(st, actions), NEW a \in actions, a.kind \in Sizes,
         NEW effective, effective = Lesser(ReplayedTarget(hero), ReplayedTarget(v)),
         \/ a \in CurrentRootActions(effective)
         \/ Facing(hand, hero) > 0 /\ a \in CurrentRaise(effective)
  PROVE  Playable(a) \/ CoversVillain(a)
<1>1. PICK paid, left, top, full, may : Turn(paid, left, top, full, may)
  BY TurnInNumbers
<1>2. may /\ (a.kind = "BET" => top = 0)
  BY <1>1, AgreedMay
<1>3. /\ paid \in Nat /\ left \in Nat \ {0} /\ top \in Nat /\ full \in Nat /\ may \in BOOLEAN
      /\ hand.highest = top /\ hand.lastFullRaise = full /\ ReplayedTarget(hero) = paid + left
      /\ paid <= top /\ Facing(hand, hero) = top - paid
      /\ MaxTarget(hand, hero) = paid + left
  BY <1>1 DEF Turn
<1>4. BigBlind \in Nat \ {0} /\ BigBlind <= full
  BY <1>3, ReplayAssumption DEF Stakes
<1>5. hand \in HandType
  BY AskedFacts DEF HandOK
<1>6. PICK behind \in Nat, bet \in Nat : behind = hand.remaining[v] /\ bet = hand.streetPaid[v]
  BY <1>5 DEF HandType
<1>7. effective = Lesser(paid + left, behind + bet) /\ Covered(effective, v)
  BY <1>3, <1>6 DEF ReplayedTarget, Covered
<1>8. effective \in Nat /\ effective <= paid + left
  BY <1>3, <1>6, <1>7 DEF Lesser
<1>9. v \in Live(hand) \ {hero}
  OBVIOUS
<1>10. CASE a.to = effective
  BY <1>1, <1>2, <1>7, <1>8, <1>9, <1>10, WagerIsPlayable
<1>11. CASE a.to # effective /\ a \in CurrentRootActions(effective)
  <2>1. PICK pot \in Nat : pot = Total(hand.totalPaid) /\ pot >= 2 * BigBlind
    BY <1>5, PotOfTwo DEF Stakes
  <2>2. PICK sized \in Nat : sized = HalfUp(Total(hand.totalPaid) * BetPct, 100) /\ sized >= BigBlind
    BY <2>1, BetIsBlind
  <2>3. PICK wanted \in Nat :
          /\ wanted = Greater(1, Lesser(HalfUp(Total(hand.totalPaid) * BetPct, 100), effective))
          /\ wanted = Greater(1, Lesser(sized, effective))
    BY <1>8, <2>2 DEF Greater, Lesser
  <2>4. CurrentRootActions(effective) =
          {Unsized("CHECK"), Sized(IF wanted = effective THEN "ALL-IN" ELSE "BET", wanted)}
    BY <2>3 DEF CurrentRootActions
  <2>5. a # Unsized("CHECK")
    BY DEF Unsized, Sizes
  <2>6. a.kind = (IF wanted = effective THEN "ALL-IN" ELSE "BET") /\ a.to = wanted
    BY <1>11, <2>4, <2>5, SizedFacts
  <2>7. a.kind = "BET" /\ wanted # effective
    BY <1>11, <2>6
  <2>8. top = 0
    BY <1>2, <2>7
  <2>9. behind > 0
    BY <1>3, <1>6, <2>8, OtherHasChips
  <2>10. effective >= 1
    BY <1>3, <1>6, <1>7, <2>9 DEF Lesser
  <2>11. wanted < effective /\ wanted >= BigBlind
    BY <1>4, <1>8, <2>2, <2>3, <2>7, <2>10 DEF Greater, Lesser
  <2>12. wanted < paid + left
    BY <1>3, <1>8, <2>11
  <2>13. /\ top = 0 => wanted >= BigBlind
         /\ top > 0 => wanted - top >= full /\ wanted > top
    BY <2>8, <2>11
  <2>14. QED
    BY <1>1, <1>2, <1>9, <2>6, <2>12, <2>13, WagerIsPlayable
<1>12. CASE a.to # effective /\ Facing(hand, hero) > 0 /\ a \in CurrentRaise(effective)
  <2>1. PICK least : least = IF MinimumRaiseTo(hand) = NoAmount THEN effective ELSE MinimumRaiseTo(hand)
    OBVIOUS
  <2>2. PICK to : to = Lesser(effective, Greater(least, HalfUp(hand.highest * 5, 2)))
    OBVIOUS
  <2>3. a = Sized(IF to = effective THEN "ALL-IN" ELSE "RAISE", to)
    BY <1>12, <2>1, <2>2 DEF CurrentRaise
  <2>4. a.to = to
    BY <2>3, SizedFacts
  <2>5. top > 0
    BY <1>3, <1>12
  <2>6. PICK double \in Nat : double = HalfUp(hand.highest * 5, 2)
    BY <1>3, RaiseIsDouble
  <2>7. MinimumRaiseTo(hand) = NoAmount \/ MinimumRaiseTo(hand) = top + full
    <3>1. PICK candidate : candidate = top + full
      OBVIOUS
    <3>2. candidate = IF hand.highest = 0 THEN BigBlind ELSE hand.highest + hand.lastFullRaise
      BY <1>3, <2>5, <3>1
    <3>3. MinimumRaiseTo(hand) \in {NoAmount, candidate}
      BY <3>2 DEF MinimumRaiseTo
    <3>4. QED
      BY <3>1, <3>3
  <2>8. least = effective \/ least = top + full
    BY <2>1, <2>7
  <2>9. to \in Nat /\ to < effective /\ to >= top + full
    <3>1. to = Lesser(effective, Greater(least, double)) /\ to # effective
      BY <1>12, <2>2, <2>4, <2>6
    <3>2. QED
      BY <1>3, <1>8, <2>8, <3>1 DEF Greater, Lesser
  <2>10. to < paid + left
    BY <1>3, <1>8, <2>9
  <2>11. /\ top = 0 => to >= BigBlind
         /\ top > 0 => to - top >= full /\ to > top
    BY <1>3, <1>4, <2>5, <2>9
  <2>12. QED
    BY <1>1, <1>2, <1>9, <2>4, <2>9, <2>10, <2>11, WagerIsPlayable
<1>13. QED
  BY <1>10, <1>11, <1>12

LEMMA HandActions ==
  ASSUME SpotInv, Asked, Stakes(hand), hand.street > 1, BetPct >= 50,
         NEW mode, NEW st, TableState(st), HandSpec(st, mode).asked,
         NEW a \in HandSpec(st, mode).modeled
  PROVE  Playable(a) \/ CoversVillain(a)
<1>1. NoSpec.asked = FALSE
  BY DEF NoSpec
<1>2. BuildContinuationSpec(st).asked /\ HandSpec(st, mode) = BuildContinuationSpec(st)
  BY <1>1 DEF HandSpec
<1>3. PICK v \in Seats : v = st.villain /\ Live(hand) \ {hero} = {v}
  BY <1>2, ContinuationFacts
<1>4. PICK actions : actions = CurrentNodeActions(v)
  OBVIOUS
<1>5. a \in actions /\ ButtonsAgree(st, actions)
  BY <1>2, <1>3, <1>4, ContinuationFacts
<1>6. PICK effective : effective = Lesser(ReplayedTarget(hero), ReplayedTarget(v))
  OBVIOUS
<1>7. actions = IF Facing(hand, hero) = 0 THEN CurrentRootActions(effective)
                ELSE {Unsized("FOLD"), Unsized("CALL")} \cup CurrentRaise(effective)
  BY <1>4, <1>6 DEF CurrentNodeActions
<1>8. PICK paid, left, top, full, may : Turn(paid, left, top, full, may)
  BY TurnInNumbers
<1>9. /\ Facing(hand, hero) = 0 => top = paid
      /\ Facing(hand, hero) # 0 => top > paid /\ Facing(hand, hero) > 0
  BY <1>8 DEF Turn
<1>10. CASE Facing(hand, hero) = 0
  <2>1. a \in CurrentRootActions(effective)
    BY <1>5, <1>7, <1>10
  <2>2. a = Unsized("CHECK") \/ a.kind \in Sizes
    BY <2>1 DEF CurrentRootActions, Sized, Sizes
  <2>3. CASE a = Unsized("CHECK")
    BY <1>8, <1>9, <1>10, <2>3, PassiveIsPlayable
  <2>4. CASE a.kind \in Sizes
    BY <1>3, <1>5, <1>6, <2>1, <2>4, NodeWagers
  <2>5. QED
    BY <2>2, <2>3, <2>4
<1>11. CASE Facing(hand, hero) # 0
  <2>1. a \in {Unsized("FOLD"), Unsized("CALL")} \/ a \in CurrentRaise(effective)
    BY <1>5, <1>7, <1>11
  <2>2. top > paid /\ Facing(hand, hero) > 0
    BY <1>9, <1>11
  <2>3. CASE a \in {Unsized("FOLD"), Unsized("CALL")}
    BY <1>8, <2>2, <2>3, PassiveIsPlayable
  <2>4. CASE a \in CurrentRaise(effective)
    <3>1. a.kind \in Sizes
      BY <2>4 DEF CurrentRaise, Sized, Sizes
    <3>2. QED
      BY <1>3, <1>5, <1>6, <2>2, <2>4, <3>1, NodeWagers
  <2>5. QED
    BY <2>1, <2>3, <2>4
<1>12. QED
  BY <1>10, <1>11

LEMMA ModeledFacts ==
  ASSUME SpotInv, StakesInv, BetPct >= 50, Asked, NEW mode
  PROVE  ModeledActionsArePlayable(mode)
<1>1. SUFFICES ASSUME hand.street > 1, NEW q \in Questions(mode), NEW a \in q.spec.modeled
               PROVE  Playable(a) \/ CoversVillain(a)
  BY DEF ModeledActionsArePlayable
<1>2. Stakes(hand)
  BY DEF StakesInv
<1>3. \/ q.spec = StreetSpec(StateFor(mode), mode)
      \/ q.spec = HandSpec(LiveState(frames), mode)
  BY DEF Questions
<1>4. q.spec.asked
  BY DEF Questions
<1>5. CASE q.spec = StreetSpec(StateFor(mode), mode)
  BY <1>1, <1>2, <1>4, <1>5, StateForFacts, StreetActions
<1>6. CASE q.spec = HandSpec(LiveState(frames), mode)
  BY <1>1, <1>2, <1>4, <1>6, LiveStateFacts, HandActions
<1>7. QED
  BY <1>3, <1>5, <1>6

(* Every action the solver is asked about after the flop, on a street or   *)
(* for the whole hand, is one the table accepts, or puts in all that the   *)
(* other player has; where the stacks exceed the big blind and the bet it  *)
(* is offered is half the pot at least.                                    *)
THEOREM SpotModeledActionsArePlayable ==
  ASSUME BetPct >= 50, \A stacks \in Starts : DeepStacks(stacks)
  PROVE  SpotSpec => [](Asked => \A mode \in Modes : ModeledActionsArePlayable(mode))
<1>1. SpotInv /\ StakesInv => (Asked => \A mode \in Modes : ModeledActionsArePlayable(mode))
  BY ModeledFacts
<1>2. QED
  BY <1>1, StakesInvariant, PTL

(* Fourth part: the policy before the flop.                                 *)
-----------------------------------------------------------------------------
(* The states of the tree: nobody has put in more than the highest bet,    *)
(* and that bet and the last full raise are a big blind at least.          *)
BetsOK(s) ==
  /\ s \in RoundType /\ IsInjective(s.pending)
  /\ \A p \in Seats : s.paid[p] <= s.highest
  /\ BigBlind <= s.highest /\ BigBlind <= s.lastFullRaise

LEMMA NothingPending == <<>> \in Seq(Seats) /\ IsInjective(<<>>)
<1>1. <<>> \in Seq(Seats)
  OBVIOUS
<1>2. IsInjective(<<>>)
  BY DEF IsInjective
<1>3. QED
  BY <1>1, <1>2

LEMMA AfterActionKeeps ==
  ASSUME NEW s, BetsOK(s)
  PROVE  BetsOK(AfterAction(s))
<1>1. s \in RoundType /\ s.pending \in Seq(Seats) /\ IsInjective(s.pending)
  BY DEF BetsOK, RoundType
<1>2. PICK wanted : wanted = LiveSeats(s) \ s.allIn
  OBVIOUS
<1>3. KeptRight(Kept(s.pending, wanted), s.pending, wanted, Len(s.pending))
  BY <1>1, KeptFacts
<1>4. PICK kept \in Seq(Seats) : kept = Kept(s.pending, wanted) /\ IsInjective(kept)
  BY <1>3 DEF KeptRight
<1>5. \/ AfterAction(s) = [s EXCEPT !.pending = <<>>, !.terminal = TRUE]
      \/ AfterAction(s) = [s EXCEPT !.pending = kept, !.terminal = (kept = <<>>)]
  BY <1>2, <1>4, Zenon DEF AfterAction
<1>6. ASSUME NEW q \in Seq(Seats), IsInjective(q), NEW c \in BOOLEAN,
             NEW r, r = [s EXCEPT !.pending = q, !.terminal = c]
      PROVE  BetsOK(r)
  <2>1. /\ r \in RoundType /\ r.pending = q /\ r.paid = s.paid
        /\ r.highest = s.highest /\ r.lastFullRaise = s.lastFullRaise
    BY <1>1, <1>6 DEF RoundType
  <2>2. QED
    BY <1>6, <2>1 DEF BetsOK
<1>7. (kept = <<>>) \in BOOLEAN
  OBVIOUS
<1>8. QED
  BY <1>4, <1>5, <1>6, <1>7, NothingPending

LEMMA PassedKeeps ==
  ASSUME NEW s, BetsOK(s), s.pending # <<>>
  PROVE  BetsOK(AfterAction(Passed(s)))
<1>1. s \in RoundType /\ s.pending \in Seq(Seats) /\ IsInjective(s.pending)
  BY DEF BetsOK, RoundType
<1>2. PICK tail \in Seq(Seats) : tail = Tail(s.pending) /\ IsInjective(tail)
  BY <1>1, TailFacts
<1>3. PICK r : r = Passed(s)
  OBVIOUS
<1>4. r = [s EXCEPT !.pending = tail]
  BY <1>2, <1>3 DEF Passed
<1>5. /\ r \in RoundType /\ r.pending = tail /\ r.paid = s.paid
      /\ r.highest = s.highest /\ r.lastFullRaise = s.lastFullRaise
  BY <1>1, <1>4 DEF RoundType
<1>6. BetsOK(r)
  BY <1>2, <1>5 DEF BetsOK
<1>7. QED
  BY <1>3, <1>6, AfterActionKeeps

LEMMA FoldedKeeps ==
  ASSUME NEW s, BetsOK(s), NEW seat \in Seats
  PROVE  BetsOK(FoldedRound(s, seat)) /\ FoldedRound(s, seat).pending = s.pending
<1>1. s \in RoundType
  BY DEF BetsOK
<1>2. PICK folded \in SUBSET Seats : folded = s.folded \cup {seat}
  BY <1>1 DEF RoundType
<1>3. PICK r : r = FoldedRound(s, seat)
  OBVIOUS
<1>4. r = [s EXCEPT !.folded = folded]
  BY <1>2, <1>3 DEF FoldedRound
<1>5. /\ r \in RoundType /\ r.pending = s.pending /\ r.paid = s.paid
      /\ r.highest = s.highest /\ r.lastFullRaise = s.lastFullRaise
  BY <1>1, <1>4 DEF RoundType
<1>6. QED
  BY <1>3, <1>5 DEF BetsOK

LEMMA PaidKeeps ==
  ASSUME NEW s, BetsOK(s), NEW seat \in Seats, NEW to \in Nat, to <= s.highest,
         NEW jam \in BOOLEAN
  PROVE  BetsOK(PaidRound(s, seat, to, jam)) /\ PaidRound(s, seat, to, jam).pending = s.pending
<1>1. s \in RoundType /\ s.paid \in [Seats -> Nat] /\ \A p \in Seats : s.paid[p] <= s.highest
  BY DEF BetsOK, RoundType
<1>2. PICK paid : paid = [s.paid EXCEPT ![seat] = to]
  OBVIOUS
<1>3. paid \in [Seats -> Nat] /\ \A p \in Seats : paid[p] <= s.highest
  BY <1>1, <1>2
<1>4. PICK allIn \in SUBSET Seats : allIn = IF jam THEN s.allIn \cup {seat} ELSE s.allIn
  BY <1>1 DEF RoundType
<1>5. PICK r : r = PaidRound(s, seat, to, jam)
  OBVIOUS
<1>6. r = [s EXCEPT !.paid = paid, !.allIn = allIn]
  BY <1>2, <1>4, <1>5 DEF PaidRound
<1>7. /\ r \in RoundType /\ r.pending = s.pending /\ r.paid = paid
      /\ r.highest = s.highest /\ r.lastFullRaise = s.lastFullRaise
  BY <1>1, <1>3, <1>6 DEF RoundType
<1>8. QED
  BY <1>3, <1>5, <1>7 DEF BetsOK

LEMMA RaisedKeeps ==
  ASSUME NEW s, BetsOK(s), NEW seat \in Seats, ActorOf(s) = seat, NEW target \in Nat,
         target > s.highest, NEW allIn \in BOOLEAN
  PROVE  BetsOK(AfterAction(RaisedTo(s, target, allIn)))
<1>1. s \in RoundType /\ s.paid \in [Seats -> Nat] /\ \A p \in Seats : s.paid[p] <= s.highest
  BY DEF BetsOK, RoundType
<1>2. PICK jammed \in SUBSET Seats : jammed = IF allIn THEN s.allIn \cup {seat} ELSE s.allIn
  BY <1>1 DEF RoundType
<1>3. PICK size \in Nat \ {0} : size = target - s.highest
  BY <1>1 DEF RoundType
<1>4. PICK paid : paid = [s.paid EXCEPT ![seat] = target]
  OBVIOUS
<1>5. paid \in [Seats -> Nat]
  BY <1>1, <1>4
<1>6. s.highest \in Nat /\ s.lastFullRaise \in Nat \ {0} /\ BigBlind \in Nat
  BY <1>1, ReplayAssumption DEF RoundType
<1>7. \A p \in Seats : paid[p] <= target
  BY <1>1, <1>4, <1>6
<1>8. PICK full \in Nat \ {0} : full = IF size >= s.lastFullRaise THEN size ELSE s.lastFullRaise
  BY <1>3, <1>6
<1>9. BigBlind <= full /\ BigBlind <= target
  <2>1. BigBlind <= s.highest /\ BigBlind <= s.lastFullRaise
    BY DEF BetsOK
  <2>2. QED
    BY <1>3, <1>6, <1>8, <2>1
<1>10. PICK q : q = OrderedAfter(seat, Seats \ (s.folded \cup jammed \cup {seat}))
  OBVIOUS
<1>11. q \in Seq(Seats) /\ IsInjective(q)
  BY <1>10, OrderedAfterFacts
<1>12. PICK r : r = [s EXCEPT !.paid = paid, !.highest = target, !.lastFullRaise = full,
                              !.allIn = jammed, !.pending = q]
  OBVIOUS
<1>13. /\ r \in RoundType /\ r.paid = paid /\ r.highest = target
       /\ r.lastFullRaise = full /\ r.pending = q
  BY <1>1, <1>5, <1>11, <1>12 DEF RoundType
<1>14. RaisedTo(s, target, allIn) = r
  BY <1>2, <1>3, <1>4, <1>8, <1>10, <1>12 DEF RaisedTo
<1>15. BetsOK(r)
  BY <1>7, <1>9, <1>11, <1>13 DEF BetsOK
<1>16. QED
  BY <1>14, <1>15, AfterActionKeeps

LEMMA ApplyKeeps ==
  ASSUME NEW s, BetsOK(s), NEW stack \in Nat, NEW label \in Labels, Legal(s, stack, label)
  PROVE  BetsOK(Apply(s, stack, label))
<1>1. /\ s \in RoundType /\ s.pending \in Seq(Seats) /\ s.highest \in Nat
      /\ s.paid \in [Seats -> Nat]
  BY DEF BetsOK, RoundType
<1>2. PICK seat : seat = ActorOf(s)
  OBVIOUS
<1>3. /\ seat # NoSeat
      /\ label = Raise => LegalTarget(s, stack, RaiseTarget(s), FALSE)
      /\ label = AllIn => stack > s.paid[seat]
  BY <1>2, LegalFacts
<1>4. s.pending # <<>> /\ seat \in Seats
  <2>1. s.pending # <<>> /\ seat = Head(s.pending)
    BY <1>2, <1>3 DEF ActorOf
  <2>2. QED
    BY <1>1, <2>1
<1>5. PICK jam \in BOOLEAN : jam <=> s.paid[seat] < s.highest /\ s.highest = stack
  OBVIOUS
<1>6. PICK low \in BOOLEAN : (low <=> stack <= s.highest) /\ (~low <=> stack > s.highest)
  <2>1. stack \in Int /\ s.highest \in Int
    BY <1>1
  <2>2. QED
    BY <2>1, LowOrHigh
<1>7. ApplyForms(s, stack, seat, jam, low)
  BY <1>2, <1>5, <1>6, ApplyCases
<1>8. \A to \in Nat, all \in BOOLEAN :
        to <= s.highest => BetsOK(AfterAction(Passed(PaidRound(s, seat, to, all))))
  <2>1. ASSUME NEW to \in Nat, NEW all \in BOOLEAN, to <= s.highest
        PROVE  BetsOK(AfterAction(Passed(PaidRound(s, seat, to, all))))
    <3>1. PICK r : r = PaidRound(s, seat, to, all)
      OBVIOUS
    <3>2. BetsOK(r) /\ r.pending # <<>>
      BY <1>4, <2>1, <3>1, PaidKeeps
    <3>3. QED
      BY <3>1, <3>2, PassedKeeps
  <2>2. QED
    BY <2>1
<1>9. CASE label = FoldLabel
  <2>1. PICK r : r = FoldedRound(s, seat)
    OBVIOUS
  <2>2. BetsOK(r) /\ r.pending # <<>>
    BY <1>4, <2>1, FoldedKeeps
  <2>3. Apply(s, stack, FoldLabel) = AfterAction(Passed(r))
    BY <1>7, <2>1 DEF ApplyForms
  <2>4. QED
    BY <1>9, <2>2, <2>3, PassedKeeps
<1>10. CASE label = Call
  <2>1. Apply(s, stack, Call) = AfterAction(Passed(PaidRound(s, seat, s.highest, jam)))
    BY <1>7 DEF ApplyForms
  <2>2. s.highest <= s.highest
    BY <1>1
  <2>3. QED
    BY <1>1, <1>8, <1>10, <2>1, <2>2
<1>11. CASE label = Raise
  <2>1. PICK target : target = RaiseTarget(s)
    OBVIOUS
  <2>2. target \in Int
    BY <1>1, <1>2, <1>4, <2>1, RaiseTargetType
  <2>3. target > s.highest
    BY <1>3, <1>11, <2>1 DEF LegalTarget
  <2>4. target \in Nat
    BY <1>1, <2>2, <2>3
  <2>5. BetsOK(AfterAction(RaisedTo(s, target, FALSE)))
    BY <1>2, <1>4, <2>3, <2>4, RaisedKeeps
  <2>6. Apply(s, stack, Raise) = AfterAction(RaisedTo(s, target, FALSE))
    BY <1>7, <2>1 DEF ApplyForms
  <2>7. QED
    BY <1>11, <2>5, <2>6
<1>12. CASE label = AllIn
  <2>1. CASE low
    <3>1. Apply(s, stack, AllIn) = AfterAction(Passed(PaidRound(s, seat, stack, TRUE)))
      BY <1>7, <2>1 DEF ApplyForms
    <3>2. QED
      BY <1>6, <1>8, <1>12, <2>1, <3>1
  <2>2. CASE ~low
    <3>1. Apply(s, stack, AllIn) = AfterAction(RaisedTo(s, stack, TRUE))
      BY <1>7, <2>2 DEF ApplyForms
    <3>2. stack > s.highest
      BY <1>6, <2>2
    <3>3. BetsOK(AfterAction(RaisedTo(s, stack, TRUE)))
      BY <1>2, <1>4, <3>2, RaisedKeeps
    <3>4. QED
      BY <1>12, <3>1, <3>3
  <2>3. QED
    BY <2>1, <2>2
<1>13. QED
  BY <1>9, <1>10, <1>11, <1>12 DEF Labels

LEMMA PostedBets == BetsOK(Posted)
<1>1. Posted \in RoundType
  BY PostedType
<1>2. /\ SmallBlind \in Nat /\ BigBlind \in Nat /\ SmallBlind <= BigBlind
      /\ SmallBlindSeat(0) \in Seats /\ BigBlindSeat(0) \in Seats
  BY ReplayAssumption, BlindSeats
<1>3. PICK paid : paid = [Zero EXCEPT ![SmallBlindSeat(0)] = SmallBlind,
                                      ![BigBlindSeat(0)] = BigBlind]
  OBVIOUS
<1>4. \A p \in Seats : paid[p] <= BigBlind
  BY <1>2, <1>3 DEF Zero
<1>5. /\ Posted.paid = paid /\ Posted.highest = BigBlind /\ Posted.lastFullRaise = BigBlind
      /\ Posted.pending = PreflopOrder
  BY <1>3 DEF Posted
<1>6. IsInjective(PreflopOrder)
  <2>1. Seats \in SUBSET Seats
    OBVIOUS
  <2>2. QED
    BY <1>2, <2>1, OrderedAfterFacts DEF PreflopOrder
<1>7. QED
  BY <1>1, <1>2, <1>4, <1>5, <1>6 DEF BetsOK

\* ... and the lines.
LEMMA LinesBet ==
  ASSUME NEW l \in Lines
  PROVE  BetsOK(l.state) /\ l.stack \in Buckets
<1> DEFINE Right(x) == BetsOK(x.state) /\ x.stack \in Buckets
<1>0. MaxLine \in Nat
  BY BlueprintAssumption
<1>1. PICK f : /\ Lines = UNION {f[n] : n \in 0..MaxLine} /\ f[0] = Roots
               /\ \A n \in 1..MaxLine : f[n] = Longer(f[n - 1])
  BY LevelsFacts
<1> DEFINE B == {n \in 0..MaxLine : \E x \in f[n] : ~Right(x)}
<1>2. SUFFICES ASSUME B # {} PROVE FALSE
  BY <1>1
<1>3. PICK k \in B : \A n \in B : k <= n
  <2> HIDE DEF B
  <2>1. B \subseteq Nat
    BY <1>0 DEF B
  <2>2. QED
    BY <1>2, <2>1, LeastNumber
<1>4. k \in 0..MaxLine /\ \E x \in f[k] : ~Right(x)
  BY <1>3
<1>5. PICK x \in f[k] : ~Right(x)
  BY <1>4
<1>6. CASE k = 0
  <2>1. PICK stack \in Buckets : x = Root(stack)
    BY <1>1, <1>5, <1>6 DEF Roots
  <2>2. x.stack = stack /\ x.state = Posted
    BY <2>1 DEF Root
  <2>3. QED
    BY <1>5, <2>1, <2>2, PostedBets
<1>7. CASE k # 0
  <2>1. k \in 1..MaxLine /\ k - 1 \in 0..MaxLine /\ ~(k <= k - 1)
    BY <1>0, <1>4, <1>7
  <2>2. x \in Longer(f[k - 1])
    BY <1>1, <1>5, <2>1
  <2>3. PICK shorter \in f[k - 1] :
          \E label \in Menu(shorter.state, shorter.stack) : x = Extended(shorter, label)
    BY <2>2 DEF Longer
  <2>4. Right(shorter)
    BY <1>3, <2>1, <2>3
  <2>5. PICK label \in Menu(shorter.state, shorter.stack) : x = Extended(shorter, label)
    BY <2>3
  <2>6. label \in Labels /\ Legal(shorter.state, shorter.stack, label)
    BY <2>5 DEF Menu
  <2>7. x.stack = shorter.stack /\ x.state = Apply(shorter.state, shorter.stack, label)
    BY <2>5, ExtendedFacts
  <2>8. shorter.stack \in Nat
    BY <2>4, BlueprintAssumption
  <2>9. BetsOK(x.state)
    BY <2>4, <2>6, <2>7, <2>8, ApplyKeeps
  <2>10. QED
    BY <1>5, <2>4, <2>7, <2>9
<1>8. QED
  BY <1>6, <1>7

-----------------------------------------------------------------------------
(* The hand before the flop: only who posted the big blind may raise when  *)
(* nobody has raised that.                                                 *)
FreeOption(h) ==
  h.street = 1 =>
    \A s \in Seats : s \notin h.acted /\ h.streetPaid[s] = h.highest => h.highest <= BigBlind

LEMMA OptionAct ==
  ASSUME NEW stacks, NEW h, HandOK(h, stacks), FreeOption(h), NEW e, NEW g, Acts(h, e, g)
  PROVE  FreeOption(g)
<1>1. Reopens(h, e, g)
  BY ActReopens
<1>2. /\ Effect(h, e, g) /\ e.seat \in Seats /\ h \in HandType /\ g \in HandType
      /\ \A s \in Seats : /\ h.streetPaid[s] \in Nat /\ h.streetPaid[s] <= h.highest
                          /\ g.streetPaid[s] \in Nat
      /\ h.highest \in Nat /\ g.highest \in Nat
  BY ActFacts
<1>3. g.street = h.street /\ \A s \in Seats : s # e.seat => g.streetPaid[s] = h.streetPaid[s]
  BY <1>2 DEF Effect
<1>4. ASSUME g.street = 1, NEW s \in Seats, s \notin g.acted, g.streetPaid[s] = g.highest
      PROVE  g.highest <= BigBlind
  <2>1. s # e.seat /\ g.streetPaid[s] = h.streetPaid[s]
    BY <1>1, <1>3, <1>4 DEF Reopens
  <2>2. g.highest <= h.highest
    BY <1>2, <1>4, <2>1
  <2>3. g.acted = h.acted \cup {e.seat} /\ g.highest >= h.highest
    BY <1>1, <1>2, <2>2 DEF Reopens
  <2>4. g.highest = h.highest
    BY <1>2, <2>2, <2>3
  <2>5. s \notin h.acted /\ h.streetPaid[s] = h.highest /\ h.street = 1
    BY <1>3, <1>4, <2>1, <2>3, <2>4
  <2>6. QED
    BY <2>4, <2>5 DEF FreeOption
<1>5. QED
  BY <1>4 DEF FreeOption

LEMMA OptionDeal ==
  ASSUME NEW stacks, NEW h, HandOK(h, stacks), NEW g, Deals(h, g)
  PROVE  FreeOption(g)
<1>1. g.street = h.street + 1 /\ h.street \in 1..4
  BY StreetFacts DEF HandOK, HandType
<1>2. g.street # 1
  BY <1>1
<1>3. QED
  BY <1>2 DEF FreeOption

OptionInv == StakesInv /\ FreeOption(hand)

LEMMA OptionInit ==
  ASSUME \A stacks \in Starts : DeepStacks(stacks), SpotInit
  PROVE  FreeOption(hand)
<1>1. /\ start \in [Seats -> Nat \ {0}] /\ DeepStacks(start) /\ hand = Dealt(Button, start, 0)
  BY SpotAssumption DEF SpotInit
<1>2. View(hand) = Posted
  BY <1>1, DealtView DEF DeepStacks
<1>3. hand.highest = BigBlind
  <2>1. View(hand).highest = hand.highest
    BY DEF View
  <2>2. Posted.highest = BigBlind
    BY DEF Posted
  <2>3. QED
    BY <1>2, <2>1, <2>2
<1>4. BigBlind <= BigBlind
  BY ReplayAssumption
<1>5. QED
  BY <1>3, <1>4 DEF FreeOption

LEMMA OptionStep ==
  ASSUME SpotInv, OptionInv, [SpotNext]_spotVars
  PROVE  OptionInv'
<1>1. HandOK(hand, start) /\ FreeOption(hand) /\ StakesInv
  BY DEF SpotInv, HandSeen, OptionInv
<1>2. StakesInv'
  BY <1>1, StakesStep
<1>3. ASSUME NEW reading \in Readings, TakeFrame(reading) PROVE FreeOption(hand)'
  BY <1>1, <1>3 DEF TakeFrame, FreeOption
<1>4. ASSUME NEW event \in Events(hand), PlayEvent(event) PROVE FreeOption(hand)'
  <2>1. PICK g : g = Applied(hand, event)
    OBVIOUS
  <2>2. Acts(hand, event, g)
    BY <1>1, <2>1, EventsFacts
  <2>3. FreeOption(g)
    BY <1>1, <2>2, OptionAct
  <2>4. hand' = g
    BY <1>4, <2>1 DEF PlayEvent
  <2>5. QED
    BY <2>3, <2>4 DEF FreeOption
<1>5. CASE DealNextStreet
  <2>1. PICK g : g = AppliedDeal(hand, Button)
    OBVIOUS
  <2>2. Deals(hand, g) /\ hand' = g
    BY <1>5, <2>1 DEF DealNextStreet, Deals
  <2>3. FreeOption(g)
    BY <1>1, <2>2, OptionDeal
  <2>4. QED
    BY <1>2, <2>2, <2>3 DEF FreeOption, OptionInv
<1>6. CASE UNCHANGED spotVars
  BY <1>1, <1>2, <1>6 DEF spotVars, FreeOption, OptionInv
<1>7. QED
  BY <1>2, <1>3, <1>4, <1>5, <1>6 DEF SpotNext, OptionInv

LEMMA OptionInvariant ==
  ASSUME \A stacks \in Starts : DeepStacks(stacks)
  PROVE  SpotSpec => [](SpotInv /\ OptionInv)
<1>1. SpotInit => SpotInv /\ OptionInv
  BY SpotInitKeeps, StakesInit, OptionInit DEF OptionInv
<1>2. (SpotInv /\ OptionInv) /\ [SpotNext]_spotVars => (SpotInv /\ OptionInv)'
  BY SpotStepKeeps, OptionStep
<1>3. QED
  BY <1>1, <1>2, PTL DEF SpotSpec

-----------------------------------------------------------------------------
(* The raise of a line that is near enough to the hand is a full raise of  *)
(* the hand.                                                               *)

\* The blueprint's raise doubles the bet even where the bet was matched from
\* below, as far as sizes may differ.
RaisesEnough ==
  SizeTolerancePct <= 100 /\ (100 - SizeTolerancePct) * (100 + 2 * RaisePct) >= 20000

\* A bet of the line, where the hand has `top'.
LEMMA NearBet ==
  ASSUME NEW a \in Nat, NEW top \in Nat, NEW tolerance \in Nat,
         SizeTolerancePct <= 100, Near(a, top, tolerance),
         tolerance < 100 \/ tolerance <= top * SizeTolerancePct
  PROVE  100 * a >= top * (100 - SizeTolerancePct)
<1>1. PICK t \in 0..100 : t = SizeTolerancePct
  BY RouterAssumption
<1>2. top * t \in Nat /\ top * (100 - t) = 100 * top - top * t
  BY <1>1
<1>3. 100 * (IF a < top THEN top - a ELSE a - top) <= tolerance
  BY DEF Near
<1>4. CASE tolerance < 100
  <2>1. a = top
    BY <1>3, <1>4
  <2>2. QED
    BY <1>1, <1>2, <2>1
<1>5. CASE tolerance <= top * t
  <2>1. PICK m \in Nat : m = top * t
    BY <1>2
  <2>2. 100 * a >= 100 * top - m
    BY <1>3, <1>5, <2>1
  <2>3. QED
    BY <1>1, <1>2, <2>1, <2>2
<1>6. QED
  BY <1>1, <1>4, <1>5

LEMMA DoubledBet ==
  ASSUME RaisesEnough, NEW a \in Nat, NEW top \in Nat,
         100 * a >= top * (100 - SizeTolerancePct), NEW pot \in Nat, pot >= 2 * a
  PROVE  a + (pot * RaisePct) \div 100 >= 2 * top
<1>1. PICK r \in Nat : r = RaisePct
  BY BlueprintAssumption
<1>2. PICK u \in Nat : u = 100 - SizeTolerancePct
  BY RouterAssumption DEF RaisesEnough
<1>3. PICK w \in Nat : w = 100 + 2 * r
  BY <1>1
<1>4. u * w >= 20000
  BY <1>1, <1>2, <1>3 DEF RaisesEnough
<1>5. 100 * a >= top * u
  BY <1>2
<1>6. (100 * a) * w >= (top * u) * w
  BY <1>3, <1>5, <1>2
<1>7. (top * u) * w = top * (u * w)
  BY <1>2, <1>3
<1>8. top * (u * w) >= top * 20000
  <2>1. PICK k \in Nat : k = u * w
    BY <1>2, <1>3
  <2>2. k >= 20000
    BY <1>4, <2>1
  <2>3. top * k >= top * 20000
    BY <2>2
  <2>4. QED
    BY <2>1, <2>3
<1>9. PICK x \in Nat : x = a * w
  BY <1>3
<1>10. (100 * a) * w = 100 * x
  BY <1>3, <1>9
<1>11. x >= 200 * top
  <2>1. 100 * x >= top * 20000
    <3>1. PICK y, z : y = (top * u) * w /\ z = top * (u * w) /\ y \in Nat /\ z \in Nat
      BY <1>2, <1>3
    <3>2. 100 * x >= y /\ y = z /\ z >= top * 20000
      BY <1>6, <1>7, <1>8, <1>10, <3>1
    <3>3. QED
      BY <3>1, <3>2
  <2>2. QED
    BY <2>1
<1>12. PICK b \in Nat : b = a * r
  BY <1>1
<1>13. x = 100 * a + 2 * b
  BY <1>1, <1>3, <1>9, <1>12
<1>14. PICK c \in Nat : c = pot * r
  BY <1>1
<1>15. c >= 2 * b
  <2>1. pot * r >= (2 * a) * r
    BY <1>1
  <2>2. (2 * a) * r = 2 * b
    BY <1>1, <1>12
  <2>3. QED
    BY <1>14, <2>1, <2>2
<1>16. a + c \div 100 >= 2 * top
  BY <1>11, <1>13, <1>15
<1>17. QED
  BY <1>1, <1>14, <1>16

\* The line found before the flop is at a decision of Hero's, with bets near
\* those of the table.
LEMMA FoundIsNear ==
  ASSUME SpotInv, Asked, hand.street = 1, NEW mode,
         NEW found, found = Resolve(PreflopState(frames), mode), found # NoLine
  PROVE  /\ BetsOK(found.state) /\ found.stack \in Nat /\ ActorOf(found.state) = hero
         /\ PreflopState(frames).observation.paid = hand.streetPaid
         /\ \A s \in Seats :
              Near(found.state.paid[s], hand.streetPaid[s],
                   MatchTolerances(PreflopState(frames).observation, mode)[s])
<1>1. PICK state : state = PreflopState(frames)
  OBVIOUS
<1>2. PICK seen : seen = state.observation
  OBVIOUS
<1>3. PICK tolerance : tolerance = MatchTolerances(seen, mode)
  OBVIOUS
<1>4. Resolve(state, mode) # NoLine
  BY <1>1
<1>5. /\ seen.known
      /\ ~seen.terminal => Resolve(state, mode) = ResolveDecision(NearestBucket(seen), seen, tolerance)
  BY <1>2, <1>3, <1>4, ResolveFacts
<1>6. /\ seen.paid = hand.streetPaid /\ seen.terminal = FALSE /\ seen.actor = Actor(hand)
  BY <1>1, <1>2, <1>5, SeenDecision
<1>7. PICK bucket : bucket = NearestBucket(seen)
  OBVIOUS
<1>8. PICK matches :
        matches = {spot \in Spots : spot.stack = bucket /\ Compatible(spot.state, seen, tolerance)}
  OBVIOUS
<1>9. found = RequireUnique(matches)
  BY <1>1, <1>5, <1>6, <1>7, <1>8 DEF ResolveDecision
<1>10. found \in matches
  <2>1. RequireUnique(matches) # NoLine
    BY <1>9
  <2>2. QED
    BY <1>9, <2>1, UniqueFacts
<1>11. found \in Lines /\ Compatible(found.state, seen, tolerance)
  BY <1>8, <1>10 DEF Spots
<1>12. /\ ActorOf(found.state) = Actor(hand)
       /\ \A s \in Seats : Near(found.state.paid[s], hand.streetPaid[s], tolerance[s])
  BY <1>6, <1>11 DEF Compatible
<1>13. Actor(hand) = hero
  BY AskedFacts
<1>14. BetsOK(found.state) /\ found.stack \in Buckets
  BY <1>11, LinesBet
<1>15. found.stack \in Nat
  BY <1>14, BlueprintAssumption
<1>16. QED
  BY <1>1, <1>2, <1>3, <1>6, <1>12, <1>13, <1>14, <1>15

\* How much the bets may differ.
LEMMA NearHowMuch ==
  ASSUME 5 * BigBlind < 100, NEW seen, NEW mode, seen.paid \in [Seats -> Nat], NEW s \in Seats
  PROVE  /\ MatchTolerances(seen, mode)[s] \in Nat
         /\ \/ MatchTolerances(seen, mode)[s] < 100
            \/ MatchTolerances(seen, mode)[s] <= seen.paid[s] * SizeTolerancePct
<1>1. BigBlind \in Nat /\ SizeTolerancePct \in Nat
  BY ReplayAssumption, RouterAssumption
<1>2. PICK least \in Nat : least = 5 * BigBlind
  BY <1>1
<1>3. seen.paid[s] * SizeTolerancePct \in Nat
  BY <1>1
<1>4. PICK more \in Nat : more = seen.paid[s] * SizeTolerancePct
  BY <1>3
<1>5. MatchTolerances(seen, mode)[s] = least \/ MatchTolerances(seen, mode)[s] = Greater(least, more)
  BY <1>2, <1>4 DEF MatchTolerances
<1>6. Greater(least, more) = least \/ Greater(least, more) = more
  BY DEF Greater
<1>7. least < 100
  BY <1>2
<1>8. QED
  BY <1>4, <1>5, <1>6, <1>7

\* The raise of such a line: it is above the line's bet by a full raise of
\* the line, and twice the bet of any other player of the hand at least.
LEMMA RaiseOfLine ==
  ASSUME RaisesEnough, NEW s, BetsOK(s), NEW stack \in Nat, NEW seat \in Seats, ActorOf(s) = seat,
         LegalTarget(s, stack, RaiseTarget(s), FALSE)
  PROVE  /\ RaiseTarget(s) \in Nat /\ RaiseTarget(s) >= 2 * BigBlind
         /\ \A p \in Seats, top \in Nat :
              p # seat /\ 100 * s.paid[p] >= top * (100 - SizeTolerancePct)
                => RaiseTarget(s) >= 2 * top
<1>1. /\ s \in RoundType /\ s.paid \in [Seats -> Nat] /\ s.highest \in Nat
      /\ s.lastFullRaise \in Nat /\ BigBlind \in Nat
      /\ \A p \in Seats : s.paid[p] <= s.highest
      /\ BigBlind <= s.highest /\ BigBlind <= s.lastFullRaise
  BY ReplayAssumption DEF BetsOK, RoundType
<1>2. PICK target : target = RaiseTarget(s)
  OBVIOUS
<1>3. target > s.highest /\ target - s.highest >= s.lastFullRaise
  BY <1>2 DEF LegalTarget
<1>4. target \in Int
  BY <1>1, <1>2, RaiseTargetType
<1>5. PICK top0 \in Nat, full0 \in Nat : top0 = s.highest /\ full0 = s.lastFullRaise
  BY <1>1
<1>6. target \in Nat /\ target >= 2 * BigBlind
  BY <1>1, <1>3, <1>4, <1>5
<1>7. ASSUME NEW p \in Seats, NEW top \in Nat, p # seat,
             100 * s.paid[p] >= top * (100 - SizeTolerancePct)
      PROVE  target >= 2 * top
  <2>1. PICK a \in Nat, b \in Nat : a = s.paid[p] /\ b = s.paid[seat]
    BY <1>1
  <2>2. Total(s.paid) \in Nat /\ Total(s.paid) >= a + b
    BY <1>1, <1>7, <2>1, TotalOfTwo
  <2>3. PICK all \in Nat : all = Total(s.paid) /\ all >= a + b
    BY <2>2
  <2>4. PotAfterCall(s) = all + top0 - b
    BY <1>5, <2>1, <2>3 DEF PotAfterCall
  <2>5. a <= top0
    BY <1>1, <1>5, <2>1
  <2>6. PICK pot \in Nat : pot = PotAfterCall(s) /\ pot >= 2 * a
    BY <2>3, <2>4, <2>5
  <2>7. 100 * a >= top * (100 - SizeTolerancePct)
    BY <1>7, <2>1
  <2>8. a + (pot * RaisePct) \div 100 >= 2 * top
    BY <2>6, <2>7, DoubledBet
  <2>9. target = top0 + (pot * RaisePct) \div 100
    BY <1>2, <1>5, <2>6 DEF RaiseTarget
  <2>10. (pot * RaisePct) \div 100 \in Int
    BY <2>6, BlueprintAssumption
  <2>11. PICK more \in Int : more = (pot * RaisePct) \div 100
    BY <2>10
  <2>12. QED
    BY <2>5, <2>8, <2>9, <2>11
<1>8. QED
  BY <1>2, <1>6, <1>7

\* Where Hero may raise, the raise of the line found is one of the hand.
LEMMA FoundRaiseIsFull ==
  ASSUME 5 * BigBlind < 100, RaisesEnough, SpotInv, OptionInv, Asked, hand.street = 1,
         NEW mode, NEW found, found = Resolve(PreflopState(frames), mode), found # NoLine,
         Raise \in Menu(found.state, found.stack),
         NEW paid, NEW left, NEW top, NEW full, NEW may, Turn(paid, left, top, full, may), may
  PROVE  /\ RaiseTarget(found.state) \in Nat
         /\ RaiseTarget(found.state) - top >= full /\ RaiseTarget(found.state) > top
<1>1. PICK seen : seen = PreflopState(frames).observation
  OBVIOUS
<1>2. PICK s : s = found.state
  OBVIOUS
<1>3. /\ BetsOK(s) /\ found.stack \in Nat /\ ActorOf(s) = hero /\ seen.paid = hand.streetPaid
      /\ \A p \in Seats : Near(s.paid[p], hand.streetPaid[p], MatchTolerances(seen, mode)[p])
  BY <1>1, <1>2, FoundIsNear
<1>4. PICK seat \in Seats : seat = hero
  BY AskedFacts
<1>5. LegalTarget(s, found.stack, RaiseTarget(s), FALSE)
  <2>1. Legal(s, found.stack, Raise)
    BY <1>2 DEF Menu
  <2>2. QED
    BY <2>1, LegalFacts
<1>6. PICK target : target = RaiseTarget(s)
  OBVIOUS
<1>7. /\ target \in Nat /\ target >= 2 * BigBlind
      /\ \A p \in Seats, high \in Nat :
           p # seat /\ 100 * s.paid[p] >= high * (100 - SizeTolerancePct) => target >= 2 * high
  <2>1. BetsOK(s) /\ found.stack \in Nat /\ ActorOf(s) = seat
    BY <1>3, <1>4
  <2>2. /\ RaiseTarget(s) \in Nat /\ RaiseTarget(s) >= 2 * BigBlind
        /\ \A p \in Seats, high \in Nat :
             p # seat /\ 100 * s.paid[p] >= high * (100 - SizeTolerancePct)
               => RaiseTarget(s) >= 2 * high
    BY <1>5, <2>1, RaiseOfLine
  <2>3. QED
    BY <1>6, <2>2
<1>8. /\ paid \in Nat /\ top \in Nat /\ full \in Nat /\ hand.streetPaid[seat] = paid
      /\ hand.highest = top /\ paid <= top
      /\ full <= BigBlind \/ full <= top - paid
  BY <1>4 DEF Turn
<1>9. seat \notin hand.acted
  BY <1>4 DEF Turn, MayRaise
<1>10. top >= BigBlind /\ BigBlind \in Nat \ {0}
  BY <1>8, ReplayAssumption DEF OptionInv, StakesInv, Stakes
<1>11. CASE top = paid
  <2>1. top <= BigBlind
    BY <1>8, <1>9, <1>11 DEF OptionInv, FreeOption
  <2>2. QED
    BY <1>2, <1>6, <1>7, <1>8, <1>10, <1>11, <2>1
<1>12. CASE top > paid
  <2>1. hand.streetPaid \in [Seats -> Nat] /\ \E p \in Seats : hand.streetPaid[p] = hand.highest
    BY AskedFacts DEF HandOK, HandType, ChipsOK
  <2>2. PICK p \in Seats : hand.streetPaid[p] = top
    BY <1>8, <2>1
  <2>3. p # seat
    BY <1>8, <1>12, <2>2
  <2>4. PICK tolerance : tolerance = MatchTolerances(seen, mode)[p]
    OBVIOUS
  <2>5. /\ tolerance \in Nat
        /\ tolerance < 100 \/ tolerance <= top * SizeTolerancePct
    <3>1. seen.paid \in [Seats -> Nat] /\ seen.paid[p] = top
      BY <1>3, <2>1, <2>2
    <3>2. QED
      BY <2>4, <3>1, NearHowMuch
  <2>6. PICK a \in Nat : a = s.paid[p]
    BY <1>3 DEF BetsOK, RoundType
  <2>7. Near(a, top, tolerance)
    BY <1>3, <2>2, <2>4, <2>6
  <2>8. 100 * a >= top * (100 - SizeTolerancePct)
    BY <1>8, <2>5, <2>7, NearBet DEF RaisesEnough
  <2>9. target >= 2 * top
    BY <1>7, <1>8, <2>3, <2>6, <2>8
  <2>10. target - top >= full /\ target > top
    BY <1>7, <1>8, <1>10, <2>9
  <2>11. QED
    BY <1>2, <1>6, <1>7, <2>10
<1>13. QED
  BY <1>8, <1>11, <1>12

\* What an action of the policy is, label by label.
Advised(a, label, found, state) ==
  /\ label \in Menu(found.state, found.stack) /\ ButtonFor(label, state) \cap state.buttons # {}
  /\ a.kind = PolicyKind(label, state) /\ a.to = DisplayTarget(label, found.state, state)
  /\ label = Raise => \/ RaiseTarget(found.state) = NoAmount
                      \/ RaiseTarget(found.state) < state.heroStack + state.heroBet

LEMMA PolicyCases ==
  ASSUME NEW class, NEW found, NEW state, NEW mode, NEW a \in PolicyOf(class, found, state, mode)
  PROVE  \E label \in Labels : Advised(a, label, found, state)
<1>1. PICK seen, tree, menu, reach :
        /\ seen = state.observation /\ tree = found.state /\ menu = Menu(tree, found.stack)
        /\ reach = WalkReaches(found)[hero][class]
  OBVIOUS
<1>2. PICK taken : taken = {l \in menu : Weight(reach, class, l, menu) > 0}
  OBVIOUS
<1>3. PICK highest : highest = Max(Range(seen.paid))
  OBVIOUS
<1>4. PICK full : full = IF mode = "exact" THEN tree.lastFullRaise
                         ELSE ObservedRaises(seen, found.steps).full
  OBVIOUS
<1> DEFINE legal(l) ==
             /\ ButtonFor(l, state) \cap state.buttons # {}
             /\ l = Raise /\ mode = "abstract" => ReconstructsRaises(seen, found.steps)
             /\ RaiseIsLegal(l, DisplayTarget(l, tree, state), full, state, highest)
<1>5. PolicyOf(class, found, state, mode) =
        IF \E l \in taken : ~legal(l) THEN {}
        ELSE {[kind |-> PolicyKind(l, state), to |-> DisplayTarget(l, tree, state)] : l \in taken}
  BY <1>1, <1>2, <1>3, <1>4, Zenon DEF PolicyOf
<1>6. PICK label \in taken :
        /\ a = [kind |-> PolicyKind(label, state), to |-> DisplayTarget(label, tree, state)]
        /\ legal(label)
  <2> HIDE DEF legal
  <2>1. QED
    BY <1>5
<1>7. label \in Menu(found.state, found.stack) /\ label \in Labels
  BY <1>1, <1>2 DEF Menu
<1>8. a.kind = PolicyKind(label, state) /\ a.to = DisplayTarget(label, found.state, state)
  BY <1>1, <1>6
<1>9. ButtonFor(label, state) \cap state.buttons # {}
  BY <1>6
<1>10. RaiseIsLegal(label, DisplayTarget(label, tree, state), full, state, highest)
  BY <1>6
<1>11. label = Raise => \/ RaiseTarget(found.state) = NoAmount
                        \/ RaiseTarget(found.state) < state.heroStack + state.heroBet
  <2>1. Raise # AllIn
    BY DEF Raise, AllIn
  <2>2. label = Raise => DisplayTarget(label, tree, state) = RaiseTarget(tree)
    BY <2>1, Zenon DEF DisplayTarget
  <2>3. QED
    BY <1>1, <1>10, <2>1, <2>2 DEF RaiseIsLegal
<1>12. Advised(a, label, found, state)
  BY <1>7, <1>8, <1>9, <1>11 DEF Advised
<1>13. QED
  BY <1>7, <1>12

\* The button an action needs, and what it does.
LEMMA KindFacts ==
  ASSUME NEW state, NEW zero \in BOOLEAN, zero <=> state.call = 0, ~zero <=> state.call > 0
  PROVE  /\ PolicyKind(FoldLabel, state) = "FOLD" /\ ButtonFor(FoldLabel, state) = {"FOLD"}
         /\ zero => PolicyKind(Call, state) = "CHECK" /\ ButtonFor(Call, state) = {"CHECK"}
         /\ ~zero => PolicyKind(Call, state) = "CALL" /\ ButtonFor(Call, state) = {"CALL"}
         /\ PolicyKind(Raise, state) = "RAISE" /\ ButtonFor(Raise, state) = {"RAISE", "BET"}
         /\ PolicyKind(AllIn, state) = "RAISE"
         /\ ButtonFor(AllIn, state) = {"ALL-IN", "RAISE", "BET"}
<1>1. /\ FoldLabel # Call /\ FoldLabel # Raise /\ FoldLabel # AllIn /\ Call # Raise
      /\ Call # AllIn /\ Raise # AllIn
  BY DEF FoldLabel, Call, Raise, AllIn
<1>2. /\ PolicyKind(FoldLabel, state) = "FOLD"
      /\ PolicyKind(Raise, state) = "RAISE" /\ PolicyKind(AllIn, state) = "RAISE"
  BY <1>1, Zenon DEF PolicyKind
<1>3. /\ zero => PolicyKind(Call, state) = "CHECK"
      /\ ~zero => PolicyKind(Call, state) = "CALL"
  <2>1. PICK none \in BOOLEAN, some \in BOOLEAN : (none <=> state.call = 0) /\ (some <=> state.call > 0)
    OBVIOUS
  <2>2. (zero <=> none) /\ (~zero <=> some)
    BY <2>1
  <2>3. PolicyKind(Call, state) = CASE Call = Call /\ state.call = 0 -> "CHECK"
                                    [] Call = Call /\ state.call > 0 -> "CALL"
                                    [] Call = FoldLabel -> "FOLD"
                                    [] OTHER -> "RAISE"
    BY Zenon DEF PolicyKind
  <2>4. zero => PolicyKind(Call, state) = "CHECK"
    BY <1>1, <2>1, <2>2, <2>3, Zenon
  <2>5. ~zero => PolicyKind(Call, state) = "CALL"
    BY <1>1, <2>1, <2>2, <2>3, Zenon
  <2>6. QED
    BY <2>4, <2>5
<1>4. /\ ButtonFor(Raise, state) = {"RAISE", "BET"}
      /\ ButtonFor(AllIn, state) = {"ALL-IN", "RAISE", "BET"}
      /\ ButtonFor(FoldLabel, state) = {PolicyKind(FoldLabel, state)}
      /\ ButtonFor(Call, state) = {PolicyKind(Call, state)}
  BY <1>1, Zenon DEF ButtonFor
<1>5. QED
  BY <1>2, <1>3, <1>4

\* The decision in the state.
LEMMA PreflopFacts ==
  ASSUME SpotInv, Asked, NEW paid, NEW left, NEW top, NEW full, NEW may,
         Turn(paid, left, top, full, may)
  PROVE  /\ PreflopState(frames).buttons = Buttons(Last(frames))
         /\ PreflopState(frames).heroStack + PreflopState(frames).heroBet = paid + left
         /\ PreflopState(frames).call = Lesser(top - paid, left)
         /\ "FOLD" \in Buttons(Last(frames)) => top > paid
<1>1. PICK seat \in Seats : seat = hero
  BY AskedFacts
<1>2. PICK f : f = Last(frames)
  OBVIOUS
<1>3. f.hand = hand /\ Actor(hand) = seat /\ HandOK(hand, start) /\ LeastRaise(hand)
  BY <1>1, <1>2, AskedFacts
<1>4. /\ hand.streetPaid[seat] = paid /\ hand.remaining[seat] = left
      /\ Facing(hand, seat) = top - paid
      /\ paid \in Nat /\ left \in Nat /\ top \in Nat
  BY <1>1 DEF Turn
<1>5. "FOLD" \in Buttons(f) => Facing(hand, seat) > 0
  BY <1>1, <1>3, ButtonFacts
<1>6. /\ PreflopState(frames).buttons = Buttons(f)
      /\ PreflopState(frames).heroStack = left /\ PreflopState(frames).heroBet = paid
      /\ PreflopState(frames).call = Lesser(top - paid, left)
  BY <1>1, <1>2, <1>3, <1>4 DEF PreflopState, Stack, Bet, CallAmount
<1>7. "FOLD" \in Buttons(f) => top > paid
  BY <1>4, <1>5
<1>8. QED
  BY <1>2, <1>4, <1>6, <1>7

LEMMA PolicyFacts ==
  ASSUME 5 * BigBlind < 100, RaisesEnough, SpotInv, OptionInv, Asked, NEW mode
  PROVE  PolicyIsPlayable(mode)
<1>1. SUFFICES ASSUME hand.street = 1, NEW a \in PreflopPolicy(PreflopState(frames), mode)
               PROVE  Playable(a)
  BY DEF PolicyIsPlayable
<1>2. PICK state : state = PreflopState(frames)
  OBVIOUS
<1>3. PICK found : found = Resolve(state, mode)
  OBVIOUS
<1>4. found # NoLine /\ \E class \in Classes : a \in PolicyOf(class, found, state, mode)
  <2>1. PreflopPolicy(state, mode) =
          IF found = NoLine THEN {}
          ELSE UNION {PolicyOf(class, found, state, mode) : class \in Classes}
    BY <1>3 DEF PreflopPolicy
  <2>2. a \in PreflopPolicy(state, mode)
    BY <1>1, <1>2
  <2>3. QED
    BY <2>1, <2>2
<1>5. PICK label \in Labels : Advised(a, label, found, state)
  BY <1>4, PolicyCases
<1>6. PICK paid, left, top, full, may : Turn(paid, left, top, full, may)
  BY TurnInNumbers
<1>7. PICK buttons : buttons = Buttons(Last(frames))
  OBVIOUS
<1>8. /\ state.buttons = buttons /\ state.heroStack + state.heroBet = paid + left
      /\ state.call = Lesser(top - paid, left)
      /\ "FOLD" \in buttons => top > paid
  BY <1>2, <1>6, <1>7, PreflopFacts
<1>9. /\ "BET" \in buttons => may
      /\ "RAISE" \in buttons => may
      /\ "ALL-IN" \in buttons => may
      /\ "CHECK" \in buttons => top = paid
      /\ "CALL" \in buttons => top > paid
  BY <1>6, <1>7, TurnButtons
<1>10. /\ paid \in Nat /\ left \in Nat \ {0} /\ top \in Nat /\ full \in Nat
       /\ hand.highest = top /\ MaxTarget(hand, hero) = paid + left
  BY <1>6 DEF Turn
<1>11. state.call \in Int
  BY <1>8, <1>10 DEF Lesser
<1>12. state.call = 0 \/ state.call > 0
  <2>1. paid <= top
    BY <1>6 DEF Turn
  <2>2. QED
    BY <1>8, <1>10, <2>1 DEF Lesser
<1>13. PICK zero \in BOOLEAN : (zero <=> state.call = 0) /\ (~zero <=> state.call > 0)
  <2>1. PICK c \in Int : c = state.call
    BY <1>11
  <2>2. PICK z \in BOOLEAN : z <=> c = 0
    OBVIOUS
  <2>3. ~z <=> c > 0
    BY <1>12, <2>1, <2>2
  <2>4. QED
    BY <2>1, <2>2, <2>3
<1>14. /\ PolicyKind(FoldLabel, state) = "FOLD" /\ ButtonFor(FoldLabel, state) = {"FOLD"}
       /\ zero => PolicyKind(Call, state) = "CHECK" /\ ButtonFor(Call, state) = {"CHECK"}
       /\ ~zero => PolicyKind(Call, state) = "CALL" /\ ButtonFor(Call, state) = {"CALL"}
       /\ PolicyKind(Raise, state) = "RAISE" /\ ButtonFor(Raise, state) = {"RAISE", "BET"}
       /\ PolicyKind(AllIn, state) = "RAISE"
       /\ ButtonFor(AllIn, state) = {"ALL-IN", "RAISE", "BET"}
  BY <1>13, KindFacts
<1>15. /\ label \in Menu(found.state, found.stack) /\ ButtonFor(label, state) \cap buttons # {}
       /\ a.kind = PolicyKind(label, state) /\ a.to = DisplayTarget(label, found.state, state)
  BY <1>5, <1>8 DEF Advised
<1>16. Actor(hand) = hero
  BY AskedFacts
<1>17. /\ a.kind = "FOLD" => EventFor(a) = Event(hand, "FOLD", NoAmount)
       /\ a.kind = "CHECK" => EventFor(a) = Event(hand, "CHECK", NoAmount)
       /\ a.kind = "CALL" => EventFor(a) = Event(hand, "CALL", CallTarget(hand, hero))
       /\ a.kind \in Sizes /\ a.to = MaxTarget(hand, hero) =>
            EventFor(a) = Event(hand, "ALL_IN_TO", a.to)
       /\ a.kind \in Sizes /\ a.to # MaxTarget(hand, hero) /\ hand.highest # 0 =>
            EventFor(a) = Event(hand, "RAISE_TO", a.to)
  BY <1>16, EventForCases
<1>18. \A to \in Nat :
         /\ top > paid => Accepts(hand, Event(hand, "FOLD", NoAmount))
         /\ top > paid => Accepts(hand, Event(hand, "CALL", CallTarget(hand, hero)))
         /\ top = paid => Accepts(hand, Event(hand, "CHECK", NoAmount))
         /\ may /\ to = paid + left => Accepts(hand, Event(hand, "ALL_IN_TO", to))
         /\ top > 0 /\ may /\ to <= paid + left /\ to > top /\ to - top >= full =>
              Accepts(hand, Event(hand, "RAISE_TO", to))
  BY <1>6, TurnAccepts
<1>19. CASE label = FoldLabel
  <2>1. a.kind = "FOLD" /\ top > paid
    BY <1>8, <1>14, <1>15, <1>19
  <2>2. QED
    BY <1>10, <1>17, <1>18, <2>1 DEF Playable
<1>20. CASE label = Call /\ zero
  <2>1. a.kind = "CHECK" /\ top = paid
    BY <1>9, <1>14, <1>15, <1>20
  <2>2. QED
    BY <1>10, <1>17, <1>18, <2>1 DEF Playable
<1>21. CASE label = Call /\ ~zero
  <2>1. a.kind = "CALL" /\ top > paid
    BY <1>9, <1>14, <1>15, <1>21
  <2>2. QED
    BY <1>10, <1>17, <1>18, <2>1 DEF Playable
<1>22. CASE label = AllIn
  <2>1. a.kind = "RAISE" /\ may
    BY <1>9, <1>14, <1>15, <1>22
  <2>2. a.to = paid + left
    <3>1. a.to = state.heroStack + state.heroBet
      <4>1. Raise # AllIn
        BY DEF Raise, AllIn
      <4>2. QED
        BY <1>15, <1>22, <4>1, Zenon DEF DisplayTarget
    <3>2. QED
      BY <1>8, <3>1
  <2>3. a.to \in Nat /\ EventFor(a) = Event(hand, "ALL_IN_TO", a.to)
    BY <1>10, <1>17, <2>1, <2>2 DEF Sizes
  <2>4. QED
    BY <1>18, <2>1, <2>2, <2>3 DEF Playable
<1>23. CASE label = Raise
  <2>1. a.kind = "RAISE" /\ may
    BY <1>9, <1>14, <1>15, <1>23
  <2>2. a.to = RaiseTarget(found.state)
    <3>1. Raise # AllIn
      BY DEF Raise, AllIn
    <3>2. QED
      BY <1>15, <1>23, <3>1, Zenon DEF DisplayTarget
  <2>3. Raise \in Menu(found.state, found.stack)
    BY <1>15, <1>23
  <2>4. found = Resolve(PreflopState(frames), mode)
    BY <1>2, <1>3
  <2>5. /\ RaiseTarget(found.state) \in Nat
        /\ RaiseTarget(found.state) - top >= full /\ RaiseTarget(found.state) > top
    BY <1>1, <1>4, <1>6, <2>1, <2>3, <2>4, FoundRaiseIsFull
  <2>6. a.to \in Nat /\ a.to > top /\ a.to - top >= full /\ a.to < paid + left
    <3>1. \/ RaiseTarget(found.state) = NoAmount
          \/ RaiseTarget(found.state) < state.heroStack + state.heroBet
      BY <1>5, <1>23 DEF Advised
    <3>2. RaiseTarget(found.state) # NoAmount
      BY <2>5 DEF NoAmount
    <3>3. QED
      BY <1>8, <2>2, <2>5, <3>1, <3>2
  <2>7. EventFor(a) = Event(hand, "RAISE_TO", a.to) /\ top > 0 /\ a.to <= paid + left
    <3>1. top > 0
      <4>1. top >= BigBlind /\ BigBlind \in Nat \ {0}
        BY <1>1, <1>10, ReplayAssumption DEF OptionInv, StakesInv, Stakes
      <4>2. QED
        BY <1>10, <4>1
    <3>2. a.to # MaxTarget(hand, hero) /\ hand.highest # 0 /\ a.to <= paid + left
      BY <1>10, <2>6, <3>1
    <3>3. QED
      BY <1>17, <2>1, <3>1, <3>2 DEF Sizes
  <2>8. QED
    BY <1>18, <2>1, <2>6, <2>7 DEF Playable
<1>24. QED
  BY <1>19, <1>20, <1>21, <1>22, <1>23 DEF Labels

(* Everything that is advised can be played: the actions of the preflop    *)
(* policy, those the solver is asked about, and every amount that passes   *)
(* the last check are ones the table accepts, or put in all that the other *)
(* player has.                                                             *)
THEOREM SpotAdviceIsPlayable ==
  ASSUME 5 * BigBlind < 100, BetPct >= 50, RaisesEnough,
         \A stacks \in Starts : DeepStacks(stacks)
  PROVE  SpotSpec => []AdviceIsPlayable
<1>1. SpotInv /\ OptionInv => AdviceIsPlayable
  <2>1. SUFFICES ASSUME SpotInv, OptionInv, Asked
                 PROVE  /\ \A mode \in {"exact", "abstract"} : PolicyIsPlayable(mode)
                        /\ \A mode \in Modes : ModeledActionsArePlayable(mode)
                        /\ CheckedAmountsArePlayable
    BY DEF AdviceIsPlayable
  <2>2. \A mode \in {"exact", "abstract"} : PolicyIsPlayable(mode)
    BY <2>1, PolicyFacts
  <2>3. \A mode \in Modes : ModeledActionsArePlayable(mode)
    <3>1. StakesInv
      BY <2>1 DEF OptionInv
    <3>2. QED
      BY <2>1, <3>1, ModeledFacts
  <2>4. CheckedAmountsArePlayable
    BY <2>1, CheckedFacts DEF CheckedAmountsArePlayable
  <2>5. QED
    BY <2>2, <2>3, <2>4
<1>2. QED
  BY <1>1, OptionInvariant, PTL

(* Fifth part: the hand that the solver is asked to play.                   *)
-----------------------------------------------------------------------------
(* What is played from a root.                                             *)
IsPlay(f, root, steps, n) ==
  f = [m \in 0..n |-> IF m = 0 THEN root ELSE PlayedOn(f[m - 1], steps[m])]

LEMMA PlayExists ==
  ASSUME NEW root, NEW steps, NEW n \in Nat
  PROVE  \E f : IsPlay(f, root, steps, n)
<1> DEFINE On(h, m) == PlayedOn(h, steps[m])
           B == {k \in Nat : ~\E f : IsPlay(f, root, steps, k)}
<1>1. SUFFICES ASSUME B # {} PROVE FALSE
  BY Zenon
<1>2. PICK k \in B : \A l \in B : k <= l
  <2> HIDE DEF B
  <2>1. B \subseteq Nat
    BY DEF B
  <2>2. QED
    BY <1>1, <2>1, LeastNumber
<1>3. k \in Nat /\ ~\E f : IsPlay(f, root, steps, k)
  BY Zenon
<1>4. CASE k = 0
  <2>1. PICK f : f = [i \in 0..0 |-> root]
    OBVIOUS
  <2> HIDE DEF On
  <2>2. f = [i \in 0..k |-> IF i = 0 THEN root ELSE On(f[i - 1], i)]
    BY <1>4, <2>1
  <2>3. QED
    BY <1>3, <2>2, Zenon DEF IsPlay, On
<1>5. CASE k # 0
  <2>1. k - 1 \in Nat /\ ~(k <= k - 1)
    BY <1>3, <1>5
  <2>2. PICK h : IsPlay(h, root, steps, k - 1)
    BY <1>2, <2>1
  <2>3. PICK g : g = [i \in 0..k |-> IF i \in 0 .. k - 1 THEN h[i] ELSE On(h[i - 1], i)]
    OBVIOUS
  <2>4. ASSUME NEW i \in 0..k
        PROVE  g[i] = IF i = 0 THEN root ELSE On(g[i - 1], i)
    <3>1. i # 0 => i - 1 \in 0 .. k - 1 /\ i - 1 \in 0..k
      BY <1>3
    <3>2. i # 0 => g[i - 1] = h[i - 1]
      BY <2>3, <3>1
    <3>3. i = 0 => i \in 0 .. k - 1
      BY <1>3, <1>5
    <3>4. i \in 0 .. k - 1 => h[i] = IF i = 0 THEN root ELSE On(h[i - 1], i)
      BY <2>2 DEF IsPlay
    <3> HIDE DEF On
    <3>5. g[i] = IF i = 0 THEN root ELSE On(h[i - 1], i)
      BY <2>3, <3>3, <3>4
    <3>6. QED
      BY <3>2, <3>5
  <2>5. g = [i \in 0..k |-> IF i = 0 THEN root ELSE On(g[i - 1], i)]
    <3> HIDE DEF On
    <3>1. QED
      BY <2>3, <2>4
  <2>6. QED
    BY <1>3, <2>5, Zenon DEF IsPlay
<1>6. QED
  BY <1>4, <1>5

LEMMA PlayedFacts ==
  ASSUME NEW root, NEW steps, Len(steps) \in Nat
  PROVE  \E f : /\ Played(root, steps) = f[Len(steps)] /\ f[0] = root
                /\ \A n \in 1..Len(steps) : f[n] = PlayedOn(f[n - 1], steps[n])
<1>1. PICK f : f = CHOOSE g : IsPlay(g, root, steps, Len(steps))
  OBVIOUS
<1>2. Played(root, steps) = f[Len(steps)]
  BY <1>1, Zenon DEF Played, IsPlay
<1>3. IsPlay(f, root, steps, Len(steps))
  BY <1>1, PlayExists, Zenon
<1> DEFINE On(h, m) == PlayedOn(h, steps[m])
<1>4. f = [m \in 0..Len(steps) |-> IF m = 0 THEN root ELSE On(f[m - 1], m)]
  BY <1>3, Zenon DEF IsPlay
<1> HIDE DEF On
<1>5. f[0] = root /\ \A n \in 1..Len(steps) : f[n] = On(f[n - 1], n)
  <2>1. 0 \in 0..Len(steps) /\ \A n \in 1..Len(steps) : n \in 0..Len(steps) /\ n # 0
    OBVIOUS
  <2>2. QED
    BY <1>4, <2>1
<1>6. QED
  BY <1>2, <1>5, Zenon DEF On

LEMMA PlayedNothing ==
  ASSUME NEW root
  PROVE  Played(root, <<>>) = root
<1>1. Len(<<>>) = 0
  OBVIOUS
<1>2. QED
  BY <1>1, PlayedFacts

LEMMA PlayedAppend ==
  ASSUME NEW root, NEW S, NEW steps \in Seq(S), NEW step \in S
  PROVE  Played(root, Append(steps, step)) = PlayedOn(Played(root, steps), step)
<1>0. PICK n \in Nat : n = Len(steps)
  OBVIOUS
<1>1. PICK longer : longer = Append(steps, step)
  OBVIOUS
<1>2. Len(longer) = n + 1 /\ longer[n + 1] = step /\ \A i \in 1..n : longer[i] = steps[i]
  BY <1>0, <1>1
<1>3. PICK f : /\ Played(root, steps) = f[n] /\ f[0] = root
               /\ \A i \in 1..n : f[i] = PlayedOn(f[i - 1], steps[i])
  BY <1>0, PlayedFacts
<1>4. PICK g : /\ Played(root, longer) = g[n + 1] /\ g[0] = root
               /\ \A i \in 1 .. n + 1 : g[i] = PlayedOn(g[i - 1], longer[i])
  BY <1>0, <1>2, PlayedFacts
<1> DEFINE B == {k \in 0..n : f[k] # g[k]}
<1>5. B = {}
  <2>1. SUFFICES ASSUME B # {} PROVE FALSE
    OBVIOUS
  <2>2. PICK k \in B : \A l \in B : k <= l
    <3> HIDE DEF B
    <3>1. B \subseteq Nat
      BY DEF B
    <3>2. QED
      BY <2>1, <3>1, LeastNumber
  <2>3. k \in 0..n /\ f[k] # g[k] /\ k # 0
    BY <1>3, <1>4
  <2>4. k - 1 \in 0..n /\ ~(k <= k - 1) /\ k \in 1..n /\ k \in 1 .. n + 1
    BY <1>0, <2>3
  <2>5. f[k - 1] = g[k - 1]
    BY <2>2, <2>4
  <2>6. f[k] = PlayedOn(f[k - 1], steps[k]) /\ g[k] = PlayedOn(g[k - 1], longer[k])
    BY <1>3, <1>4, <2>4
  <2>7. QED
    BY <1>2, <2>3, <2>4, <2>5, <2>6
<1>6. f[n] = g[n]
  BY <1>0, <1>5
<1>7. g[n + 1] = PlayedOn(g[n], longer[n + 1])
  <2>1. n + 1 \in 1 .. n + 1 /\ (n + 1) - 1 = n
    BY <1>0
  <2>2. QED
    BY <1>4, <2>1
<1>8. QED
  BY <1>1, <1>2, <1>3, <1>4, <1>6, <1>7

\* What the solver's actions are at its table.
LEMMA SolverEvents ==
  ASSUME NEW h, NEW to
  PROVE  /\ SolverEvent(h, Sized("BET", to)) = Event(h, "BET_TO", to)
         /\ SolverEvent(h, Sized("RAISE", to)) = Event(h, "RAISE_TO", to)
         /\ SolverEvent(h, Sized("ALL-IN", to)) = Event(h, "ALL_IN_TO", to)
         /\ SolverEvent(h, Unsized("CALL")) = Event(h, "CALL", CallTarget(h, Actor(h)))
         /\ SolverEvent(h, Unsized("CHECK")) = Event(h, "CHECK", NoAmount)
         /\ SolverEvent(h, Unsized("FOLD")) = Event(h, "FOLD", NoAmount)
<1>1. ASSUME NEW kind
      PROVE  /\ Sized(kind, to).kind = kind /\ Sized(kind, to).to = to
             /\ Unsized(kind).kind = kind
  BY DEF Sized, Unsized
<1>2. ASSUME NEW step, NEW t, step.to = t
      PROVE  /\ step.kind = "BET" => SolverEvent(h, step) = Event(h, "BET_TO", t)
             /\ step.kind = "RAISE" => SolverEvent(h, step) = Event(h, "RAISE_TO", t)
             /\ step.kind = "ALL-IN" => SolverEvent(h, step) = Event(h, "ALL_IN_TO", t)
  BY <1>2, Zenon DEF SolverEvent, Event
<1>3. ASSUME NEW step
      PROVE  /\ step.kind = "CALL" =>
                  SolverEvent(h, step) = Event(h, "CALL", CallTarget(h, Actor(h)))
             /\ step.kind = "CHECK" => SolverEvent(h, step) = Event(h, "CHECK", NoAmount)
             /\ step.kind = "FOLD" => SolverEvent(h, step) = Event(h, "FOLD", NoAmount)
  BY Zenon DEF SolverEvent, Event
<1>4. QED
  BY <1>1, <1>2, <1>3, Zenon

LEMMA StepOfCases ==
  ASSUME NEW e
  PROVE  /\ e.kind = "BET_TO" => StepOf(e) = Sized("BET", e.to)
         /\ e.kind = "RAISE_TO" => StepOf(e) = Sized("RAISE", e.to)
         /\ e.kind = "ALL_IN_TO" => StepOf(e) = Sized("ALL-IN", e.to)
         /\ e.kind = "CALL" => StepOf(e) = Unsized("CALL")
         /\ e.kind = "CHECK" => StepOf(e) = Unsized("CHECK")
         /\ e.kind = "FOLD" => StepOf(e) = Unsized("FOLD")
         /\ e.kind = "DEAL" => StepOf(e) = Unsized("DEAL")
  BY Zenon DEF StepOf, StepKind

\* A state of a hand is played on by its rules.
LEMMA PlayedOnFacts ==
  ASSUME NEW stacks, NEW h, HandOK(h, stacks), NEW step
  PROVE  /\ h # Broken
         /\ step.kind = "DEAL" /\ AcceptsDeal(h) => PlayedOn(h, step) = AppliedDeal(h, Button)
         /\ step.kind # "DEAL" /\ Accepts(h, SolverEvent(h, step)) =>
              PlayedOn(h, step) = Applied(h, SolverEvent(h, step))
<1>1. h # Broken
  BY DEF HandOK, HandType, Broken
<1>2. QED
  BY <1>1, Zenon DEF PlayedOn

\* What was done is what the solver does, if the same bet is called.
LEMMA PlayedEvent ==
  ASSUME NEW stacks, NEW h, HandOK(h, stacks), NEW e \in HandEvents, Accepts(h, e),
         e.kind = "CALL" => e.to = CallTarget(h, Actor(h))
  PROVE  PlayedOn(h, StepOf(e)) = Applied(h, e)
<1>1. e.kind \in Kinds /\ e = [kind |-> e.kind, seat |-> e.seat, to |-> e.to]
  BY DEF HandEvents
<1>2. e.seat = Actor(h)
  BY DEF Accepts
<1>3. e = Event(h, e.kind, e.to)
  BY <1>1, <1>2 DEF Event
<1>4. e.kind \in {"CHECK", "FOLD"} => e.to = NoAmount
  BY DEF Accepts
<1>5. SolverEvent(h, StepOf(e)) = e
  BY <1>1, <1>3, <1>4, SolverEvents, StepOfCases DEF Kinds, Wagers
<1>6. StepOf(e).kind # "DEAL"
  BY <1>1, StepOfCases DEF Kinds, Wagers, Sized, Unsized
<1>7. QED
  BY <1>5, <1>6, PlayedOnFacts

-----------------------------------------------------------------------------
(* Two players.                                                            *)

\* How far a seat is from the button.
After(s) == IF s = 0 THEN Players ELSE s

LEMMA AppendTwo ==
  ASSUME NEW x, NEW y
  PROVE  Append(<<>>, x) = <<x>> /\ Append(<<x>>, y) = <<x, y>>
<1>1. Append(<<>>, x) = <<x>>
  OBVIOUS
<1>2. PICK S : S = {x, y}
  OBVIOUS
<1>3. PICK p, q : p = Append(<<x>>, y) /\ q = <<x, y>>
  OBVIOUS
<1>4. <<x>> \in Seq(S) /\ Len(<<x>>) = 1 /\ <<x>>[1] = x
  BY <1>2
<1>5. q \in Seq(S) /\ Len(q) = 2 /\ q[1] = x /\ q[2] = y
  BY <1>2, <1>3
<1>6. p \in Seq(S) /\ Len(p) = 2 /\ p[1] = x /\ p[2] = y
  BY <1>2, <1>3, <1>4
<1>7. \A i \in 1..Len(p) : p[i] = q[i]
  BY <1>5, <1>6
<1>8. QED
  BY <1>1, <1>3, <1>5, <1>6, <1>7, SeqEqual

\* The order of two seats.
LEMMA OrderedPair ==
  ASSUME NEW x \in Seats, NEW y \in Seats, After(x) < After(y)
  PROVE  OrderedAfter(0, {x, y}) = <<x, y>>
<1> DEFINE around == [n \in 1..Players |-> (0 + n) % Players]
<1>0. Players \in Nat /\ Players >= 2 /\ x \in 0 .. Players - 1 /\ y \in 0 .. Players - 1
  BY ReplayAssumption DEF Seats
<1>1. \A n \in 1..Players : around[n] = IF n = Players THEN 0 ELSE n
  BY <1>0
<1>2. Len(around) = Players /\ DOMAIN around = 1..Players
  BY <1>0
<1>3. PICK near \in Nat, far \in Nat : near = After(x) /\ far = After(y)
  BY <1>0 DEF After
<1> HIDE DEF around
<1>4. /\ near \in 1..Players /\ far \in 1..Players /\ near < far
      /\ \A n \in 1..Players : around[n] = x <=> n = near
      /\ \A n \in 1..Players : around[n] = y <=> n = far
  BY <1>0, <1>1, <1>3 DEF After
<1>5. OrderedAfter(0, {x, y}) = Kept(around, {x, y})
  BY DEF OrderedAfter, around
<1>6. PICK f : f = CHOOSE g : IsKept(g, around, {x, y}, Players)
  OBVIOUS
<1>7. Kept(around, {x, y}) = f[Players]
  BY <1>2, <1>6, Zenon DEF Kept, IsKept
<1>8. IsKept(f, around, {x, y}, Players)
  BY <1>0, <1>6, KeptExists, Zenon
<1>9. /\ f[0] = <<>>
      /\ \A n \in 1..Players :
           f[n] = IF n = near THEN Append(f[n - 1], x)
                  ELSE IF n = far THEN Append(f[n - 1], y) ELSE f[n - 1]
  <2>1. 0 \in 0..Players /\ \A n \in 1..Players : n \in 0..Players /\ n # 0
    BY <1>0
  <2>2. f[0] = <<>> /\ \A n \in 1..Players :
          f[n] = IF around[n] \in {x, y} THEN Append(f[n - 1], around[n]) ELSE f[n - 1]
    BY <1>8, <2>1 DEF IsKept
  <2>3. QED
    BY <1>4, <2>2
<1> DEFINE List(n) == IF n < near THEN <<>> ELSE IF n < far THEN <<x>> ELSE <<x, y>>
           B == {k \in 0..Players : f[k] # List(k)}
<1>10. B = {}
  <2>1. SUFFICES ASSUME B # {} PROVE FALSE
    OBVIOUS
  <2>2. PICK k \in B : \A l \in B : k <= l
    <3> HIDE DEF B
    <3>1. B \subseteq Nat
      BY DEF B
    <3>2. QED
      BY <2>1, <3>1, LeastNumber
  <2>3. k \in 0..Players /\ f[k] # List(k)
    OBVIOUS
  <2>4. k # 0
    BY <1>4, <1>9, <2>3
  <2>5. k - 1 \in 0..Players /\ ~(k <= k - 1) /\ k \in 1..Players
    BY <1>0, <2>3, <2>4
  <2>6. f[k - 1] = List(k - 1)
    BY <2>2, <2>5
  <2>7. f[k] = IF k = near THEN Append(f[k - 1], x)
               ELSE IF k = far THEN Append(f[k - 1], y) ELSE f[k - 1]
    BY <1>9, <2>5
  <2>8. Append(<<>>, x) = <<x>> /\ Append(<<x>>, y) = <<x, y>>
    BY AppendTwo
  <2>9. CASE k = near
    <3>1. List(k - 1) = <<>> /\ List(k) = <<x>>
      BY <1>3, <1>4, <2>5, <2>9
    <3>2. QED
      BY <2>3, <2>6, <2>7, <2>8, <2>9, <3>1
  <2>10. CASE k # near /\ k = far
    <3>1. List(k - 1) = <<x>> /\ List(k) = <<x, y>>
      BY <1>3, <1>4, <2>5, <2>10
    <3>2. QED
      BY <2>3, <2>6, <2>7, <2>8, <2>10, <3>1
  <2>11. CASE k # near /\ k # far
    <3>1. List(k - 1) = List(k)
      BY <1>3, <1>4, <2>5, <2>11
    <3>2. QED
      BY <2>3, <2>6, <2>7, <2>11, <3>1
  <2>12. QED
    BY <2>9, <2>10, <2>11
<1>11. f[Players] = List(Players)
  BY <1>0, <1>10
<1>12. List(Players) = <<x, y>>
  BY <1>0, <1>3, <1>4
<1>13. QED
  BY <1>5, <1>7, <1>11, <1>12

LEMMA OneIsFirst ==
  ASSUME NEW x \in Seats, NEW y \in Seats, x # y
  PROVE  After(x) < After(y) \/ After(y) < After(x)
  BY ReplayAssumption DEF Seats, After

LEMMA KeptPair ==
  ASSUME NEW x, NEW y, NEW wanted, x \in wanted, y \in wanted
  PROVE  Kept(<<x, y>>, wanted) = <<x, y>>
<1>1. PICK q : q = <<x, y>>
  OBVIOUS
<1>2. Len(q) = 2 /\ q[1] = x /\ q[2] = y
  BY <1>1
<1>3. PICK f : f = CHOOSE g : IsKept(g, q, wanted, Len(q))
  OBVIOUS
<1>4. Kept(q, wanted) = f[Len(q)]
  BY <1>3, Zenon DEF Kept, IsKept
<1>5. IsKept(f, q, wanted, Len(q))
  BY <1>2, <1>3, KeptExists, Zenon
<1>6. f[0] = <<>> /\ f[1] = Append(f[0], x) /\ f[2] = Append(f[1], y)
  <2>1. 1 - 1 = 0 /\ 2 - 1 = 1 /\ 0 \in 0..2 /\ 1 \in 0..2 /\ 2 \in 0..2
    OBVIOUS
  <2>2. f = [i \in 0..2 |-> IF i = 0 THEN <<>>
                           ELSE IF q[i] \in wanted THEN Append(f[i - 1], q[i]) ELSE f[i - 1]]
    BY <1>2, <1>5, Zenon DEF IsKept
  <2>3. f[0] = <<>>
    BY <2>1, <2>2
  <2>4. f[1] = Append(f[0], q[1]) /\ f[2] = Append(f[1], q[2])
    <3>1. q[1] \in wanted /\ q[2] \in wanted
      BY <1>2
    <3>2. QED
      BY <2>1, <2>2, <2>3, <3>1
  <2>5. QED
    BY <1>2, <2>3, <2>4
<1>7. QED
  BY <1>1, <1>2, <1>4, <1>6, AppendTwo

\* The two who are left in a hand.
Between(h, a, b) == a \in Seats /\ b \in Seats /\ a # b /\ Live(h) = {a, b}

LEMMA BetweenTwo ==
  ASSUME NEW h, NEW a, NEW b, Between(h, a, b)
  PROVE  Cardinality(Live(h)) = 2
<1>1. IsFiniteSet({b}) /\ Cardinality({b}) = 1 /\ a \notin {b}
  BY FS_Singleton DEF Between
<1>2. Live(h) = {b} \cup {a}
  BY DEF Between
<1>3. QED
  BY <1>1, <1>2, FS_AddElement

\* Who is not asked leaves the other to act.
LEMMA OtherActs ==
  ASSUME NEW stacks, NEW h, HandOK(h, stacks), ~h.closed, NEW a, NEW b, Between(h, a, b),
         ~Waits(h, a)
  PROVE  Actor(h) = b
<1>1. /\ Actor(h) = Head(h.pending) /\ Actor(h) \in Eligible(h)
      /\ h.pending \in Seq(Seats) /\ h.pending # <<>> /\ IsInjective(h.pending)
  BY ActorFacts
<1>2. Waits(h, Actor(h))
  BY <1>1, TailFacts DEF Waits
<1>3. Actor(h) \in {a, b}
  BY <1>1 DEF Eligible, Between
<1>4. QED
  BY <1>2, <1>3

\* When a round between two players is bet out: both have put in the same, and
\* that is all that one of them has, or both have acted.
LEMMA SettledRound ==
  ASSUME NEW stacks, NEW h, HandOK(h, stacks), Unsettled(h),
         NEW a, NEW b, Between(h, a, b), NEW left \in Nat,
         \A s \in Seats : s # a /\ s # b => h.streetPaid[s] = 0,
         \A s \in {a, b} : h.streetPaid[s] <= left /\ left <= h.streetPaid[s] + h.remaining[s],
         \E s \in {a, b} : h.streetPaid[s] + h.remaining[s] = left
  PROVE  h.closed <=> /\ h.streetPaid[a] = h.streetPaid[b]
                      /\ h.streetPaid[a] = left \/ {a, b} \subseteq h.acted
<1>1. /\ a \in Seats /\ b \in Seats /\ a # b /\ Live(h) = {a, b}
      /\ h \in HandType /\ ChipsOK(h, stacks)
  BY DEF Between, HandOK
<1>2. PICK paid, behind, top :
        /\ paid = h.streetPaid /\ behind = h.remaining
        /\ top = h.highest /\ top \in Nat
  BY <1>1 DEF HandType
<1>3. /\ \A s \in Seats : paid[s] \in Nat /\ behind[s] \in Nat /\ paid[s] <= top
      /\ \E s \in Seats : paid[s] = top
      /\ \A s \in Seats : s \in h.allIn <=> behind[s] = 0
  BY <1>1, <1>2 DEF HandType, ChipsOK
<1>4. /\ \A s \in Seats : s # a /\ s # b => paid[s] = 0
      /\ \A s \in {a, b} : paid[s] <= left /\ left <= paid[s] + behind[s]
  BY <1>2
<1>5. PICK z \in {a, b} : paid[z] + behind[z] = left
  BY <1>2
<1>6. top = paid[a] \/ top = paid[b]
  BY <1>1, <1>3, <1>4
<1>7. /\ Eligible(h) = {s \in {a, b} : behind[s] # 0}
      /\ Eligible(h) \subseteq Seats
  BY <1>1, <1>3 DEF Eligible
<1>8. ASSUME h.closed
      PROVE  paid[a] = paid[b] /\ (paid[a] = left \/ {a, b} \subseteq h.acted)
  <2>1. ~(Cardinality(Live(h)) <= 1)
    BY BetweenTwo
  <2>2. /\ \A s \in Eligible(h) : paid[s] = top
        /\ ~(Cardinality(Eligible(h)) <= 1) => Eligible(h) \subseteq h.acted
    <3>1. /\ \A s \in Eligible(h) : paid[s] = top
          /\ Cardinality(Eligible(h)) > 1 => Eligible(h) \subseteq h.acted
      BY <1>2, <1>8, <2>1, SeatsFinite DEF HandOK, Live
    <3>2. Cardinality(Eligible(h)) \in Nat
      BY <1>7, SeatsFinite
    <3>3. QED
      BY <3>1, <3>2
  <2>3. \A s \in {a, b} : behind[s] = 0 => paid[s] = left
    BY <1>1, <1>3, <1>4
  <2>4. paid[a] = top /\ paid[b] = top
    BY <1>1, <1>3, <1>4, <1>6, <1>7, <2>2, <2>3
  <2>5. CASE behind[a] # 0 /\ behind[b] # 0
    <3>1. Eligible(h) = {a, b}
      BY <1>7, <2>5
    <3>2. ~(Cardinality(Eligible(h)) <= 1)
      BY <1>1, <3>1, BetweenTwo
    <3>3. QED
      BY <2>2, <2>4, <3>1, <3>2
  <2>6. CASE behind[a] = 0 \/ behind[b] = 0
    BY <2>3, <2>4, <2>6
  <2>7. QED
    BY <2>5, <2>6
<1>9. ASSUME ~h.closed, paid[a] = paid[b], paid[a] = left \/ {a, b} \subseteq h.acted
      PROVE  FALSE
  <2>1. top = paid[a] /\ \A s \in {a, b} : paid[s] = top
    BY <1>6, <1>9
  <2>2. PICK x : x = Actor(h)
    OBVIOUS
  <2>3. /\ x \in Eligible(h) /\ x = Head(h.pending) /\ RoundOK(h)
        /\ h.pending \in Seq(Seats) /\ h.pending # <<>> /\ IsInjective(h.pending)
    BY <1>9, <2>2, ActorFacts
  <2>4. Waits(h, x) /\ x \in {a, b} /\ x \in Seats
    BY <1>1, <1>7, <2>3, TailFacts DEF Waits
  <2>5. x \notin h.acted
    <3>1. x \in h.acted => paid[x] < top
      BY <1>2, <2>3, <2>4 DEF RoundOK
    <3>2. QED
      BY <1>2, <2>1, <2>4, <3>1
  <2>6. paid[a] = left /\ behind[z] = 0
    BY <1>1, <1>3, <1>5, <1>9, <2>1, <2>4, <2>5
  <2>7. Eligible(h) = {x}
    BY <1>5, <1>7, <2>3, <2>4, <2>6
  <2>8. paid[x] >= top
    BY <1>2, <2>1, <2>4
  <2>9. QED
    BY <1>2, <1>9, <2>4, <2>7, <2>8 DEF Unsettled
<1>10. h.closed \in BOOLEAN
  BY <1>1 DEF HandType
<1>11. QED
  BY <1>2, <1>8, <1>9, <1>10

\* After a deal the player next to the button acts first.
LEMMA FirstToAct ==
  ASSUME NEW stacks, NEW h, HandOK(h, stacks), NEW g, Deals(h, g), Unsettled(g),
         NEW x, NEW y, Between(g, x, y), After(x) < After(y)
  PROVE  g.acted = {} /\ (~g.closed => Actor(g) = x)
<1> DEFINE next == [h EXCEPT !.street = @ + 1, !.streetPaid = Zero, !.highest = 0,
                             !.lastFullRaise = BigBlind, !.acted = {}, !.closed = FALSE]
<1>0. /\ Zero \in [Seats -> Nat] /\ BigBlind \in Nat \ {0} /\ Button \in Seats /\ Button = 0
  BY ReplayAssumption DEF Seats, Zero, Button
<1>1. /\ h \in HandType /\ ~h.terminal /\ h.street + 1 \in 1..4
      /\ g = AppliedDeal(h, Button)
  BY DEF HandOK, HandType, AcceptsDeal, Deals
<1>2. /\ HandOK(g, stacks) /\ g.folded = h.folded /\ g.allIn = h.allIn /\ g.highest = 0
      /\ \A s \in Seats : g.streetPaid[s] = 0
  BY StreetFacts
<1> HIDE DEF next
<1>3. /\ next \in HandType /\ next.acted = {} /\ next.allIn = h.allIn /\ next.folded = h.folded
  BY <1>0, <1>1 DEF next, HandType
<1>4. PICK q : q = OrderedAfter(Button, Eligible(next))
  OBVIOUS
<1>5. Eligible(next) \in SUBSET Seats /\ Eligible(next) = Eligible(g)
  BY <1>2, <1>3 DEF Eligible, Live
<1>6. q \in Seq(Seats)
  BY <1>0, <1>4, <1>5, OrderedAfterFacts
<1>7. PICK d : d = [next EXCEPT !.pending = q]
  OBVIOUS
<1>8. /\ d \in HandType /\ d.pending = q /\ d.acted = {} /\ Eligible(d) = Eligible(next)
  BY <1>3, <1>6, <1>7 DEF HandType, Eligible, Live
<1>9. g = Ended(NormalizeRound(d))
  BY <1>1, <1>4, <1>7 DEF AppliedDeal, next
<1>10. g.acted = {}
  BY <1>8, <1>9, KeepsBets
<1> SUFFICES ASSUME ~g.closed PROVE Actor(g) = x
  BY <1>10
<1>11. Eligible(g) = {x, y}
  <2>1. Actor(g) \in Eligible(g)
    BY <1>2, ActorFacts
  <2>2. Eligible(g) \subseteq {x, y} /\ x \in Seats /\ y \in Seats
    BY DEF Eligible, Between
  <2>3. ~\E only \in Seats : Eligible(g) = {only}
    BY <1>2 DEF Unsettled
  <2>4. QED
    BY <2>1, <2>2, <2>3
<1>12. q = <<x, y>>
  <2>1. x \in Seats /\ y \in Seats
    BY DEF Between
  <2>2. QED
    BY <1>0, <1>4, <1>5, <1>11, <2>1, OrderedPair
<1>13. Kept(d.pending, Eligible(d)) = <<x, y>>
  <2>1. Kept(<<x, y>>, {x, y}) = <<x, y>>
    BY KeptPair
  <2>2. QED
    BY <1>5, <1>8, <1>11, <1>12, <2>1
<1>14. g.pending = <<x, y>>
  <2>1. PICK kept : kept = <<x, y>> /\ kept = Kept(d.pending, Eligible(d))
    BY <1>13
  <2>2. PICK one \in BOOLEAN, settled \in BOOLEAN, bare \in BOOLEAN :
          /\ one <=> Cardinality(Live(d)) <= 1
          /\ settled <=> \/ Eligible(d) = {}
                         \/ \E only \in Eligible(d) :
                              Eligible(d) = {only} /\ d.streetPaid[only] >= d.highest
          /\ bare <=> kept = <<>>
    OBVIOUS
  <2>3. NormalizeRound(d) =
          IF one THEN [d EXCEPT !.pending = <<>>, !.closed = TRUE, !.terminal = TRUE]
          ELSE IF settled THEN [d EXCEPT !.pending = <<>>, !.closed = TRUE]
          ELSE [d EXCEPT !.pending = kept, !.closed = @ \/ bare]
    BY <2>1, <2>2, Zenon DEF NormalizeRound
  <2>4. NormalizeRound(d).closed = g.closed /\ NormalizeRound(d).pending = g.pending
    <3>1. PICK n : n = NormalizeRound(d) /\ g = Ended(n)
      BY <1>9
    <3>2. n \in HandType
      <4>1. kept \in Seq(Seats) /\ <<>> \in Seq(Seats)
        BY <1>6, <1>12, <2>1
      <4>2. /\ [d EXCEPT !.pending = <<>>, !.closed = TRUE, !.terminal = TRUE] \in HandType
            /\ [d EXCEPT !.pending = <<>>, !.closed = TRUE] \in HandType
            /\ [d EXCEPT !.pending = kept, !.closed = @ \/ bare] \in HandType
        BY <1>8, <4>1 DEF HandType
      <4>3. QED
        BY <2>3, <3>1, <4>2
    <3>3. g.closed = n.closed /\ g.pending = n.pending
      BY <3>1, <3>2 DEF Ended, HandType
    <3>4. QED
      BY <3>1, <3>3
  <2>5. ~one /\ ~settled
    BY <1>8, <2>3, <2>4 DEF HandType
  <2>6. QED
    BY <1>8, <2>1, <2>3, <2>4, <2>5 DEF HandType
<1>15. Actor(g) = x
  BY <1>14 DEF Actor
<1>16. QED
  BY <1>15

-----------------------------------------------------------------------------
(* The hand that the solver plays.                                         *)
LEMMA RootFacts ==
  ASSUME NEW root \in HandType, NEW x, NEW y, x \in Seats, y \in Seats, x # y,
         NEW most \in Nat \ {0}, NEW g, g = TwoHanded(root, <<x, y>>, most)
  PROVE  /\ HandOK(g, [s \in Seats |-> most + root.totalPaid[s]]) /\ Unsettled(g)
         /\ Between(g, x, y) /\ Actor(g) = x /\ ~g.closed
         /\ g.street = root.street /\ g.totalPaid = root.totalPaid
         /\ g.highest = 0 /\ g.lastFullRaise = BigBlind /\ g.acted = {}
         /\ \A s \in Seats : g.streetPaid[s] = 0 /\ g.remaining[s] = most
<1>0. /\ Zero \in [Seats -> Nat] /\ BigBlind \in Nat \ {0}
      /\ \A s \in Seats : Zero[s] = 0
  BY ReplayAssumption DEF Zero
<1>1. PICK pair, behind, out :
        /\ pair = <<x, y>> /\ behind = [s \in Seats |-> most] /\ out = Seats \ {x, y}
  OBVIOUS
<1>2. /\ pair \in Seq(Seats) /\ ToSet(pair) = {x, y} /\ IsInjective(pair)
      /\ pair # <<>> /\ Head(pair) = x
  BY <1>1 DEF ToSet, IsInjective
<1>3. g = [root EXCEPT !.remaining = behind, !.streetPaid = Zero,
                      !.folded = out, !.allIn = {}, !.highest = 0,
                      !.lastFullRaise = BigBlind, !.acted = {}, !.pending = pair,
                      !.closed = FALSE, !.terminal = FALSE]
  BY <1>1, <1>2, Zenon DEF TwoHanded
<1>4. behind \in [Seats -> Nat] /\ out \in SUBSET Seats
  BY <1>1
<1>5. /\ g \in HandType /\ g.remaining = behind /\ g.streetPaid = Zero /\ g.folded = out
      /\ g.allIn = {} /\ g.highest = 0 /\ g.lastFullRaise = BigBlind /\ g.acted = {}
      /\ g.pending = pair /\ g.closed = FALSE /\ g.terminal = FALSE
      /\ g.street = root.street /\ g.totalPaid = root.totalPaid
  <2>1. PICK r : r = [root EXCEPT !.remaining = behind, !.streetPaid = Zero,
                                  !.folded = out, !.allIn = {}, !.highest = 0]
    OBVIOUS
  <2>2. /\ r \in HandType /\ r.remaining = behind /\ r.streetPaid = Zero /\ r.folded = out
        /\ r.allIn = {} /\ r.highest = 0
        /\ r.street = root.street /\ r.totalPaid = root.totalPaid
    BY <1>0, <1>4, <2>1 DEF HandType
  <2>3. g = [r EXCEPT !.lastFullRaise = BigBlind, !.acted = {}, !.pending = pair,
                      !.closed = FALSE, !.terminal = FALSE]
    BY <1>3, <2>1 DEF HandType
  <2>4. QED
    BY <1>0, <1>2, <2>2, <2>3 DEF HandType
<1>6. Live(g) = {x, y} /\ Eligible(g) = {x, y} /\ Between(g, x, y)
  BY <1>1, <1>5 DEF Live, Eligible, Between
<1>7. /\ \A s \in Seats : g.streetPaid[s] = 0 /\ g.remaining[s] = most
      /\ \A s \in Seats : g.totalPaid[s] \in Nat
  <2>1. g.totalPaid \in [Seats -> Nat]
    BY <1>5 DEF HandType
  <2>2. \A s \in Seats : behind[s] = most
    BY <1>1
  <2>3. QED
    BY <1>0, <1>5, <2>1, <2>2
<1>8. ChipsOK(g, [s \in Seats |-> most + root.totalPaid[s]])
  <2>1. /\ \A s \in Seats : g.streetPaid[s] <= g.totalPaid[s] /\ g.streetPaid[s] <= g.highest
        /\ \A s \in Seats : g.remaining[s] + g.totalPaid[s]
                              = [t \in Seats |-> most + root.totalPaid[t]][s]
    BY <1>5, <1>7
  <2>2. /\ x \in Seats /\ g.streetPaid[x] = g.highest
        /\ g.allIn = {s \in Seats : g.remaining[s] = 0}
    BY <1>5, <1>7
  <2>3. QED
    BY <2>1, <2>2 DEF ChipsOK
<1>9. RoundOK(g)
  BY <1>2, <1>5, <1>6 DEF RoundOK, Waits
<1>10. ~(Cardinality(Live(g)) <= 1)
  BY <1>6, BetweenTwo
<1>11. HandOK(g, [s \in Seats |-> most + root.totalPaid[s]])
  BY <1>2, <1>5, <1>6, <1>8, <1>9, <1>10 DEF HandOK
<1>12. Unsettled(g)
  BY <1>5, <1>6 DEF Unsettled
<1>13. Actor(g) = x
  BY <1>2, <1>5 DEF Actor
<1>14. QED
  BY <1>5, <1>6, <1>7, <1>11, <1>12, <1>13

\* The solver's hand g is the hand h between a and b: the same bets by the same
\* seats, where each has `left' on this street, which is what the shorter has.
SameBets(g, h) ==
  /\ g.street = h.street /\ g.highest = h.highest /\ g.lastFullRaise = h.lastFullRaise
  /\ g.acted = h.acted /\ g.closed = h.closed
  /\ \A s \in Seats : g.streetPaid[s] = h.streetPaid[s] /\ g.totalPaid[s] = h.totalPaid[s]
  /\ ~h.closed => Actor(g) = Actor(h)

ShortHas(h, a, b, left) ==
  /\ \A s \in {a, b} : h.streetPaid[s] <= left /\ left <= h.streetPaid[s] + h.remaining[s]
  /\ \E s \in {a, b} : h.streetPaid[s] + h.remaining[s] = left

Follows(g, h, stacks, a, b, left) ==
  /\ HandOK(g, stacks) /\ Unsettled(g) /\ Between(g, a, b) /\ Between(h, a, b)
  /\ SameBets(g, h)
  /\ \A s \in Seats : s # a /\ s # b => h.streetPaid[s] = 0
  /\ left \in Nat /\ ShortHas(h, a, b, left)
  /\ \A s \in {a, b} : g.streetPaid[s] + g.remaining[s] = left

\* The round of both is bet out at once.
LEMMA FollowsCloses ==
  ASSUME NEW stacks, NEW g, HandOK(g, stacks), Unsettled(g),
         NEW chips, NEW h, HandOK(h, chips), Unsettled(h),
         NEW a, NEW b, Between(g, a, b), Between(h, a, b), NEW left \in Nat,
         \A s \in Seats : g.streetPaid[s] = h.streetPaid[s],
         \A s \in Seats : s # a /\ s # b => h.streetPaid[s] = 0,
         ShortHas(h, a, b, left), \A s \in {a, b} : g.streetPaid[s] + g.remaining[s] = left,
         g.acted = h.acted
  PROVE  /\ g.closed = h.closed /\ g.highest = h.highest
         /\ h.closed => h.streetPaid[a] = h.streetPaid[b]
<1>1. /\ a \in Seats /\ b \in Seats /\ a # b /\ g \in HandType /\ h \in HandType
      /\ ChipsOK(g, stacks) /\ ChipsOK(h, chips)
  BY DEF Between, HandOK
<1>2. h.closed <=> /\ h.streetPaid[a] = h.streetPaid[b]
                   /\ h.streetPaid[a] = left \/ {a, b} \subseteq h.acted
  BY SettledRound DEF ShortHas
<1>3. ShortHas(g, a, b, left)
  <2>1. \A s \in {a, b} : g.streetPaid[s] \in Nat /\ g.remaining[s] \in Nat
    BY <1>1 DEF HandType
  <2>2. QED
    BY <2>1 DEF ShortHas
<1>4. \A s \in Seats : s # a /\ s # b => g.streetPaid[s] = 0
  OBVIOUS
<1>5. g.closed <=> /\ g.streetPaid[a] = g.streetPaid[b]
                   /\ g.streetPaid[a] = left \/ {a, b} \subseteq g.acted
  BY <1>3, <1>4, SettledRound DEF ShortHas
<1>6. g.closed <=> h.closed
  BY <1>1, <1>2, <1>5
<1>7. g.closed \in BOOLEAN /\ h.closed \in BOOLEAN
  BY <1>1 DEF HandType
<1>8. g.highest = h.highest
  <2>1. /\ g.highest \in Nat /\ h.highest \in Nat
        /\ \A s \in Seats : h.streetPaid[s] \in Nat
        /\ \A s \in Seats : g.streetPaid[s] <= g.highest /\ h.streetPaid[s] <= h.highest
    BY <1>1 DEF HandType, ChipsOK
  <2>2. PICK s \in Seats : g.streetPaid[s] = g.highest
    BY <1>1 DEF ChipsOK
  <2>3. PICK t \in Seats : h.streetPaid[t] = h.highest
    BY <1>1 DEF ChipsOK
  <2>4. g.highest <= h.highest /\ h.highest <= g.highest
    BY <2>1, <2>2, <2>3
  <2>5. QED
    BY <2>1, <2>4
<1>9. QED
  BY <1>2, <1>6, <1>7, <1>8

\* What is done at the table can be done at the solver's, ...
LEMMA FollowsAccepts ==
  ASSUME NEW stacks, NEW g, NEW chips, NEW h, HandOK(h, chips), NEW a, NEW b, NEW left,
         Follows(g, h, stacks, a, b, left),
         NEW e, NEW n, Acts(h, e, n), Live(n) = {a, b},
         \A s \in {a, b} : n.streetPaid[s] <= left
  PROVE  /\ Acts(g, e, Applied(g, e)) /\ e.kind # "FOLD"
         /\ e.kind = "CALL" => e.to = CallTarget(g, Actor(g))
<1>1. /\ Accepts(h, e) /\ e \in HandEvents /\ e.kind \in Kinds /\ e.to \in Nat \cup {NoAmount}
      /\ e = [kind |-> e.kind, seat |-> e.seat, to |-> e.to]
  BY DEF Acts, HandEvents
<1>2. /\ HandOK(g, stacks) /\ Between(h, a, b) /\ SameBets(g, h) /\ left \in Nat
      /\ ShortHas(h, a, b, left) /\ \A s \in {a, b} : g.streetPaid[s] + g.remaining[s] = left
      /\ \A s \in Seats : s # a /\ s # b => h.streetPaid[s] = 0
  BY DEF Follows
<1>3. /\ ~h.closed /\ ~h.terminal /\ e.seat = Actor(h) /\ e.seat \in Seats
      /\ e.seat \in Eligible(h) /\ Effect(h, e, n)
      /\ h \in HandType /\ ChipsOK(h, chips)
  BY ActFacts
<1>4. PICK x \in {a, b} : x = e.seat /\ x \in Seats
  BY <1>2, <1>3 DEF Eligible, Between
<1>5. ~g.closed /\ Actor(g) = x /\ Actor(h) = x
  BY <1>2, <1>3, <1>4 DEF SameBets
<1>6. e = Event(h, e.kind, e.to) /\ e = Event(g, e.kind, e.to)
  BY <1>1, <1>4, <1>5 DEF Event
<1>7. e.kind # "FOLD"
  <2>1. e.kind = "FOLD" => x \in n.folded
    BY <1>3, <1>4 DEF Effect
  <2>2. x \in Live(n)
    BY <1>4
  <2>3. QED
    BY <2>1, <2>2 DEF Live
<1>8. PICK paid, mine, his, top, full :
        /\ paid = h.streetPaid[x] /\ mine = MaxTarget(h, x) /\ his = MaxTarget(g, x)
        /\ top = h.highest /\ full = h.lastFullRaise
  OBVIOUS
<1>9. /\ paid \in Nat /\ top \in Nat /\ full \in Nat /\ paid <= top /\ mine \in Nat
      /\ left <= mine /\ his = left /\ paid <= left /\ top <= left
      /\ g.streetPaid[x] = paid /\ g.highest = top /\ g.lastFullRaise = full
      /\ Facing(h, x) = top - paid /\ Facing(g, x) = top - paid
  <2>1. /\ paid \in Nat /\ top \in Nat /\ full \in Nat /\ paid <= top
        /\ h.remaining[x] \in Nat
    BY <1>3, <1>4, <1>8 DEF HandType, ChipsOK
  <2>2. /\ left <= paid + h.remaining[x] /\ paid <= left
        /\ g.streetPaid[x] = paid /\ g.highest = top /\ g.lastFullRaise = full
        /\ g.streetPaid[x] + g.remaining[x] = left
    BY <1>2, <1>4, <1>8 DEF ShortHas, SameBets
  <2>3. top <= left
    <3>1. PICK s \in Seats : h.streetPaid[s] = top
      BY <1>3, <1>8 DEF ChipsOK
    <3>2. s \in {a, b} => h.streetPaid[s] <= left
      BY <1>2 DEF ShortHas
    <3>3. s \notin {a, b} => h.streetPaid[s] = 0
      BY <1>2
    <3>4. QED
      BY <1>2, <3>1, <3>2, <3>3
  <2>4. QED
    BY <1>8, <2>1, <2>2, <2>3 DEF MaxTarget, Facing
<1>10. e.kind \in Wagers => e.to \in Nat /\ e.to <= left
  BY <1>3, <1>4 DEF Effect
<1>11. MayRaise(h, x) <=> MayRaise(g, x)
  BY <1>2 DEF SameBets, MayRaise
<1>12. Lesser(top, mine) = top /\ Lesser(top, his) = top
  BY <1>2, <1>9 DEF Lesser
<1>13. CallTarget(h, x) = top /\ CallTarget(g, x) = top
  BY <1>8, <1>9, <1>12 DEF CallTarget
<1>14. ASSUME NEW to, to = e.to
       PROVE  /\ Accepts(h, Event(h, "CHECK", to)) => Accepts(g, Event(g, "CHECK", to))
              /\ Accepts(h, Event(h, "CALL", to)) => Accepts(g, Event(g, "CALL", to))
              /\ Accepts(h, Event(h, "CALL", to)) => to = top
              /\ to \in Nat /\ to <= left =>
                   /\ Accepts(h, Event(h, "BET_TO", to)) => Accepts(g, Event(g, "BET_TO", to))
                   /\ Accepts(h, Event(h, "RAISE_TO", to)) => Accepts(g, Event(g, "RAISE_TO", to))
                   /\ Accepts(h, Event(h, "ALL_IN_TO", to)) => Accepts(g, Event(g, "ALL_IN_TO", to))
  <2>1. /\ Accepts(h, Event(h, "CHECK", to)) <=> to = NoAmount /\ top - paid = 0
        /\ Accepts(h, Event(h, "CALL", to)) <=> top - paid > 0 /\ to = top
        /\ Accepts(h, Event(h, "BET_TO", to)) <=>
              top = 0 /\ to > paid /\ to <= mine /\ to - paid >= BigBlind
        /\ Accepts(h, Event(h, "RAISE_TO", to)) <=>
              top > 0 /\ MayRaise(h, x) /\ to > top /\ to <= mine /\ to - top >= full
        /\ Accepts(h, Event(h, "ALL_IN_TO", to)) <=>
              to = mine /\ to > paid /\ (to > top => MayRaise(h, x))
    BY <1>3, <1>4, <1>8, <1>9, <1>13, AcceptsCases
  <2>2. /\ Accepts(g, Event(g, "CHECK", to)) <=> to = NoAmount /\ top - paid = 0
        /\ Accepts(g, Event(g, "CALL", to)) <=> top - paid > 0 /\ to = top
        /\ Accepts(g, Event(g, "BET_TO", to)) <=>
              top = 0 /\ to > paid /\ to <= his /\ to - paid >= BigBlind
        /\ Accepts(g, Event(g, "RAISE_TO", to)) <=>
              top > 0 /\ MayRaise(g, x) /\ to > top /\ to <= his /\ to - top >= full
        /\ Accepts(g, Event(g, "ALL_IN_TO", to)) <=>
              to = his /\ to > paid /\ (to > top => MayRaise(g, x))
    <3>1. /\ HandOK(g, stacks) /\ ~g.closed /\ x = Actor(g)
          /\ g.highest = top /\ g.lastFullRaise = full /\ g.streetPaid[x] = paid
          /\ MaxTarget(g, x) = his /\ CallTarget(g, x) = top /\ Facing(g, x) = top - paid
      BY <1>2, <1>5, <1>8, <1>9, <1>13
    <3>2. QED
      BY <3>1, AcceptsCases
  <2>3. QED
    BY <1>2, <1>9, <1>11, <2>1, <2>2
<1>15. Accepts(g, e) /\ (e.kind = "CALL" => e.to = top)
  <2>1. PICK kind, to : kind = e.kind /\ to = e.to
    OBVIOUS
  <2>2. kind \in Wagers => to \in Nat /\ to <= left
    BY <1>10, <2>1
  <2>3. Accepts(h, Event(h, kind, to)) /\ kind \in Kinds /\ kind # "FOLD"
    BY <1>1, <1>6, <1>7, <2>1
  <2>4. Accepts(g, Event(g, kind, to)) /\ (kind = "CALL" => to = top)
    BY <1>14, <2>1, <2>2, <2>3 DEF Kinds, Wagers
  <2>5. QED
    BY <1>6, <2>1, <2>4
<1>16. QED
  BY <1>1, <1>5, <1>7, <1>13, <1>15 DEF Acts

\* ... and makes the same of both.
LEMMA SameEffect ==
  ASSUME NEW g, NEW h, NEW e, NEW k, NEW n, NEW x, x = e.seat, NEW left,
         Effect(g, e, k), Effect(h, e, n), Reopens(g, e, k), Reopens(h, e, n),
         g \in HandType, h \in HandType, k \in HandType, n \in HandType,
         e.kind # "FOLD", x \in Seats,
         g.highest = h.highest, g.lastFullRaise = h.lastFullRaise, g.acted = h.acted,
         g.street = h.street,
         \A s \in Seats : g.streetPaid[s] = h.streetPaid[s] /\ g.totalPaid[s] = h.totalPaid[s]
  PROVE  /\ k.street = n.street /\ k.acted = n.acted /\ k.lastFullRaise = n.lastFullRaise
         /\ Live(k) = Live(g) /\ Live(n) = Live(h)
         /\ \A s \in Seats : /\ k.streetPaid[s] = n.streetPaid[s]
                             /\ k.totalPaid[s] = n.totalPaid[s]
                             /\ k.streetPaid[s] + k.remaining[s] = g.streetPaid[s] + g.remaining[s]
                             /\ n.streetPaid[s] + n.remaining[s] = h.streetPaid[s] + h.remaining[s]
                             /\ s # x => n.streetPaid[s] = h.streetPaid[s]
                             /\ n.remaining[s] <= h.remaining[s]
<1>1. k.street = n.street /\ Live(k) = Live(g) /\ Live(n) = Live(h)
  BY DEF Effect, Live
<1>2. /\ \A s \in Seats : /\ g.streetPaid[s] \in Nat /\ g.remaining[s] \in Nat
                          /\ h.streetPaid[s] \in Nat /\ h.remaining[s] \in Nat
                          /\ n.streetPaid[s] \in Nat /\ n.remaining[s] \in Nat
      /\ h.highest \in Nat /\ h.lastFullRaise \in Nat
      /\ k.highest \in Nat /\ n.highest \in Nat
  BY DEF HandType
<1>3. ASSUME NEW s \in Seats
      PROVE  /\ k.streetPaid[s] = n.streetPaid[s] /\ k.totalPaid[s] = n.totalPaid[s]
             /\ k.streetPaid[s] + k.remaining[s] = g.streetPaid[s] + g.remaining[s]
             /\ n.streetPaid[s] + n.remaining[s] = h.streetPaid[s] + h.remaining[s]
             /\ s # x => n.streetPaid[s] = h.streetPaid[s]
             /\ n.remaining[s] <= h.remaining[s]
  <2>1. CASE s # x
    BY <1>2, <2>1 DEF Effect
  <2>2. CASE s = x /\ e.kind \notin Wagers
    BY <1>2, <2>2 DEF Effect
  <2>3. CASE s = x /\ e.kind \in Wagers
    <3>1. /\ e.to \in Nat /\ e.to > h.streetPaid[x]
          /\ k.streetPaid[x] = e.to /\ n.streetPaid[x] = e.to
          /\ k.remaining[x] = MaxTarget(g, x) - e.to /\ n.remaining[x] = MaxTarget(h, x) - e.to
          /\ k.totalPaid[x] = g.totalPaid[x] + (e.to - g.streetPaid[x])
          /\ n.totalPaid[x] = h.totalPaid[x] + (e.to - h.streetPaid[x])
      BY <2>3 DEF Effect
    <3>2. QED
      BY <1>2, <2>3, <3>1 DEF MaxTarget
  <2>4. QED
    BY <2>1, <2>2, <2>3
<1>4. k.acted = n.acted /\ k.lastFullRaise = n.lastFullRaise
  <2>1. PICK raises \in BOOLEAN :
          raises <=> /\ e.kind \in Wagers /\ e.to > h.highest
                     /\ e.kind = "ALL_IN_TO" => e.to - h.highest >= h.lastFullRaise
    OBVIOUS
  <2>2. e.kind \notin Wagers => k.highest = h.highest /\ n.highest = h.highest
    BY DEF Effect
  <2>3. e.kind \in Wagers => e.to \in Nat
    BY DEF Effect
  <2>4. CASE raises
    <3>1. /\ k.acted = {x} /\ k.lastFullRaise = k.highest - h.highest /\ k.highest = e.to
          /\ n.acted = {x} /\ n.lastFullRaise = n.highest - h.highest /\ n.highest = e.to
      BY <1>2, <2>1, <2>3, <2>4 DEF Reopens
    <3>2. QED
      BY <3>1
  <2>5. CASE ~raises
    <3>1. /\ k.acted = g.acted \cup {x} /\ k.lastFullRaise = g.lastFullRaise
          /\ n.acted = h.acted \cup {x} /\ n.lastFullRaise = h.lastFullRaise
      BY <1>2, <2>1, <2>2, <2>3, <2>5 DEF Reopens
    <3>2. QED
      BY <3>1
  <2>6. QED
    BY <2>4, <2>5
<1>5. QED
  BY <1>1, <1>3, <1>4

LEMMA FollowsAct ==
  ASSUME NEW stacks, NEW g, NEW chips, NEW h, HandOK(h, chips), NEW a, NEW b, NEW left,
         Follows(g, h, stacks, a, b, left),
         NEW e, NEW n, Acts(h, e, n), Live(n) = {a, b},
         \A s \in {a, b} : n.streetPaid[s] <= left
  PROVE  /\ PlayedOn(g, StepOf(e)) = Applied(g, e)
         /\ Follows(Applied(g, e), n, stacks, a, b, left)
<1>1. PICK k : k = Applied(g, e)
  OBVIOUS
<1>2. /\ HandOK(g, stacks) /\ Unsettled(g) /\ Between(g, a, b) /\ Between(h, a, b)
      /\ SameBets(g, h) /\ left \in Nat /\ ShortHas(h, a, b, left)
      /\ \A s \in {a, b} : g.streetPaid[s] + g.remaining[s] = left
      /\ \A s \in Seats : s # a /\ s # b => h.streetPaid[s] = 0
  BY DEF Follows
<1>3. Acts(g, e, k) /\ e.kind # "FOLD" /\ (e.kind = "CALL" => e.to = CallTarget(g, Actor(g)))
  BY <1>1, FollowsAccepts
<1>4. PlayedOn(g, StepOf(e)) = k
  BY <1>1, <1>2, <1>3, PlayedEvent DEF Acts
<1>5. PICK x : x = e.seat
  OBVIOUS
<1>6. /\ HandOK(k, stacks) /\ Effect(g, e, k) /\ g \in HandType /\ k \in HandType
      /\ Reopens(g, e, k) /\ Unsettled(k)
  BY <1>2, <1>3, ActFacts, ActReopens, ActUnsettles
<1>7. /\ HandOK(n, chips) /\ Effect(h, e, n) /\ h \in HandType /\ n \in HandType
      /\ Reopens(h, e, n) /\ Unsettled(n) /\ x \in Seats /\ x \in Eligible(h) /\ ~h.closed
  BY <1>5, ActFacts, ActReopens, ActUnsettles
<1>8. /\ k.street = n.street /\ k.acted = n.acted /\ k.lastFullRaise = n.lastFullRaise
      /\ Live(k) = Live(g) /\ Live(n) = Live(h)
      /\ \A s \in Seats : /\ k.streetPaid[s] = n.streetPaid[s]
                          /\ k.totalPaid[s] = n.totalPaid[s]
                          /\ k.streetPaid[s] + k.remaining[s] = g.streetPaid[s] + g.remaining[s]
                          /\ n.streetPaid[s] + n.remaining[s] = h.streetPaid[s] + h.remaining[s]
                          /\ s # x => n.streetPaid[s] = h.streetPaid[s]
  <2>1. /\ g.highest = h.highest /\ g.lastFullRaise = h.lastFullRaise /\ g.acted = h.acted
        /\ g.street = h.street
        /\ \A s \in Seats : g.streetPaid[s] = h.streetPaid[s] /\ g.totalPaid[s] = h.totalPaid[s]
    BY <1>2 DEF SameBets
  <2>2. QED
    BY <1>3, <1>5, <1>6, <1>7, <2>1, SameEffect
<1>9. x \in {a, b} /\ a \in Seats /\ b \in Seats /\ Between(k, a, b) /\ Between(n, a, b)
  BY <1>2, <1>7, <1>8 DEF Between, Eligible
<1>10. /\ \A s \in {a, b} : k.streetPaid[s] + k.remaining[s] = left
       /\ \A s \in Seats : s # a /\ s # b => n.streetPaid[s] = 0
  BY <1>2, <1>8, <1>9
<1>11. ShortHas(n, a, b, left)
  <2>1. \A s \in {a, b} : n.streetPaid[s] + n.remaining[s] = h.streetPaid[s] + h.remaining[s]
    BY <1>8, <1>9
  <2>2. QED
    BY <1>2, <2>1 DEF ShortHas
<1>12. k.closed = n.closed /\ k.highest = n.highest
  <2>1. \A s \in Seats : k.streetPaid[s] = n.streetPaid[s]
    BY <1>8
  <2>2. QED
    BY <1>2, <1>6, <1>7, <1>8, <1>9, <1>10, <1>11, <2>1, FollowsCloses
<1>13. ~n.closed => Actor(k) = Actor(n)
  <2>1. PICK y \in {a, b} : y # x
    BY <1>2, <1>9 DEF Between
  <2>2. Between(k, x, y) /\ Between(n, x, y)
    BY <1>9, <2>1 DEF Between
  <2>3. ~Waits(k, x) /\ ~Waits(n, x)
    BY <1>5, <1>6, <1>7 DEF Effect
  <2>4. ~n.closed => Actor(k) = y /\ Actor(n) = y
    BY <1>6, <1>7, <1>12, <2>2, <2>3, OtherActs
  <2>5. QED
    BY <2>4
<1>14. SameBets(k, n)
  BY <1>8, <1>12, <1>13 DEF SameBets
<1>15. QED
  BY <1>1, <1>2, <1>4, <1>6, <1>9, <1>10, <1>11, <1>14 DEF Follows

\* A card is dealt at both tables at once.
LEMMA FollowsDeal ==
  ASSUME NEW stacks, NEW g, NEW chips, NEW h, HandOK(h, chips), Unsettled(h),
         NEW a, NEW b, NEW left, Follows(g, h, stacks, a, b, left), After(a) < After(b),
         NEW n, Deals(h, n)
  PROVE  /\ PlayedOn(g, Unsized("DEAL")) = AppliedDeal(g, Button)
         /\ h.streetPaid[a] \in Nat /\ h.streetPaid[b] = h.streetPaid[a]
         /\ Follows(AppliedDeal(g, Button), n, stacks, a, b, left - h.streetPaid[a])
<1>1. PICK k, paid : k = AppliedDeal(g, Button) /\ paid = h.streetPaid[a]
  OBVIOUS
<1>2. /\ HandOK(g, stacks) /\ Unsettled(g) /\ Between(g, a, b) /\ Between(h, a, b)
      /\ SameBets(g, h) /\ left \in Nat /\ ShortHas(h, a, b, left)
      /\ \A s \in {a, b} : g.streetPaid[s] + g.remaining[s] = left
      /\ \A s \in Seats : s # a /\ s # b => h.streetPaid[s] = 0
  BY DEF Follows
<1>3. /\ HandOK(n, chips) /\ h \in HandType /\ n \in HandType /\ h.closed /\ ~h.terminal
      /\ h.street \in 1..4 /\ h.street < 4 /\ n.street = h.street + 1
      /\ n.remaining = h.remaining /\ n.totalPaid = h.totalPaid /\ n.folded = h.folded
      /\ n.highest = 0 /\ n.lastFullRaise = BigBlind /\ Unsettled(n)
      /\ \A s \in Seats : n.streetPaid[s] = 0
  BY StreetFacts, DealUnsettles DEF Deals, AcceptsDeal
<1>4. Deals(g, k)
  <2>1. g.closed /\ g.street < 4 /\ g.street # 4
    BY <1>2, <1>3 DEF SameBets
  <2>2. Cardinality(Live(g)) = 2
    BY <1>2, BetweenTwo
  <2>3. ~g.terminal
    BY <1>2, <2>1, <2>2 DEF Unsettled
  <2>4. QED
    BY <1>1, <2>1, <2>3 DEF Deals, AcceptsDeal
<1>5. /\ HandOK(k, stacks) /\ g \in HandType /\ k \in HandType /\ k.street = g.street + 1
      /\ k.remaining = g.remaining /\ k.totalPaid = g.totalPaid /\ k.folded = g.folded
      /\ k.highest = 0 /\ k.lastFullRaise = BigBlind /\ Unsettled(k)
      /\ \A s \in Seats : k.streetPaid[s] = 0
  BY <1>2, <1>4, StreetFacts, DealUnsettles
<1>6. PlayedOn(g, Unsized("DEAL")) = k
  <2>1. Unsized("DEAL").kind = "DEAL"
    BY DEF Unsized
  <2>2. QED
    BY <1>1, <1>2, <1>4, <2>1, PlayedOnFacts DEF Deals
<1>7. h.streetPaid[b] = paid
  <2>1. /\ \A s \in Seats : g.streetPaid[s] = h.streetPaid[s]
        /\ g.acted = h.acted
    BY <1>2 DEF SameBets
  <2>2. QED
    BY <1>1, <1>2, <1>3, <2>1, FollowsCloses
<1>8. a \in Seats /\ b \in Seats /\ paid \in Nat /\ paid <= left /\ left - paid \in Nat
  <2>1. a \in Seats /\ b \in Seats /\ paid \in Nat /\ paid <= left
    BY <1>1, <1>2, <1>3 DEF Between, ShortHas, HandType
  <2>2. QED
    BY <1>2, <2>1
<1>9. Between(k, a, b) /\ Between(n, a, b)
  BY <1>2, <1>3, <1>5 DEF Between, Live
<1>10. /\ \A s \in {a, b} : k.streetPaid[s] + k.remaining[s] = left - paid
       /\ ShortHas(n, a, b, left - paid)
  <2>1. /\ \A s \in {a, b} : h.streetPaid[s] = paid /\ g.streetPaid[s] = paid
        /\ \A s \in {a, b} : h.remaining[s] \in Nat /\ g.remaining[s] \in Nat
    BY <1>1, <1>2, <1>3, <1>5, <1>7, <1>8 DEF SameBets, HandType
  <2>2. \A s \in {a, b} : k.streetPaid[s] = 0 /\ n.streetPaid[s] = 0
    BY <1>3, <1>5, <1>8
  <2>3. \A s \in {a, b} : k.streetPaid[s] + k.remaining[s] = left - paid
    BY <1>2, <1>5, <1>8, <2>1, <2>2
  <2>4. \A s \in {a, b} : paid + h.remaining[s] = left => n.streetPaid[s] + n.remaining[s] = left - paid
    BY <1>2, <1>3, <1>8, <2>1, <2>2
  <2>5. \E s \in {a, b} : paid + h.remaining[s] = left
    BY <1>2, <2>1 DEF ShortHas
  <2>6. \A s \in {a, b} : /\ n.streetPaid[s] <= left - paid
                          /\ left - paid <= n.streetPaid[s] + n.remaining[s]
    BY <1>2, <1>3, <1>8, <2>1, <2>2 DEF ShortHas
  <2>7. QED
    BY <2>3, <2>4, <2>5, <2>6 DEF ShortHas
<1>11. /\ k.acted = {} /\ (~k.closed => Actor(k) = a)
       /\ n.acted = {} /\ (~n.closed => Actor(n) = a)
  BY <1>2, <1>3, <1>4, <1>5, <1>9, FirstToAct
<1>12. k.closed = n.closed
  <2>1. /\ \A s \in Seats : k.streetPaid[s] = n.streetPaid[s]
        /\ \A s \in Seats : s # a /\ s # b => n.streetPaid[s] = 0
    BY <1>3, <1>5
  <2>2. PICK rest \in Nat : rest = left - paid
    BY <1>8
  <2>3. /\ ShortHas(n, a, b, rest) /\ k.acted = n.acted
        /\ \A s \in {a, b} : k.streetPaid[s] + k.remaining[s] = rest
    BY <1>10, <1>11, <2>2
  <2>4. HandOK(k, stacks) /\ Unsettled(k) /\ HandOK(n, chips) /\ Unsettled(n)
    BY <1>3, <1>5
  <2>5. QED
    BY <1>9, <2>1, <2>3, <2>4, FollowsCloses
<1>13. SameBets(k, n)
  BY <1>2, <1>3, <1>5, <1>11, <1>12 DEF SameBets
<1>14. \A s \in Seats : s # a /\ s # b => n.streetPaid[s] = 0
  BY <1>3
<1>15. QED
  BY <1>1, <1>5, <1>6, <1>7, <1>8, <1>9, <1>10, <1>13, <1>14 DEF Follows

\* On the flop both tables start, if both players have chips.
LEMMA FollowsRoot ==
  ASSUME NEW chips, NEW h, HandOK(h, chips), NEW n, Deals(h, n),
         NEW a, NEW b, Between(n, a, b), After(a) < After(b),
         NEW most, most = Lesser(n.remaining[a], n.remaining[b]), most > 0
  PROVE  Follows(TwoHanded(n, <<a, b>>, most), n, [s \in Seats |-> most + n.totalPaid[s]],
                 a, b, most)
<1>1. PICK g, stacks : /\ g = TwoHanded(n, <<a, b>>, most)
                       /\ stacks = [s \in Seats |-> most + n.totalPaid[s]]
  OBVIOUS
<1>2. /\ HandOK(n, chips) /\ n \in HandType /\ n.highest = 0 /\ n.lastFullRaise = BigBlind
      /\ Unsettled(n) /\ \A s \in Seats : n.streetPaid[s] = 0
  BY StreetFacts, DealUnsettles
<1>3. a \in Seats /\ b \in Seats /\ a # b
  BY DEF Between
<1>4. /\ n.remaining[a] \in Nat /\ n.remaining[b] \in Nat /\ most \in Nat \ {0}
      /\ most <= n.remaining[a] /\ most <= n.remaining[b]
      /\ most = n.remaining[a] \/ most = n.remaining[b]
  <2>1. n.remaining[a] \in Nat /\ n.remaining[b] \in Nat
    BY <1>2, <1>3 DEF HandType
  <2>2. QED
    BY <2>1 DEF Lesser
<1>5. /\ HandOK(g, stacks) /\ Unsettled(g) /\ Between(g, a, b) /\ Actor(g) = a /\ ~g.closed
      /\ g.street = n.street /\ g.totalPaid = n.totalPaid
      /\ g.highest = 0 /\ g.lastFullRaise = BigBlind /\ g.acted = {}
      /\ \A s \in Seats : g.streetPaid[s] = 0 /\ g.remaining[s] = most
  BY <1>1, <1>2, <1>3, <1>4, RootFacts
<1>6. n.acted = {} /\ (~n.closed => Actor(n) = a)
  BY <1>2, FirstToAct
<1>7. /\ ShortHas(n, a, b, most) /\ \A s \in {a, b} : g.streetPaid[s] + g.remaining[s] = most
  BY <1>2, <1>3, <1>4, <1>5 DEF ShortHas
<1>8. g.closed = n.closed
  <2>1. /\ \A s \in Seats : g.streetPaid[s] = n.streetPaid[s]
        /\ \A s \in Seats : s # a /\ s # b => n.streetPaid[s] = 0
        /\ most \in Nat /\ g.acted = n.acted
    BY <1>2, <1>4, <1>5, <1>6
  <2>2. QED
    BY <1>2, <1>5, <1>7, <2>1, FollowsCloses
<1>9. SameBets(g, n)
  BY <1>2, <1>5, <1>6, <1>8 DEF SameBets
<1>10. QED
  BY <1>1, <1>2, <1>4, <1>5, <1>7, <1>9 DEF Follows

-----------------------------------------------------------------------------
(* The hand since the flop, as the solver is told it.                      *)

\* Two players see the flop, both with chips; the hand is still between them,
\* and neither has put in more than the shorter had.
SeenByTwo(root, h, a, b, most) ==
  /\ Between(root, a, b) /\ After(a) < After(b) /\ Live(h) = Live(root)
  /\ most = Lesser(root.remaining[a], root.remaining[b]) /\ most > 0
  /\ \A s \in {a, b} : root.remaining[s] - h.remaining[s] <= most

Retold(root, steps, h) ==
  \A a, b, most : SeenByTwo(root, h, a, b, most) =>
    \E left : /\ Follows(Played(TwoHanded(root, <<a, b>>, most), steps), h,
                         [s \in Seats |-> most + root.totalPaid[s]], a, b, left)
              /\ \A s \in {a, b} :
                   root.remaining[s] - (h.remaining[s] + h.streetPaid[s]) = most - left

\* The chips of the two, in numbers.
LEMMA TwoChips ==
  ASSUME NEW chips, NEW root, HandOK(root, chips), NEW h, NEW a, NEW b, NEW most,
         SeenByTwo(root, h, a, b, most)
  PROVE  /\ a \in Seats /\ b \in Seats /\ most \in Nat /\ Live(h) = {a, b}
         /\ \A s \in {a, b} : root.remaining[s] \in Nat /\ most <= root.remaining[s]
<1>1. a \in Seats /\ b \in Seats /\ Live(h) = {a, b} /\ root \in HandType
  BY DEF SeenByTwo, Between, HandOK
<1>2. root.remaining[a] \in Nat /\ root.remaining[b] \in Nat
  BY <1>1 DEF HandType
<1>3. QED
  BY <1>1, <1>2 DEF SeenByTwo, Lesser

LEMMA RetoldAct ==
  ASSUME NEW chips, NEW root, HandOK(root, chips), NEW h, HandOK(h, chips),
         root.folded \subseteq h.folded, NEW T, NEW steps \in Seq(T), Retold(root, steps, h),
         NEW e, NEW n, Acts(h, e, n), StepOf(e) \in T
  PROVE  Retold(root, Append(steps, StepOf(e)), n)
<1>1. SUFFICES ASSUME NEW a, NEW b, NEW most, SeenByTwo(root, n, a, b, most)
               PROVE  \E left :
                        /\ Follows(Played(TwoHanded(root, <<a, b>>, most), Append(steps, StepOf(e))),
                                   n, [s \in Seats |-> most + root.totalPaid[s]], a, b, left)
                        /\ \A s \in {a, b} :
                             root.remaining[s] - (n.remaining[s] + n.streetPaid[s]) = most - left
  BY DEF Retold
<1>2. /\ a \in Seats /\ b \in Seats /\ most \in Nat /\ Live(n) = {a, b}
      /\ \A s \in {a, b} : root.remaining[s] \in Nat /\ most <= root.remaining[s]
  BY <1>1, TwoChips
<1>3. /\ Effect(h, e, n) /\ h \in HandType /\ n \in HandType /\ e.seat \in Seats
      /\ ~h.closed /\ e.kind \in Kinds
  BY ActFacts
<1>4. \A s \in Seats : /\ n.remaining[s] + n.streetPaid[s] = h.remaining[s] + h.streetPaid[s]
                       /\ n.remaining[s] <= h.remaining[s]
                       /\ n.remaining[s] \in Nat /\ h.remaining[s] \in Nat
                       /\ n.streetPaid[s] \in Nat /\ h.streetPaid[s] \in Nat
  <2>1. ASSUME NEW s \in Seats
        PROVE  /\ n.remaining[s] \in Nat /\ h.remaining[s] \in Nat
               /\ n.streetPaid[s] \in Nat /\ h.streetPaid[s] \in Nat
    BY <1>3 DEF HandType
  <2>2. ASSUME NEW s \in Seats
        PROVE  /\ n.remaining[s] + n.streetPaid[s] = h.remaining[s] + h.streetPaid[s]
               /\ n.remaining[s] <= h.remaining[s]
    <3>1. CASE s # e.seat
      BY <1>3, <2>1, <3>1 DEF Effect
    <3>2. CASE s = e.seat /\ e.kind \notin Wagers
      BY <1>3, <2>1, <3>2 DEF Effect
    <3>3. CASE s = e.seat /\ e.kind \in Wagers
      <4>1. /\ e.to \in Nat /\ e.to > h.streetPaid[s] /\ n.streetPaid[s] = e.to
            /\ n.remaining[s] = MaxTarget(h, s) - e.to
        BY <1>3, <3>3 DEF Effect
      <4>2. QED
        BY <2>1, <4>1 DEF MaxTarget
    <3>4. QED
      BY <3>1, <3>2, <3>3
  <2>3. QED
    BY <2>1, <2>2
<1>5. SeenByTwo(root, h, a, b, most)
  <2>1. Live(h) = Live(root)
    <3>1. h.folded \subseteq n.folded
      BY <1>3 DEF Effect
    <3>2. QED
      BY <1>1, <3>1 DEF SeenByTwo, Live
  <2>2. \A s \in {a, b} : root.remaining[s] - h.remaining[s] <= most
    <3>1. \A s \in {a, b} : root.remaining[s] - n.remaining[s] <= most
      BY <1>1 DEF SeenByTwo
    <3>2. QED
      BY <1>2, <1>4, <3>1
  <2>3. QED
    BY <1>1, <2>1, <2>2 DEF SeenByTwo
<1>6. PICK g, stacks : /\ g = Played(TwoHanded(root, <<a, b>>, most), steps)
                       /\ stacks = [s \in Seats |-> most + root.totalPaid[s]]
  OBVIOUS
<1>7. PICK left : /\ Follows(g, h, stacks, a, b, left)
                  /\ \A s \in {a, b} :
                       root.remaining[s] - (h.remaining[s] + h.streetPaid[s]) = most - left
  BY <1>5, <1>6 DEF Retold
<1>8. \A s \in {a, b} : n.streetPaid[s] <= left
  <2>1. left \in Nat
    BY <1>7 DEF Follows
  <2>2. ASSUME NEW s \in {a, b} PROVE n.streetPaid[s] <= left
    <3>1. root.remaining[s] - n.remaining[s] <= most
      BY <1>1 DEF SeenByTwo
    <3>2. root.remaining[s] - (h.remaining[s] + h.streetPaid[s]) = most - left
      BY <1>7
    <3>3. /\ n.remaining[s] + n.streetPaid[s] = h.remaining[s] + h.streetPaid[s]
          /\ n.remaining[s] \in Nat /\ h.remaining[s] \in Nat
          /\ n.streetPaid[s] \in Nat /\ h.streetPaid[s] \in Nat
          /\ root.remaining[s] \in Nat /\ most \in Nat
      BY <1>2, <1>4
    <3>4. QED
      BY <2>1, <3>1, <3>2, <3>3
  <2>3. QED
    BY <2>2
<1>9. PlayedOn(g, StepOf(e)) = Applied(g, e) /\ Follows(Applied(g, e), n, stacks, a, b, left)
  BY <1>2, <1>7, <1>8, FollowsAct
<1>10. Played(TwoHanded(root, <<a, b>>, most), Append(steps, StepOf(e))) = Applied(g, e)
  BY <1>6, <1>9, PlayedAppend
<1>11. \A s \in {a, b} : root.remaining[s] - (n.remaining[s] + n.streetPaid[s]) = most - left
  BY <1>2, <1>4, <1>7
<1>12. QED
  BY <1>6, <1>9, <1>10, <1>11

LEMMA RetoldDeal ==
  ASSUME NEW chips, NEW root, HandOK(root, chips), NEW h, HandOK(h, chips), Unsettled(h),
         NEW T, NEW steps \in Seq(T), Retold(root, steps, h),
         NEW n, Deals(h, n), Unsized("DEAL") \in T
  PROVE  Retold(root, Append(steps, Unsized("DEAL")), n)
<1>1. SUFFICES ASSUME NEW a, NEW b, NEW most, SeenByTwo(root, n, a, b, most)
               PROVE  \E left :
                        /\ Follows(Played(TwoHanded(root, <<a, b>>, most), Append(steps, Unsized("DEAL"))),
                                   n, [s \in Seats |-> most + root.totalPaid[s]], a, b, left)
                        /\ \A s \in {a, b} :
                             root.remaining[s] - (n.remaining[s] + n.streetPaid[s]) = most - left
  BY DEF Retold
<1>2. /\ a \in Seats /\ b \in Seats /\ most \in Nat /\ Live(n) = {a, b}
      /\ \A s \in {a, b} : root.remaining[s] \in Nat /\ most <= root.remaining[s]
  BY <1>1, TwoChips
<1>3. /\ h \in HandType /\ n.remaining = h.remaining /\ n.folded = h.folded
      /\ \A s \in Seats : n.streetPaid[s] = 0
  BY StreetFacts
<1>4. SeenByTwo(root, h, a, b, most)
  BY <1>1, <1>3 DEF SeenByTwo, Live
<1>5. PICK g, stacks : /\ g = Played(TwoHanded(root, <<a, b>>, most), steps)
                       /\ stacks = [s \in Seats |-> most + root.totalPaid[s]]
  OBVIOUS
<1>6. PICK left : /\ Follows(g, h, stacks, a, b, left)
                  /\ \A s \in {a, b} :
                       root.remaining[s] - (h.remaining[s] + h.streetPaid[s]) = most - left
  BY <1>4, <1>5 DEF Retold
<1>7. /\ PlayedOn(g, Unsized("DEAL")) = AppliedDeal(g, Button)
      /\ h.streetPaid[a] \in Nat /\ h.streetPaid[b] = h.streetPaid[a]
      /\ Follows(AppliedDeal(g, Button), n, stacks, a, b, left - h.streetPaid[a])
  BY <1>4, <1>6, FollowsDeal DEF SeenByTwo
<1>8. /\ Played(TwoHanded(root, <<a, b>>, most), Append(steps, Unsized("DEAL")))
           = AppliedDeal(g, Button)
  BY <1>5, <1>7, PlayedAppend
<1>9. \A s \in {a, b} : root.remaining[s] - (n.remaining[s] + n.streetPaid[s])
                          = most - (left - h.streetPaid[a])
  <2>1. left \in Nat
    BY <1>6 DEF Follows
  <2>2. ASSUME NEW s \in {a, b}
        PROVE  root.remaining[s] - (n.remaining[s] + n.streetPaid[s])
                 = most - (left - h.streetPaid[a])
    <3>1. /\ s \in Seats /\ h.remaining[s] \in Nat /\ h.streetPaid[s] = h.streetPaid[a]
          /\ h.streetPaid[a] \in Nat
      BY <1>2, <1>3, <1>7 DEF HandType
    <3>2. n.remaining[s] = h.remaining[s] /\ n.streetPaid[s] = 0
      BY <1>3, <3>1
    <3>3. root.remaining[s] - (h.remaining[s] + h.streetPaid[s]) = most - left
      BY <1>6
    <3>4. root.remaining[s] \in Nat /\ most \in Nat
      BY <1>2
    <3>5. PICK r, x, y : r = root.remaining[s] /\ x = h.remaining[s] /\ y = h.streetPaid[a]
      OBVIOUS
    <3>6. /\ r - (x + y) = most - left /\ n.remaining[s] = x /\ n.streetPaid[s] = 0
          /\ r \in Nat /\ x \in Nat /\ y \in Nat
      BY <3>1, <3>2, <3>3, <3>4, <3>5
    <3>7. r - (x + 0) = most - (left - y)
      BY <2>1, <3>4, <3>6
    <3>8. QED
      BY <3>5, <3>6, <3>7
  <2>3. QED
    BY <2>2
<1>10. QED
  BY <1>5, <1>7, <1>8, <1>9

LEMMA RetoldRoot ==
  ASSUME NEW chips, NEW h, HandOK(h, chips), NEW n, Deals(h, n)
  PROVE  Retold(n, <<>>, n)
<1>1. SUFFICES ASSUME NEW a, NEW b, NEW most, SeenByTwo(n, n, a, b, most)
               PROVE  \E left :
                        /\ Follows(Played(TwoHanded(n, <<a, b>>, most), <<>>),
                                   n, [s \in Seats |-> most + n.totalPaid[s]], a, b, left)
                        /\ \A s \in {a, b} :
                             n.remaining[s] - (n.remaining[s] + n.streetPaid[s]) = most - left
  BY DEF Retold
<1>2. HandOK(n, chips) /\ \A s \in Seats : n.streetPaid[s] = 0
  BY StreetFacts
<1>3. /\ a \in Seats /\ b \in Seats /\ most \in Nat /\ Live(n) = {a, b}
      /\ \A s \in {a, b} : n.remaining[s] \in Nat /\ most <= n.remaining[s]
  BY <1>1, <1>2, TwoChips
<1>4. Played(TwoHanded(n, <<a, b>>, most), <<>>) = TwoHanded(n, <<a, b>>, most)
  BY PlayedNothing
<1>5. Follows(TwoHanded(n, <<a, b>>, most), n, [s \in Seats |-> most + n.totalPaid[s]],
              a, b, most)
  BY <1>1, FollowsRoot DEF SeenByTwo
<1>6. \A s \in {a, b} : n.remaining[s] - (n.remaining[s] + n.streetPaid[s]) = most - most
  BY <1>2, <1>3
<1>7. QED
  BY <1>4, <1>5, <1>6

\* The solver is told what was done, in the order it was.
LEMMA PathGrows ==
  ASSUME NEW S, NEW done \in Seq(S), NEW e, NEW T, \A d \in S : StepOf(d) \in T
  PROVE  LET told(d) == [i \in DOMAIN d |-> StepOf(d[i])]
         IN  told(done) \in Seq(T) /\ told(Append(done, e)) = Append(told(done), StepOf(e))
<1> DEFINE told(d) == [i \in DOMAIN d |-> StepOf(d[i])]
<1>1. PICK n \in Nat : n = Len(done) /\ DOMAIN done = 1..n
  OBVIOUS
<1>2. PICK longer : longer = Append(done, e)
  OBVIOUS
<1>3. /\ DOMAIN longer = 1 .. n + 1 /\ longer[n + 1] = e
      /\ \A i \in 1..n : longer[i] = done[i] /\ done[i] \in S
  BY <1>1, <1>2
<1>4. /\ told(done) \in Seq(T) /\ Len(told(done)) = n
      /\ \A i \in 1..n : told(done)[i] = StepOf(done[i])
  <2>1. told(done) = [i \in 1..n |-> StepOf(done[i])]
    BY <1>1
  <2>2. \A i \in 1..n : StepOf(done[i]) \in T
    BY <1>3
  <2>3. QED
    BY <1>1, <2>1, <2>2
<1>5. told(longer) = [i \in 1 .. n + 1 |-> StepOf(longer[i])]
  BY <1>3
<1>6. PICK x, short : x = StepOf(e) /\ short = told(done)
  OBVIOUS
<1>7. Append(short, x) = [i \in 1 .. n + 1 |-> IF i = n + 1 THEN x ELSE short[i]]
  BY <1>1, <1>4, <1>6
<1>8. \A i \in 1 .. n + 1 : StepOf(longer[i]) = IF i = n + 1 THEN x ELSE short[i]
  <2>1. \A i \in 1 .. n + 1 : i = n + 1 \/ i \in 1..n
    BY <1>1
  <2>2. QED
    BY <1>3, <1>4, <1>6, <2>1
<1>9. told(longer) = Append(short, x)
  BY <1>5, <1>7, <1>8
<1>10. QED
  BY <1>2, <1>4, <1>6, <1>9

\* After the flop: the chips that were bet, and the hand as it is retold.  The
\* three names stand for what the variables are now.
AskedInv ==
  /\ \E S : path \in Seq(S)
  /\ hand.street = 1 => path = <<>>
  /\ hand.street > 1 =>
       /\ Unsettled(hand) /\ BigBlind <= hand.lastFullRaise /\ ShortIsAllIn(hand)
       /\ flop.folded \subseteq hand.folded
       /\ \E root, steps, h : /\ root = flop /\ steps = PathFromHistory /\ h = hand
                             /\ Retold(root, steps, h)

LEMMA AskedInit == SpotInit => AskedInv
<1>1. SUFFICES ASSUME SpotInit PROVE AskedInv
  OBVIOUS
<1>2. path = <<>> /\ hand.street = 1
  BY <1>1, SpotInitKeeps DEF SpotInit
<1>3. path \in Seq({})
  BY <1>2
<1>4. QED
  BY <1>2, <1>3 DEF AskedInv

LEMMA AskedAct ==
  ASSUME SpotInv, AskedInv, NEW event \in Events(hand), PlayEvent(event)
  PROVE  AskedInv'
<1>1. PICK g : g = Applied(hand, event)
  OBVIOUS
<1>2. HandOK(hand, start) /\ (hand.street > 1 => HandOK(flop, start))
  BY DEF SpotInv, HandSeen
<1>3. Acts(hand, event, g) /\ g.street = hand.street /\ hand.street \in Nat /\ Effect(hand, event, g)
  BY <1>1, <1>2, EventsFacts, ActFacts
<1>4. hand' = g /\ flop' = flop /\ path' = IF hand.street > 1 THEN Append(path, event) ELSE path
  BY <1>1 DEF PlayEvent
<1>5. PICK S : path \in Seq(S)
  BY DEF AskedInv
<1>6. CASE ~(hand.street > 1)
  BY <1>3, <1>4, <1>5, <1>6 DEF AskedInv
<1>7. CASE hand.street > 1
  <2>1. PICK T : T = {StepOf(d) : d \in S \cup {event}}
    OBVIOUS
  <2>2. StepOf(event) \in T /\ \A d \in S : StepOf(d) \in T
    BY <2>1
  <2>3. PICK steps : steps = PathFromHistory
    OBVIOUS
  <2>4. PICK all : all = S \cup {event}
    OBVIOUS
  <2>5. path \in Seq(all) /\ event \in all
    BY <1>5, <2>4
  <2>6. path' = Append(path, event) /\ path' \in Seq(all)
    BY <1>4, <1>7, <2>5
  <2>7. steps \in Seq(T) /\ PathFromHistory' = Append(steps, StepOf(event))
    <3>1. PathFromHistory' = [i \in DOMAIN Append(path, event) |-> StepOf(Append(path, event)[i])]
      BY <2>6 DEF PathFromHistory
    <3>2. steps = [i \in DOMAIN path |-> StepOf(path[i])]
      BY <2>3 DEF PathFromHistory
    <3>3. QED
      BY <1>5, <2>2, <3>1, <3>2, PathGrows
  <2>8. /\ Unsettled(hand) /\ BigBlind <= hand.lastFullRaise /\ ShortIsAllIn(hand)
        /\ flop.folded \subseteq hand.folded /\ Retold(flop, steps, hand)
    BY <1>7, <2>3 DEF AskedInv
  <2>9. Unsettled(g) /\ BigBlind <= g.lastFullRaise /\ ShortIsAllIn(g)
    BY <1>2, <1>3, <2>8, ActUnsettles, FullKeeps, ShortKeeps
  <2>10. flop.folded \subseteq g.folded
    BY <1>3, <2>8 DEF Effect
  <2>11. Retold(flop, Append(steps, StepOf(event)), g)
    BY <1>2, <1>3, <1>7, <2>2, <2>7, <2>8, RetoldAct
  <2>12. \E root, now, h : /\ root = flop' /\ now = PathFromHistory' /\ h = hand'
                          /\ Retold(root, now, h)
    BY <1>4, <2>7, <2>11
  <2>13. QED
    BY <1>3, <1>4, <1>7, <2>6, <2>9, <2>10, <2>12 DEF AskedInv
<1>8. QED
  BY <1>6, <1>7

LEMMA AskedDeal ==
  ASSUME SpotInv, AskedInv, DealNextStreet
  PROVE  AskedInv'
<1>1. PICK g, deal : g = AppliedDeal(hand, Button) /\ deal = [kind |-> "DEAL"]
  OBVIOUS
<1>2. HandOK(hand, start) /\ (hand.street > 1 => HandOK(flop, start))
  BY DEF SpotInv, HandSeen
<1>3. Deals(hand, g) /\ hand.street \in 1..4 /\ g.street = hand.street + 1
  <2>1. Deals(hand, g)
    BY <1>1 DEF DealNextStreet, Deals
  <2>2. QED
    BY <1>2, <2>1, StreetIsNat, StreetFacts
<1>4. /\ hand' = g /\ flop' = (IF hand.street = 1 THEN g ELSE flop)
      /\ path' = (IF hand.street = 1 THEN path ELSE Append(path, deal))
  BY <1>1 DEF DealNextStreet
<1>5. /\ Unsettled(g) /\ g.lastFullRaise = BigBlind /\ g.highest = 0 /\ g.folded = hand.folded
  BY <1>2, <1>3, DealUnsettles, StreetFacts
<1>6. BigBlind <= g.lastFullRaise /\ ShortIsAllIn(g) /\ g.street > 1 /\ g.street # 1
  BY <1>3, <1>5, ReplayAssumption DEF ShortIsAllIn, ShortBet
<1>7. PICK S : path \in Seq(S)
  BY DEF AskedInv
<1>8. CASE hand.street = 1
  <2>1. path = <<>> /\ path' = <<>> /\ flop' = g
    BY <1>4, <1>8 DEF AskedInv
  <2>2. PathFromHistory' = <<>>
    BY <2>1 DEF PathFromHistory
  <2>3. Retold(g, <<>>, g)
    BY <1>2, <1>3, RetoldRoot
  <2>4. \E root, now, h : /\ root = flop' /\ now = PathFromHistory' /\ h = hand'
                         /\ Retold(root, now, h)
    BY <1>4, <2>1, <2>2, <2>3
  <2>5. QED
    BY <1>4, <1>5, <1>6, <1>7, <2>1, <2>4 DEF AskedInv
<1>9. CASE hand.street # 1
  <2>1. hand.street > 1
    BY <1>3, <1>9
  <2>2. PICK T : T = {StepOf(d) : d \in S \cup {deal}}
    OBVIOUS
  <2>3. StepOf(deal) = Unsized("DEAL")
    BY <1>1, StepOfCases
  <2>4. Unsized("DEAL") \in T /\ \A d \in S : StepOf(d) \in T
    BY <2>2, <2>3
  <2>5. PICK steps : steps = PathFromHistory
    OBVIOUS
  <2>6. PICK all : all = S \cup {deal}
    OBVIOUS
  <2>7. path \in Seq(all) /\ deal \in all
    BY <1>7, <2>6
  <2>8. path' = Append(path, deal) /\ path' \in Seq(all) /\ flop' = flop
    BY <1>4, <1>9, <2>7
  <2>9. steps \in Seq(T) /\ PathFromHistory' = Append(steps, Unsized("DEAL"))
    <3>1. PathFromHistory' = [i \in DOMAIN Append(path, deal) |-> StepOf(Append(path, deal)[i])]
      BY <2>8 DEF PathFromHistory
    <3>2. steps = [i \in DOMAIN path |-> StepOf(path[i])]
      BY <2>5 DEF PathFromHistory
    <3>3. QED
      BY <1>7, <2>3, <2>4, <3>1, <3>2, PathGrows
  <2>10. Unsettled(hand) /\ flop.folded \subseteq hand.folded /\ Retold(flop, steps, hand)
    BY <2>1, <2>5 DEF AskedInv
  <2>11. Retold(flop, Append(steps, Unsized("DEAL")), g)
    BY <1>2, <1>3, <2>1, <2>4, <2>9, <2>10, RetoldDeal
  <2>12. \E root, now, h : /\ root = flop' /\ now = PathFromHistory' /\ h = hand'
                          /\ Retold(root, now, h)
    BY <1>4, <2>8, <2>9, <2>11
  <2>13. QED
    BY <1>4, <1>5, <1>6, <2>8, <2>10, <2>12 DEF AskedInv
<1>10. QED
  BY <1>8, <1>9

LEMMA AskedStep ==
  ASSUME SpotInv, AskedInv, [SpotNext]_spotVars
  PROVE  AskedInv'
<1>1. ASSUME NEW reading \in Readings, TakeFrame(reading) PROVE AskedInv'
  <2>1. hand' = hand /\ flop' = flop /\ path' = path
    BY <1>1 DEF TakeFrame
  <2>2. PathFromHistory' = PathFromHistory
    BY <2>1 DEF PathFromHistory
  <2>3. QED
    BY <2>1, <2>2 DEF AskedInv
<1>2. CASE UNCHANGED spotVars
  <2>1. hand' = hand /\ flop' = flop /\ path' = path
    BY <1>2 DEF spotVars
  <2>2. PathFromHistory' = PathFromHistory
    BY <2>1 DEF PathFromHistory
  <2>3. QED
    BY <2>1, <2>2 DEF AskedInv
<1>3. QED
  BY <1>1, <1>2, AskedAct, AskedDeal DEF SpotNext

LEMMA AskedInvariant == SpotSpec => [](SpotInv /\ AskedInv)
<1>1. SpotInit => SpotInv /\ AskedInv
  BY SpotInitKeeps, AskedInit
<1>2. (SpotInv /\ AskedInv) /\ [SpotNext]_spotVars => (SpotInv /\ AskedInv)'
  BY SpotStepKeeps, AskedStep
<1>3. QED
  BY <1>1, <1>2, PTL DEF SpotSpec

-----------------------------------------------------------------------------
(* The question of a whole hand is about the hand.                         *)

\* The solver's hand, of Hero and the other.
LEMMA FollowedDecision ==
  ASSUME SpotInv, Asked, NEW g, NEW stacks, NEW a, NEW b, NEW left,
         Follows(g, hand, stacks, a, b, left)
  PROVE  /\ g # Broken /\ Actor(g) = hero /\ Facing(g, hero) = Facing(hand, hero)
         /\ Total(g.totalPaid) = Total(hand.totalPaid)
<1>1. HandOK(hand, start) /\ Actor(hand) = hero /\ hero \in Seats /\ LeastRaise(hand)
  BY AskedFacts
<1>2. ~hand.closed
  BY <1>1, HeroFacts
<1>3. HandOK(g, stacks) /\ SameBets(g, hand)
  BY DEF Follows
<1>4. g # Broken
  BY <1>3, PlayedOnFacts
<1>5. Actor(g) = hero
  BY <1>1, <1>2, <1>3 DEF SameBets
<1>6. Facing(g, hero) = Facing(hand, hero)
  BY <1>1, <1>3 DEF SameBets, Facing
<1>7. g.totalPaid = hand.totalPaid
  <2>1. g.totalPaid \in [Seats -> Nat] /\ hand.totalPaid \in [Seats -> Nat]
    BY <1>1, <1>3 DEF HandOK, HandType
  <2>2. \A s \in Seats : g.totalPaid[s] = hand.totalPaid[s]
    BY <1>3 DEF SameBets
  <2>3. QED
    BY <2>1, <2>2
<1>8. QED
  BY <1>4, <1>5, <1>6, <1>7

\* Two seats that a player of them is in, in the order they act.
LEMMA PairOfTwo ==
  ASSUME NEW x \in Seats, NEW y \in Seats, x # y
  PROVE  \E a, b : /\ {a, b} = {x, y} /\ a \in Seats /\ b \in Seats /\ a # b
                   /\ After(a) < After(b) /\ OrderedAfter(0, {x, y}) = <<a, b>>
<1>1. CASE After(x) < After(y)
  BY <1>1, OrderedPair
<1>2. CASE After(y) < After(x)
  <2>1. {y, x} = {x, y}
    OBVIOUS
  <2>2. OrderedAfter(0, {x, y}) = <<y, x>>
    BY <1>2, <2>1, OrderedPair
  <2>3. QED
    BY <1>2, <2>1, <2>2
<1>3. QED
  BY <1>1, <1>2, OneIsFirst

LEMMA HandIsAsked ==
  ASSUME SpotInv, AskedInv, Asked, hand.street > 1, NEW mode,
         NEW st, TableState(st), HandSpec(st, mode).asked
  PROVE  ReachesDecision(flop, HandSpec(st, mode), FlopPair, Total(hand.totalPaid))
<1>1. NoSpec.asked = FALSE
  BY DEF NoSpec
<1>2. PICK spec : spec = BuildContinuationSpec(st)
  OBVIOUS
<1>3. spec.asked /\ AcceptedContinuation(spec) /\ HandSpec(st, mode) = spec
  BY <1>1, <1>2 DEF HandSpec
<1>4. PICK pair : pair = FlopPair
  OBVIOUS
<1>5. /\ Cardinality(Live(flop)) = 2 /\ Live(hand) = Live(flop)
      /\ spec.actor = IF hero = pair[1] THEN "OOP" ELSE "IP"
      /\ spec.pot = Total(flop.totalPaid)
      /\ spec.effective = Lesser(flop.remaining[pair[1]], flop.remaining[pair[2]])
      /\ spec.facing = Facing(hand, hero) /\ spec.path = PathFromHistory
      /\ spec.invested = [i \in 1..2 |-> flop.remaining[pair[i]] - hand.remaining[pair[i]]]
  BY <1>2, <1>3, <1>4, ContinuationFields
<1>6. PICK v \in Seats : Live(hand) \ {hero} = {v}
  BY <1>2, <1>3, ContinuationFacts
<1>7. hero \in Seats /\ hero \in Live(hand) /\ HandOK(hand, start) /\ Actor(hand) = hero
  BY AskedFacts, HeroIsLive
<1>8. Live(flop) = {hero, v} /\ hero # v
  BY <1>5, <1>6, <1>7
<1>9. PICK a, b : /\ {a, b} = {hero, v} /\ a \in Seats /\ b \in Seats /\ a # b
                  /\ After(a) < After(b) /\ OrderedAfter(0, {hero, v}) = <<a, b>>
  BY <1>7, <1>8, PairOfTwo
<1>10. pair = <<a, b>>
  BY <1>4, <1>5, <1>8, <1>9 DEF FlopPair
<1>11. PICK most : most = spec.effective
  OBVIOUS
<1>12. SeenByTwo(flop, hand, a, b, most)
  <2>1. Between(flop, a, b) /\ Live(hand) = Live(flop)
    BY <1>5, <1>8, <1>9 DEF Between
  <2>2. most = Lesser(flop.remaining[a], flop.remaining[b])
    BY <1>5, <1>10, <1>11
  <2>3. most > 0 /\ spec.invested[1] <= most /\ spec.invested[2] <= most
    BY <1>3, <1>11 DEF AcceptedContinuation
  <2>4. /\ spec.invested[1] = flop.remaining[a] - hand.remaining[a]
        /\ spec.invested[2] = flop.remaining[b] - hand.remaining[b]
    BY <1>5, <1>10
  <2>5. \A s \in {a, b} : flop.remaining[s] - hand.remaining[s] <= most
    BY <2>3, <2>4
  <2>6. QED
    BY <1>9, <2>1, <2>2, <2>3, <2>5 DEF SeenByTwo
<1>13. PICK end : end = Played(TwoHanded(flop, pair, most), spec.path)
  OBVIOUS
<1>14. Retold(flop, PathFromHistory, hand)
  BY DEF AskedInv
<1>15. PICK left : Follows(end, hand, [s \in Seats |-> most + flop.totalPaid[s]], a, b, left)
  BY <1>5, <1>10, <1>12, <1>13, <1>14 DEF Retold
<1>16. /\ end # Broken /\ Actor(end) = hero /\ Facing(end, hero) = Facing(hand, hero)
       /\ Total(end.totalPaid) = Total(hand.totalPaid)
  BY <1>15, FollowedDecision
<1>17. (spec.actor = "OOP") = (hero = pair[1])
  BY <1>5
<1>18. spec.pot + Total(end.totalPaid) - Total(flop.totalPaid) = Total(hand.totalPaid)
  <2>1. Total(hand.totalPaid) \in Nat /\ Total(flop.totalPaid) \in Nat
    <3>1. HandOK(flop, start)
      BY DEF SpotInv
    <3>2. hand.totalPaid \in [Seats -> Nat] /\ flop.totalPaid \in [Seats -> Nat]
      BY <1>7, <3>1 DEF HandOK, HandType
    <3>3. QED
      BY <3>2, TotalType
  <2>2. QED
    BY <1>5, <1>16, <2>1
<1>19. QED
  BY <1>3, <1>4, <1>5, <1>11, <1>13, <1>16, <1>17, <1>18 DEF ReachesDecision

-----------------------------------------------------------------------------
(* The question of one street is about the hand.                           *)

\* What a sum of differences is.
LEMMA TotalMinus ==
  ASSUME NEW high \in [Seats -> Nat], NEW low \in [Seats -> Nat], NEW left,
         \A s \in Seats : left[s] \in Nat /\ high[s] = left[s] + low[s]
  PROVE  Total(high) = Total(left) + Total(low)
<1>0. Players \in Nat /\ Seats = 0 .. Players - 1
  BY ReplayAssumption DEF Seats
<1>1. PICK f : /\ Total(high) = f[Players] /\ f[0] = 0
               /\ \A n \in 1..Players : f[n] = f[n - 1] + high[n - 1]
  BY TotalFacts
<1>2. PICK g : /\ Total(low) = g[Players] /\ g[0] = 0
               /\ \A n \in 1..Players : g[n] = g[n - 1] + low[n - 1]
  BY TotalFacts
<1>3. PICK k : /\ Total(left) = k[Players] /\ k[0] = 0
               /\ \A n \in 1..Players : k[n] = k[n - 1] + left[n - 1]
  BY TotalFacts
<1> DEFINE B == {n \in 0..Players : ~(g[n] \in Nat /\ k[n] \in Nat /\ f[n] = k[n] + g[n])}
<1>4. SUFFICES ASSUME B # {} PROVE FALSE
  BY <1>0, <1>1, <1>2, <1>3
<1>5. PICK n \in B : \A m \in B : n <= m
  <2> HIDE DEF B
  <2>1. B \subseteq Nat
    BY DEF B
  <2>2. QED
    BY <1>4, <2>1, LeastNumber
<1>6. n \in 0..Players /\ ~(g[n] \in Nat /\ k[n] \in Nat /\ f[n] = k[n] + g[n]) /\ n # 0
  BY <1>1, <1>2, <1>3
<1>7. n - 1 \in 0..Players /\ ~(n <= n - 1) /\ n \in 1..Players /\ n - 1 \in Seats
  BY <1>0, <1>6
<1>8. g[n - 1] \in Nat /\ k[n - 1] \in Nat /\ f[n - 1] = k[n - 1] + g[n - 1]
  BY <1>5, <1>7
<1>9. PICK x, y, z : x = high[n - 1] /\ y = low[n - 1] /\ z = left[n - 1]
  OBVIOUS
<1>10. y \in Nat /\ z \in Nat /\ x = z + y
  BY <1>7, <1>9
<1>11. f[n] = f[n - 1] + x /\ g[n] = g[n - 1] + y /\ k[n] = k[n - 1] + z
  BY <1>1, <1>2, <1>3, <1>7, <1>9
<1>12. QED
  BY <1>6, <1>8, <1>10, <1>11

\* The solver's hand before anything is bet, x to act and y after that.
Untouched(g, stacks, x, y, most) ==
  /\ HandOK(g, stacks) /\ Unsettled(g) /\ Between(g, x, y)
  /\ ~g.closed /\ Actor(g) = x
  /\ most \in Nat \ {0} /\ g.highest = 0 /\ g.acted \subseteq {y}
  /\ \A s \in Seats : g.streetPaid[s] = 0
  /\ g.remaining[x] = most /\ g.remaining[y] = most

\* A check leaves it to the other.
LEMMA UntouchedCheck ==
  ASSUME NEW stacks, NEW g, NEW x, NEW y, NEW most, Untouched(g, stacks, x, y, most),
         g.acted = {}
  PROVE  \E k : /\ k = PlayedOn(g, Unsized("CHECK")) /\ Untouched(k, stacks, y, x, most)
                /\ \A s \in Seats : k.totalPaid[s] = g.totalPaid[s]
<1>1. /\ HandOK(g, stacks) /\ Unsettled(g) /\ x \in Seats /\ y \in Seats /\ x # y
      /\ Live(g) = {x, y} /\ ~g.closed /\ Actor(g) = x /\ most \in Nat \ {0}
      /\ g.highest = 0 /\ \A s \in Seats : g.streetPaid[s] = 0
      /\ g.remaining[x] = most /\ g.remaining[y] = most
  BY DEF Untouched, Between
<1>2. PICK e : e = Event(g, "CHECK", NoAmount)
  OBVIOUS
<1>3. e.kind = "CHECK" /\ e.seat = x /\ e \in HandEvents
  BY <1>1, <1>2 DEF Event, HandEvents, Kinds
<1>4. Accepts(g, e)
  <2>1. Facing(g, x) = 0
    BY <1>1 DEF Facing
  <2>2. QED
    BY <1>1, <1>2, <2>1, AcceptsCases
<1>5. PICK k : k = Applied(g, e)
  OBVIOUS
<1>6. k = PlayedOn(g, Unsized("CHECK"))
  <2>1. SolverEvent(g, Unsized("CHECK")) = e /\ Unsized("CHECK").kind # "DEAL"
    BY <1>2, SolverEvents DEF Unsized
  <2>2. QED
    BY <1>1, <1>4, <1>5, <2>1, PlayedOnFacts
<1>7. Acts(g, e, k)
  BY <1>3, <1>4, <1>5 DEF Acts
<1>8. /\ HandOK(k, stacks) /\ Effect(g, e, k) /\ k \in HandType /\ g \in HandType
      /\ Reopens(g, e, k) /\ Unsettled(k)
  BY <1>1, <1>7, ActFacts, ActReopens, ActUnsettles
<1>9. e.kind \notin Wagers /\ e.kind # "FOLD"
  BY <1>3 DEF Wagers
<1>10. /\ k.highest = 0 /\ k.folded = g.folded /\ ~Waits(k, x)
       /\ \A s \in Seats : /\ k.streetPaid[s] = 0 /\ k.remaining[s] = g.remaining[s]
                           /\ k.totalPaid[s] = g.totalPaid[s]
  BY <1>1, <1>3, <1>8, <1>9 DEF Effect
<1>11. Between(k, x, y) /\ Between(k, y, x)
  BY <1>1, <1>10 DEF Between, Live
<1>12. k.acted = {x}
  <2>1. ~(k.highest > g.highest)
    BY <1>1, <1>10
  <2>2. QED
    BY <1>1, <1>3, <1>8, <1>10, <2>1 DEF Reopens
<1>13. ~k.closed
  <2>1. /\ \A s \in Seats : s # x /\ s # y => k.streetPaid[s] = 0
        /\ \A s \in {x, y} : k.streetPaid[s] <= most /\ most <= k.streetPaid[s] + k.remaining[s]
        /\ \E s \in {x, y} : k.streetPaid[s] + k.remaining[s] = most
    BY <1>1, <1>10
  <2>2. k.closed <=> /\ k.streetPaid[x] = k.streetPaid[y]
                     /\ k.streetPaid[x] = most \/ {x, y} \subseteq k.acted
    BY <1>1, <1>8, <1>11, <2>1, SettledRound
  <2>3. QED
    BY <1>1, <1>10, <1>12, <2>2
<1>14. Actor(k) = y
  BY <1>8, <1>10, <1>11, <1>13, OtherActs
<1>15. Untouched(k, stacks, y, x, most)
  BY <1>1, <1>8, <1>10, <1>11, <1>12, <1>13, <1>14 DEF Untouched
<1>16. QED
  BY <1>6, <1>10, <1>15

\* A first bet leaves the other to answer it.
LEMMA UntouchedBet ==
  ASSUME NEW stacks, NEW g, NEW x, NEW y, NEW most, Untouched(g, stacks, x, y, most),
         NEW bet \in Nat \ {0}, bet <= most, bet >= BigBlind \/ bet = most
  PROVE  \E k : /\ k = PlayedOn(g, Sized(IF bet = most THEN "ALL-IN" ELSE "BET", bet))
                /\ HandOK(k, stacks) /\ Actor(k) = y /\ Facing(k, y) = bet
                /\ k.totalPaid[x] = g.totalPaid[x] + bet
                /\ \A s \in Seats : s # x => k.totalPaid[s] = g.totalPaid[s]
<1>1. /\ HandOK(g, stacks) /\ Unsettled(g) /\ x \in Seats /\ y \in Seats /\ x # y
      /\ Live(g) = {x, y} /\ ~g.closed /\ Actor(g) = x /\ most \in Nat \ {0}
      /\ g.highest = 0 /\ \A s \in Seats : g.streetPaid[s] = 0
      /\ g.remaining[x] = most /\ g.remaining[y] = most /\ x \notin g.acted
  BY DEF Untouched, Between
<1>2. PICK kind, e : /\ kind = (IF bet = most THEN "ALL_IN_TO" ELSE "BET_TO")
                     /\ e = Event(g, kind, bet)
  OBVIOUS
<1>3. /\ e.kind = kind /\ e.seat = x /\ e.to = bet /\ e \in HandEvents /\ kind \in Wagers
      /\ kind # "FOLD"
  BY <1>1, <1>2 DEF Event, HandEvents, Kinds, Wagers
<1>4. Accepts(g, e)
  <2>1. MaxTarget(g, x) = most /\ g.streetPaid[x] = 0 /\ BigBlind \in Nat
    BY <1>1, ReplayAssumption DEF MaxTarget
  <2>2. CASE bet = most
    <3>1. MayRaise(g, x)
      BY <1>1 DEF MayRaise
    <3>2. bet = MaxTarget(g, x) /\ bet > g.streetPaid[x]
      BY <2>1, <2>2
    <3>3. Accepts(g, Event(g, "ALL_IN_TO", bet))
      BY <1>1, <3>1, <3>2, AcceptsCases
    <3>4. QED
      BY <1>2, <2>2, <3>3
  <2>3. CASE bet # most
    <3>1. /\ bet > g.streetPaid[x] /\ bet <= MaxTarget(g, x)
          /\ bet - g.streetPaid[x] >= BigBlind
      BY <2>1, <2>3
    <3>2. Accepts(g, Event(g, "BET_TO", bet))
      BY <1>1, <3>1, AcceptsCases
    <3>3. QED
      BY <1>2, <2>3, <3>2
  <2>4. QED
    BY <2>2, <2>3
<1>5. PICK k : k = Applied(g, e)
  OBVIOUS
<1>6. k = PlayedOn(g, Sized(IF bet = most THEN "ALL-IN" ELSE "BET", bet))
  <2>1. PICK step : step = Sized(IF bet = most THEN "ALL-IN" ELSE "BET", bet)
    OBVIOUS
  <2>2. SolverEvent(g, step) = e /\ step.kind # "DEAL"
    <3>1. CASE bet = most
      BY <1>2, <2>1, <3>1, SolverEvents, SizedFacts
    <3>2. CASE bet # most
      BY <1>2, <2>1, <3>2, SolverEvents, SizedFacts
    <3>3. QED
      BY <3>1, <3>2
  <2>3. QED
    BY <1>1, <1>4, <1>5, <2>1, <2>2, PlayedOnFacts
<1>7. Acts(g, e, k)
  BY <1>3, <1>4, <1>5 DEF Acts
<1>8. /\ HandOK(k, stacks) /\ Effect(g, e, k) /\ k \in HandType /\ g \in HandType
      /\ Unsettled(k) /\ ChipsOK(k, stacks)
  BY <1>1, <1>7, ActFacts, ActUnsettles
<1>9. /\ k.folded = g.folded /\ ~Waits(k, x)
      /\ k.streetPaid[x] = bet /\ k.remaining[x] = most - bet
      /\ k.totalPaid[x] = g.totalPaid[x] + bet
      /\ \A s \in Seats : s # x => /\ k.streetPaid[s] = 0 /\ k.remaining[s] = g.remaining[s]
                                   /\ k.totalPaid[s] = g.totalPaid[s]
  <2>1. MaxTarget(g, x) = most
    BY <1>1 DEF MaxTarget
  <2>2. g.totalPaid[x] \in Nat
    BY <1>1, <1>8 DEF HandType
  <2>3. QED
    BY <1>1, <1>3, <1>8, <2>1, <2>2 DEF Effect
<1>10. Between(k, x, y)
  BY <1>1, <1>9 DEF Between, Live
<1>11. k.highest = bet
  <2>1. \E s \in Seats : k.streetPaid[s] = k.highest
    BY <1>8 DEF ChipsOK
  <2>2. k.streetPaid[x] <= k.highest /\ k.highest \in Nat
    BY <1>1, <1>8 DEF ChipsOK, HandType
  <2>3. QED
    BY <1>9, <2>1, <2>2
<1>12. ~k.closed
  <2>1. /\ \A s \in Seats : s # x /\ s # y => k.streetPaid[s] = 0
        /\ \A s \in {x, y} : k.streetPaid[s] <= most /\ most <= k.streetPaid[s] + k.remaining[s]
        /\ \E s \in {x, y} : k.streetPaid[s] + k.remaining[s] = most
    BY <1>1, <1>9
  <2>2. k.closed <=> /\ k.streetPaid[x] = k.streetPaid[y]
                     /\ k.streetPaid[x] = most \/ {x, y} \subseteq k.acted
    BY <1>1, <1>8, <1>10, <2>1, SettledRound
  <2>3. QED
    BY <1>1, <1>9, <2>2
<1>13. Actor(k) = y
  BY <1>8, <1>9, <1>10, <1>12, OtherActs
<1>14. Facing(k, y) = bet
  BY <1>1, <1>9, <1>11 DEF Facing
<1>15. QED
  BY <1>6, <1>8, <1>9, <1>13, <1>14

\* Of two players one is out of position.
LEMMA PositionOfTwo ==
  ASSUME NEW x \in Seats, NEW y \in Seats, x # y
  PROVE  RelativePosition(x, {y}) = "OOP" <=> After(x) < After(y)
<1>0. PICK others : others = {y}
  OBVIOUS
<1>1. PICK none \in BOOLEAN, before \in BOOLEAN, behind \in BOOLEAN :
        /\ none <=> others = {}
        /\ before <=> \A v \in others : After(x) < After(v)
        /\ behind <=> \A v \in others : After(x) > After(v)
  OBVIOUS
<1>2. RelativePosition(x, others) =
        CASE none -> "UNKNOWN" [] ~none /\ before -> "OOP" [] ~none /\ behind -> "IP"
          [] OTHER -> "SANDWICHED"
  BY <1>1, Zenon DEF RelativePosition, After
<1>3. ~none /\ (before <=> After(x) < After(y)) /\ (behind <=> After(y) < After(x))
  <2>1. After(x) \in Int /\ After(y) \in Int
    BY ReplayAssumption DEF After, Seats
  <2>2. QED
    BY <1>0, <1>1, <2>1
<1>4. ~(before /\ behind)
  <2>1. After(x) \in Int /\ After(y) \in Int
    BY ReplayAssumption DEF After, Seats
  <2>2. QED
    BY <1>3, <2>1
<1>5. CASE before
  <2>1. RelativePosition(x, others) = "OOP"
    BY <1>2, <1>3, <1>4, <1>5, Zenon
  <2>2. QED
    BY <1>0, <1>3, <1>5, <2>1
<1>6. CASE ~before
  <2>1. RelativePosition(x, others) = "IP" \/ RelativePosition(x, others) = "SANDWICHED"
    BY <1>2, <1>3, <1>6, Zenon
  <2>2. QED
    BY <1>0, <1>3, <1>6, <2>1
<1>7. QED
  BY <1>5, <1>6

\* Who is in the hand, and who is first, in the state that is asked about.
PlaceState(st) ==
  /\ st.villains = Cardinality(Live(hand) \ {hero})
  /\ st.oop <=> RelativePosition(hero, Live(hand) \ {hero}) = "OOP"

LEMMA PlaceFacts ==
  ASSUME SpotInv, Asked, NEW mode
  PROVE  PlaceState(StateFor(mode))
<1>1. PICK st, f : st = LiveState(frames) /\ f = Last(frames)
  OBVIOUS
<1>2. f.hand = hand
  BY <1>1, AskedFacts
<1>3. PICK villain, history, mine, his, bet, observed, root, seen, mapped :
        /\ villain = Villain(f)
        /\ history = ActionHistory(frames, villain, RelativePosition(hero, LiveIn(f) \ {hero}))
        /\ mapped = (history # Unmapped)
        /\ mine = IF hero = NoSeat THEN 0 ELSE Stack(f, hero) + Bet(f, hero)
        /\ his = IF villain = NoSeat THEN 0 ELSE Stack(f, villain) + Bet(f, villain)
        /\ bet = IF villain = NoSeat THEN 0 ELSE Bet(f, villain)
        /\ observed = IF history # Unmapped /\ CallAmount(f) > 0 THEN Bet(f, villain) ELSE 0
        /\ root = StreetRootConfirmed(frames)
        /\ seen = TerminalFromHistory(frames)
  OBVIOUS
<1>4. PICK oop \in BOOLEAN : oop <=> RelativePosition(hero, LiveIn(f) \ {hero}) = "OOP"
  OBVIOUS
<1>5. oop = (RelativePosition(hero, LiveIn(f) \ {hero}) = "OOP")
  BY <1>4
<1>6. st =
        [street |-> Street(f), villain |-> villain, oop |-> oop,
         villains |-> Cardinality(LiveIn(f) \ {hero}),
         pot |-> TotalPot(f) - Total(f.hand.streetPaid),
         heroStack |-> mine, villainStack |-> his,
         heroBet |-> Bet(f, hero), villainBet |-> bet,
         call |-> CallAmount(f), buttons |-> Buttons(f),
         rootConfirmed |-> root, history |-> history, mapped |-> mapped,
         observedBet |-> observed, observation |-> seen]
  BY <1>1, <1>3, <1>5, Zenon DEF LiveState
<1>7. st.oop = oop /\ st.villains = Cardinality(LiveIn(f) \ {hero})
  BY <1>6
<1>8. PlaceState(st)
  BY <1>2, <1>4, <1>7 DEF PlaceState, LiveIn
<1>9. ASSUME NEW o PROVE PlaceState([st EXCEPT !.observation = o])
  <2>1. PICK again : again = [st EXCEPT !.observation = o]
    OBVIOUS
  <2>2. again.oop = st.oop /\ again.villains = st.villains
    BY <1>6, <2>1
  <2>3. QED
    BY <1>8, <2>1, <2>2 DEF PlaceState
<1>10. \/ PositionContinuity(frames, st) = st
       \/ \E o : PositionContinuity(frames, st) = [st EXCEPT !.observation = o]
  BY DEF PositionContinuity
<1>11. PlaceState(PositionContinuity(frames, st))
  BY <1>8, <1>9, <1>10
<1>12. QED
  BY <1>1, <1>8, <1>11 DEF StateFor

\* The four histories of a street, in the order of its actions.
LEMMA HistoryCases ==
  ASSUME NEW st, SupportedHistory(st), st.call \in Nat,
         NEW bet, bet = st.observedBet,
         NEW step, step = Sized(IF bet = Effective(st) THEN "ALL-IN" ELSE "BET", bet)
  PROVE  \/ /\ st.call = 0 /\ st.villainBet = 0
            /\ \/ HistoryActions(st) = <<>> /\ st.oop
               \/ HistoryActions(st) = <<Unsized("CHECK")>> /\ ~st.oop
         \/ /\ st.call > 0 /\ st.villainBet = bet /\ st.call = bet /\ bet <= Effective(st)
            /\ \/ HistoryActions(st) = <<step>> /\ ~st.oop
               \/ HistoryActions(st) = <<Unsized("CHECK"), step>> /\ st.oop
<1>1. PICK oop \in BOOLEAN, confirmed \in BOOLEAN, untouched \in BOOLEAN, faced \in BOOLEAN :
        /\ (oop <=> st.oop) /\ (confirmed <=> st.rootConfirmed)
        /\ untouched <=> st.call = 0 /\ st.heroBet = 0 /\ st.villainBet = 0
        /\ faced <=> /\ st.observedBet > 0 /\ st.heroBet = 0
                     /\ st.villainBet = st.observedBet /\ st.call = st.observedBet
                     /\ st.observedBet <= Effective(st)
  OBVIOUS
<1>2. PICK h : h = st.history
  OBVIOUS
<1>3. \/ h = <<>> /\ oop /\ confirmed /\ untouched
      \/ h = <<"CHECK">> /\ ~oop /\ untouched
      \/ h = <<"BET">> /\ ~oop /\ faced
      \/ h = <<"CHECK", "BET">> /\ oop /\ faced
  BY <1>1, <1>2, Zenon DEF SupportedHistory
<1>4. HistoryActions(st) = [i \in DOMAIN h |-> IF h[i] = "CHECK" THEN Unsized("CHECK") ELSE step]
  BY <1>2 DEF HistoryActions
<1>5. PICK check : check = Unsized("CHECK")
  OBVIOUS
<1>6. HistoryActions(st) = [i \in DOMAIN h |-> IF h[i] = "CHECK" THEN check ELSE step]
  BY <1>4, <1>5
<1>7. /\ h = <<>> => HistoryActions(st) = <<>>
      /\ h = <<"CHECK">> => HistoryActions(st) = <<check>>
      /\ h = <<"BET">> => HistoryActions(st) = <<step>>
      /\ h = <<"CHECK", "BET">> => HistoryActions(st) = <<check, step>>
  BY <1>6
<1>8. untouched => st.call = 0 /\ st.villainBet = 0
  BY <1>1
<1>9. faced => st.call > 0 /\ st.villainBet = bet /\ st.call = bet /\ bet <= Effective(st)
  BY <1>1
<1>10. QED
  BY <1>1, <1>3, <1>5, <1>7, <1>8, <1>9

\* A bet in front of Hero is a big blind, or all that is at stake.
LEMMA BetIsBlindOrAll ==
  ASSUME SpotInv, Asked, ShortIsAllIn(hand), NEW v \in Seats, v # hero,
         hand.streetPaid[hero] = 0, \A s \in Seats \ {hero, v} : ~(hand.streetPaid[s] > 0),
         NEW bet \in Nat, bet > 0, hand.streetPaid[v] = bet,
         NEW most, Covered(most, v), bet <= most
  PROVE  bet >= BigBlind \/ bet = most
<1>1. hero \in Seats /\ hand \in HandType /\ ChipsOK(hand, start)
  BY AskedFacts DEF HandOK
<1>2. hand.highest = bet
  <2>1. PICK s \in Seats : hand.streetPaid[s] = hand.highest
    BY <1>1 DEF ChipsOK
  <2>2. hand.streetPaid[v] <= hand.highest /\ hand.highest \in Nat
    BY <1>1 DEF ChipsOK, HandType
  <2>3. s \in {hero, v}
    <3>1. hand.highest > 0
      BY <2>2
    <3>2. QED
      BY <2>1, <3>1
  <2>4. QED
    BY <2>1, <2>2, <2>3
<1>3. hand.remaining[v] \in Nat /\ hand.remaining[hero] \in Nat
  BY <1>1 DEF HandType
<1>4. CASE hand.remaining[v] > 0
  <2>1. hand.highest >= BigBlind
    BY <1>2, <1>4, FirstBetIsBlind
  <2>2. QED
    BY <1>2, <2>1
<1>5. CASE ~(hand.remaining[v] > 0)
  <2>1. ReplayedTarget(v) = bet /\ ReplayedTarget(hero) \in Nat
    BY <1>1, <1>3, <1>5 DEF ReplayedTarget
  <2>2. QED
    BY <2>1 DEF Covered, Lesser
<1>6. QED
  BY <1>4, <1>5

\* The chips in the middle, where the street starts and where it stands.
LEMMA PotOfStreet ==
  ASSUME SpotInv, Asked, NEW stacks, NEW g, HandOK(g, stacks),
         \A s \in Seats : g.totalPaid[s] = hand.totalPaid[s],
         NEW first, first = [s \in Seats |-> hand.totalPaid[s] - hand.streetPaid[s]]
  PROVE  Total(hand.totalPaid) - Total(hand.streetPaid) + Total(g.totalPaid) - Total(first)
           = Total(hand.totalPaid)
<1>1. hand \in HandType /\ g \in HandType /\ ChipsOK(hand, start)
  BY AskedFacts DEF HandOK
<1>2. /\ hand.totalPaid \in [Seats -> Nat] /\ hand.streetPaid \in [Seats -> Nat]
      /\ g.totalPaid \in [Seats -> Nat] /\ \A s \in Seats : hand.streetPaid[s] <= hand.totalPaid[s]
  BY <1>1 DEF HandType, ChipsOK
<1>3. \A s \in Seats : first[s] \in Nat /\ hand.totalPaid[s] = first[s] + hand.streetPaid[s]
  BY <1>2
<1>4. Total(hand.totalPaid) = Total(first) + Total(hand.streetPaid)
  BY <1>2, <1>3, TotalMinus
<1>5. first \in [Seats -> Nat]
  BY <1>3
<1>6. /\ Total(hand.totalPaid) \in Nat /\ Total(first) \in Nat /\ Total(hand.streetPaid) \in Nat
  BY <1>2, <1>5, TotalType
<1>7. g.totalPaid = hand.totalPaid
  BY <1>2
<1>8. PICK p, q, r, t : /\ p = Total(hand.totalPaid) /\ q = Total(first)
                        /\ r = Total(hand.streetPaid) /\ t = Total(g.totalPaid)
  OBVIOUS
<1>9. p = q + r /\ p \in Nat /\ q \in Nat /\ r \in Nat /\ t = p
  BY <1>4, <1>6, <1>7, <1>8
<1>10. p - r + t - q = p
  BY <1>9
<1>11. QED
  BY <1>8, <1>10

\* The root of the street: the chips that were in before it.
StreetRoot == [hand EXCEPT !.totalPaid = [s \in Seats |-> @[s] - hand.streetPaid[s]]]

LEMMA StreetRootFacts ==
  ASSUME SpotInv, Asked
  PROVE  /\ StreetRoot \in HandType
         /\ StreetRoot.totalPaid = [s \in Seats |-> hand.totalPaid[s] - hand.streetPaid[s]]
<1>1. hand \in HandType /\ ChipsOK(hand, start)
  BY AskedFacts DEF HandOK
<1>2. /\ hand.totalPaid \in [Seats -> Nat] /\ hand.streetPaid \in [Seats -> Nat]
      /\ \A s \in Seats : hand.streetPaid[s] <= hand.totalPaid[s]
  BY <1>1 DEF HandType, ChipsOK
<1>3. PICK first : first = [s \in Seats |-> hand.totalPaid[s] - hand.streetPaid[s]]
  OBVIOUS
<1>4. first \in [Seats -> Nat]
  BY <1>2, <1>3
<1>5. StreetRoot = [hand EXCEPT !.totalPaid = first]
  BY <1>1, <1>3 DEF StreetRoot, HandType
<1>6. QED
  BY <1>1, <1>3, <1>4, <1>5 DEF HandType

LEMMA PlayedTwo ==
  ASSUME NEW root, NEW x, NEW y, NEW first, first = PlayedOn(root, x),
         NEW second, second = PlayedOn(first, y), NEW told
  PROVE  /\ told = <<x>> => Played(root, told) = first
         /\ told = <<x, y>> => Played(root, told) = second
<1>1. PICK S : S = {x, y}
  OBVIOUS
<1>2. /\ <<>> \in Seq(S) /\ <<x>> \in Seq(S) /\ x \in S /\ y \in S
  BY <1>1
<1>3. Append(<<>>, x) = <<x>> /\ Append(<<x>>, y) = <<x, y>>
  BY AppendTwo
<1>4. Played(root, <<>>) = root
  BY PlayedNothing
<1>5. Played(root, Append(<<>>, x)) = PlayedOn(Played(root, <<>>), x)
  BY <1>2, PlayedAppend
<1>6. Played(root, Append(<<x>>, y)) = PlayedOn(Played(root, <<x>>), y)
  BY <1>2, PlayedAppend
<1>7. QED
  BY <1>3, <1>4, <1>5, <1>6

\* The solver's hand of a street, where it stands at Hero's decision.
LEMMA StreetIsReached ==
  ASSUME SpotInv, AskedInv, Asked, hand.street > 1, NEW st, TableState(st), PlaceState(st),
         IsEligible(st), Effective(st) > 0, NEW pair, pair = OrderedAfter(0, {hero, st.villain})
  PROVE  /\ (hero = pair[1]) <=> st.oop
         /\ \E end, stacks :
              /\ end = Played(TwoHanded(StreetRoot, pair, Effective(st)), HistoryActions(st))
              /\ HandOK(end, stacks) /\ Actor(end) = hero /\ Facing(end, hero) = st.call
              /\ \A s \in Seats : end.totalPaid[s] = hand.totalPaid[s]
<1>1. PICK v : v = st.villain
  OBVIOUS
<1>2. PICK paid, left, top, full, may : Turn(paid, left, top, full, may)
  BY TurnInNumbers
<1>3. st.call \in Nat
  BY <1>2, CallFacts
<1>4. /\ v \in Live(hand) \ {hero} /\ Covered(Effective(st), v)
      /\ hand.streetPaid[hero] = 0 /\ \A s \in Seats \ {hero, v} : ~(hand.streetPaid[s] > 0)
  BY <1>1, <1>3, EligibleFacts
<1>5. /\ HandOK(hand, start) /\ hand \in HandType /\ hero \in Seats /\ hero \in Live(hand)
      /\ v \in Seats /\ v # hero
  BY <1>4, AskedFacts, HeroIsLive DEF HandOK, Live
<1>6. Live(hand) \ {hero} = {v}
  <2>1. st.villains = 1 /\ st.villains = Cardinality(Live(hand) \ {hero})
    BY DEF IsEligible, PlaceState
  <2>2. IsFiniteSet(Live(hand) \ {hero})
    BY <1>5, SeatsFinite, FS_Subset DEF Live
  <2>3. PICK other : Live(hand) \ {hero} = {other}
    BY <2>1, <2>2, FS_Singleton
  <2>4. QED
    BY <1>4, <2>3
<1>7. PICK most : most = Effective(st)
  OBVIOUS
<1>8. most \in Nat \ {0}
  <2>1. ReplayedTarget(hero) \in Nat /\ ReplayedTarget(v) \in Nat
    BY <1>5 DEF ReplayedTarget, HandType
  <2>2. QED
    BY <1>4, <1>7, <2>1 DEF Covered, Lesser
<1>9. PICK a, b : /\ {a, b} = {hero, v} /\ a \in Seats /\ b \in Seats /\ a # b
                  /\ After(a) < After(b) /\ OrderedAfter(0, {hero, v}) = <<a, b>>
  BY <1>5, PairOfTwo
<1>10. pair = <<a, b>>
  BY <1>1, <1>9
<1>11. st.oop <=> After(hero) < After(v)
  BY <1>5, <1>6, PositionOfTwo DEF PlaceState
<1>12. /\ st.oop => a = hero /\ b = v
       /\ ~st.oop => a = v /\ b = hero
  <2>1. After(a) \in Int /\ After(b) \in Int
    BY <1>9, ReplayAssumption DEF After, Seats
  <2>2. (a = hero /\ b = v) \/ (a = v /\ b = hero)
    BY <1>5, <1>9
  <2>3. QED
    BY <1>5, <1>9, <1>11, <2>1, <2>2
<1>13. hero = pair[1] <=> st.oop
  BY <1>5, <1>10, <1>12
<1>14. PICK root, g, stacks : /\ root = StreetRoot /\ g = TwoHanded(root, <<a, b>>, most)
                              /\ stacks = [s \in Seats |-> most + root.totalPaid[s]]
  OBVIOUS
<1>15. /\ root \in HandType
       /\ root.totalPaid = [s \in Seats |-> hand.totalPaid[s] - hand.streetPaid[s]]
  BY <1>14, StreetRootFacts
<1>16. /\ HandOK(g, stacks) /\ Unsettled(g) /\ Between(g, a, b) /\ Actor(g) = a /\ ~g.closed
       /\ g.totalPaid = root.totalPaid /\ g.highest = 0 /\ g.acted = {}
       /\ \A s \in Seats : g.streetPaid[s] = 0 /\ g.remaining[s] = most
  BY <1>8, <1>9, <1>14, <1>15, RootFacts
<1>17. Untouched(g, stacks, a, b, most)
  BY <1>8, <1>9, <1>16 DEF Untouched
<1>18. \A s \in Seats : /\ hand.totalPaid[s] \in Nat /\ hand.streetPaid[s] \in Nat
                        /\ g.totalPaid[s] = hand.totalPaid[s] - hand.streetPaid[s]
  BY <1>5, <1>15, <1>16 DEF HandType
<1>19. \A s \in Seats : s # v => hand.streetPaid[s] = 0
  <2>1. \A s \in Seats : s # v /\ s # hero => ~(hand.streetPaid[s] > 0)
    BY <1>4
  <2>2. QED
    BY <1>4, <1>18, <2>1
<1>20. PICK bet, step, check : /\ bet = st.observedBet /\ check = Unsized("CHECK")
                               /\ step = Sized(IF bet = most THEN "ALL-IN" ELSE "BET", bet)
  OBVIOUS
<1>21. PICK told : told = HistoryActions(st)
  OBVIOUS
<1>22. \/ /\ st.call = 0 /\ st.villainBet = 0
          /\ \/ told = <<>> /\ st.oop
             \/ told = <<check>> /\ ~st.oop
       \/ /\ st.call > 0 /\ st.villainBet = bet /\ st.call = bet /\ bet <= most
          /\ \/ told = <<step>> /\ ~st.oop
             \/ told = <<check, step>> /\ st.oop
  <2>1. SupportedHistory(st)
    BY DEF IsEligible
  <2>2. QED
    BY <1>3, <1>7, <1>20, <1>21, <2>1, HistoryCases
<1>23. st.villainBet = hand.streetPaid[v]
  <2>1. v # NoSeat
    BY <1>5, SeatsFinite
  <2>2. QED
    BY <1>1, <2>1 DEF TableState
<1>24. hand.streetPaid[v] = 0 => \A s \in Seats : g.totalPaid[s] = hand.totalPaid[s]
  <2>1. \A s \in Seats : hand.streetPaid[s] = 0 => g.totalPaid[s] = hand.totalPaid[s]
    <3>1. \A s \in Seats : hand.totalPaid[s] - 0 = hand.totalPaid[s]
      BY <1>18
    <3>2. QED
      BY <1>18, <3>1
  <2>2. hand.streetPaid[v] = 0 => \A s \in Seats : hand.streetPaid[s] = 0
    BY <1>19
  <2>3. QED
    BY <2>1, <2>2
<1>25. ASSUME NEW end, end = Played(g, told), HandOK(end, stacks), Actor(end) = hero,
              Facing(end, hero) = st.call, \A s \in Seats : end.totalPaid[s] = hand.totalPaid[s]
       PROVE  \E final, chips :
                /\ final = Played(TwoHanded(StreetRoot, pair, Effective(st)), HistoryActions(st))
                /\ HandOK(final, chips) /\ Actor(final) = hero /\ Facing(final, hero) = st.call
                /\ \A s \in Seats : final.totalPaid[s] = hand.totalPaid[s]
  <2>1. end = Played(TwoHanded(StreetRoot, pair, Effective(st)), HistoryActions(st))
    BY <1>7, <1>10, <1>14, <1>21, <1>25
  <2>2. QED
    BY <1>25, <2>1
<1>26. CASE st.call = 0 /\ st.villainBet = 0 /\ told = <<>> /\ st.oop
  <2>1. Played(g, told) = g
    BY <1>26, PlayedNothing
  <2>2. Actor(g) = hero
    BY <1>12, <1>16, <1>26
  <2>3. Facing(g, hero) = st.call
    BY <1>5, <1>16, <1>26 DEF Facing
  <2>4. \A s \in Seats : g.totalPaid[s] = hand.totalPaid[s]
    BY <1>23, <1>26, <1>24
  <2>5. QED
    BY <1>13, <1>16, <1>25, <2>1, <2>2, <2>3, <2>4
<1>27. CASE st.call = 0 /\ st.villainBet = 0 /\ told = <<check>> /\ ~st.oop
  <2>1. PICK k : /\ k = PlayedOn(g, check) /\ Untouched(k, stacks, b, a, most)
                 /\ \A s \in Seats : k.totalPaid[s] = g.totalPaid[s]
    BY <1>16, <1>17, <1>20, UntouchedCheck
  <2>2. Played(g, told) = k
    BY <1>27, <2>1, PlayedTwo
  <2>3. HandOK(k, stacks) /\ Actor(k) = hero /\ k.highest = 0 /\ k.streetPaid[hero] = 0
    BY <1>5, <1>12, <1>27, <2>1 DEF Untouched
  <2>4. Facing(k, hero) = st.call
    BY <1>27, <2>3 DEF Facing
  <2>5. \A s \in Seats : k.totalPaid[s] = hand.totalPaid[s]
    BY <1>23, <1>27, <1>24, <2>1
  <2>6. QED
    BY <1>13, <1>25, <2>2, <2>3, <2>4, <2>5
<1>28. ASSUME st.call > 0, st.villainBet = bet, st.call = bet, bet <= most
       PROVE  bet \in Nat \ {0} /\ (bet >= BigBlind \/ bet = most) /\ hand.streetPaid[v] = bet
  <2>1. bet \in Nat /\ bet > 0 /\ hand.streetPaid[v] = bet
    BY <1>3, <1>23, <1>28
  <2>2. ShortIsAllIn(hand) /\ Covered(most, v)
    BY <1>4, <1>7 DEF AskedInv
  <2>3. bet >= BigBlind \/ bet = most
    BY <1>4, <1>5, <1>28, <2>1, <2>2, BetIsBlindOrAll
  <2>4. QED
    BY <2>1, <2>3
<1>29. CASE /\ st.call > 0 /\ st.villainBet = bet /\ st.call = bet /\ bet <= most
            /\ told = <<step>> /\ ~st.oop
  <2>1. bet \in Nat \ {0} /\ (bet >= BigBlind \/ bet = most) /\ hand.streetPaid[v] = bet
    BY <1>28, <1>29
  <2>2. PICK k : /\ k = PlayedOn(g, step)
                 /\ HandOK(k, stacks) /\ Actor(k) = b /\ Facing(k, b) = bet
                 /\ k.totalPaid[a] = g.totalPaid[a] + bet
                 /\ \A s \in Seats : s # a => k.totalPaid[s] = g.totalPaid[s]
    BY <1>17, <1>20, <1>29, <2>1, UntouchedBet
  <2>3. Played(g, told) = k
    BY <1>29, <2>2, PlayedTwo
  <2>4. Actor(k) = hero /\ Facing(k, hero) = st.call
    BY <1>12, <1>29, <2>2
  <2>5. \A s \in Seats : k.totalPaid[s] = hand.totalPaid[s]
    <3>1. k.totalPaid[v] = hand.totalPaid[v]
      BY <1>5, <1>12, <1>18, <1>29, <2>1, <2>2
    <3>2. QED
      BY <1>12, <1>18, <1>19, <1>29, <2>2, <3>1
  <2>6. QED
    BY <1>13, <1>25, <2>2, <2>3, <2>4, <2>5
<1>30. CASE /\ st.call > 0 /\ st.villainBet = bet /\ st.call = bet /\ bet <= most
            /\ told = <<check, step>> /\ st.oop
  <2>1. bet \in Nat \ {0} /\ (bet >= BigBlind \/ bet = most) /\ hand.streetPaid[v] = bet
    BY <1>28, <1>30
  <2>2. PICK n : /\ n = PlayedOn(g, check) /\ Untouched(n, stacks, b, a, most)
                 /\ \A s \in Seats : n.totalPaid[s] = g.totalPaid[s]
    BY <1>16, <1>17, <1>20, UntouchedCheck
  <2>3. PICK k : /\ k = PlayedOn(n, step)
                 /\ HandOK(k, stacks) /\ Actor(k) = a /\ Facing(k, a) = bet
                 /\ k.totalPaid[b] = n.totalPaid[b] + bet
                 /\ \A s \in Seats : s # b => k.totalPaid[s] = n.totalPaid[s]
    BY <1>20, <1>30, <2>1, <2>2, UntouchedBet
  <2>4. Played(g, told) = k
    <3>1. told = <<check, step>> /\ n = PlayedOn(g, check) /\ k = PlayedOn(n, step)
      BY <1>30, <2>2, <2>3
    <3>2. QED
      BY <3>1, PlayedTwo
  <2>5. Actor(k) = hero /\ Facing(k, hero) = st.call
    BY <1>12, <1>30, <2>3
  <2>6. \A s \in Seats : k.totalPaid[s] = hand.totalPaid[s]
    <3>1. k.totalPaid[v] = hand.totalPaid[v]
      BY <1>5, <1>12, <1>18, <1>30, <2>1, <2>2, <2>3
    <3>2. QED
      BY <1>12, <1>18, <1>19, <1>30, <2>2, <2>3, <3>1
  <2>7. QED
    BY <1>13, <1>25, <2>3, <2>4, <2>5, <2>6
<1>31. QED
  BY <1>22, <1>26, <1>27, <1>29, <1>30

LEMMA StreetIsAsked ==
  ASSUME SpotInv, AskedInv, Asked, hand.street > 1, NEW mode,
         NEW st, TableState(st), PlaceState(st), StreetSpec(st, mode).asked
  PROVE  ReachesDecision(StreetRoot, StreetSpec(st, mode), OrderedAfter(0, {hero, st.villain}),
                         Total(hand.totalPaid))
<1>1. NoSpec.asked = FALSE
  BY DEF NoSpec
<1>2. IsEligible(st) /\ StreetSpec(st, mode) = BuildLiveSpec(st)
  BY <1>1 DEF StreetSpec
<1>3. PICK spec, pair : /\ spec = BuildLiveSpec(st)
                        /\ pair = OrderedAfter(0, {hero, st.villain})
  OBVIOUS
<1>4. /\ spec.actor = (IF st.oop THEN "OOP" ELSE "IP") /\ spec.pot = st.pot
      /\ spec.effective = Effective(st) /\ spec.facing = st.call
      /\ spec.path = HistoryActions(st)
  <2>1. PICK modeled : modeled = IF st.call = 0 THEN RootActions(st)
                                 ELSE {Unsized("FOLD"), Unsized("CALL")} \cup RaiseOverBet(st)
    OBVIOUS
  <2>2. spec = [asked |-> TRUE, street |-> st.street, actor |-> IF st.oop THEN "OOP" ELSE "IP",
                pot |-> st.pot, effective |-> Effective(st), facing |-> st.call,
                modeled |-> modeled, path |-> HistoryActions(st), invested |-> <<0, 0>>]
    BY <1>3, <2>1 DEF BuildLiveSpec
  <2>3. QED
    BY <2>2
<1>5. Effective(st) > 0
  BY <1>2 DEF IsEligible
<1>6. /\ (hero = pair[1]) <=> st.oop
      /\ \E end, stacks :
           /\ end = Played(TwoHanded(StreetRoot, pair, Effective(st)), HistoryActions(st))
           /\ HandOK(end, stacks) /\ Actor(end) = hero /\ Facing(end, hero) = st.call
           /\ \A s \in Seats : end.totalPaid[s] = hand.totalPaid[s]
  BY <1>2, <1>3, <1>5, StreetIsReached
<1>7. PICK end, stacks :
        /\ end = Played(TwoHanded(StreetRoot, pair, spec.effective), spec.path)
        /\ HandOK(end, stacks) /\ Actor(end) = hero /\ Facing(end, hero) = spec.facing
        /\ \A s \in Seats : end.totalPaid[s] = hand.totalPaid[s]
  BY <1>4, <1>6
<1>8. end # Broken
  BY <1>7, PlayedOnFacts
<1>9. (spec.actor = "OOP") = (hero = pair[1])
  BY <1>4, <1>6
<1>10. spec.pot + Total(end.totalPaid) - Total(StreetRoot.totalPaid) = Total(hand.totalPaid)
  <2>1. StreetRoot.totalPaid = [s \in Seats |-> hand.totalPaid[s] - hand.streetPaid[s]]
    BY StreetRootFacts
  <2>2. spec.pot = Total(hand.totalPaid) - Total(hand.streetPaid)
    BY <1>4 DEF TableState
  <2>3. QED
    BY <1>7, <2>1, <2>2, PotOfStreet
<1>11. ReachesDecision(StreetRoot, spec, pair, Total(hand.totalPaid))
  BY <1>7, <1>8, <1>9, <1>10 DEF ReachesDecision
<1>12. QED
  BY <1>2, <1>3, <1>11

LEMMA SpotFacts == SpotInv /\ AskedInv => SpotIsWhatHappened
<1>1. SUFFICES ASSUME SpotInv, AskedInv, Asked, hand.street > 1, NEW mode \in Modes,
                      NEW q \in Questions(mode)
               PROVE  ReachesDecision(q.root, q.spec, q.pair, Total(hand.totalPaid))
  BY DEF SpotIsWhatHappened
<1>2. PICK street, whole :
        /\ street = StateFor(mode) /\ whole = LiveState(frames)
  OBVIOUS
<1>3. \/ q = [spec |-> StreetSpec(street, mode), pair |-> OrderedAfter(0, {hero, street.villain}),
              root |-> StreetRoot]
      \/ q = [spec |-> HandSpec(whole, mode), pair |-> FlopPair, root |-> flop]
  BY <1>2 DEF Questions, StreetRoot
<1>4. q.spec.asked
  BY DEF Questions
<1>5. TableState(street) /\ PlaceState(street) /\ TableState(whole)
  BY <1>1, <1>2, StateForFacts, PlaceFacts, LiveStateFacts
<1>6. CASE q = [spec |-> StreetSpec(street, mode),
                pair |-> OrderedAfter(0, {hero, street.villain}), root |-> StreetRoot]
  <2>1. /\ q.spec = StreetSpec(street, mode) /\ q.root = StreetRoot
        /\ q.pair = OrderedAfter(0, {hero, street.villain})
    BY <1>6
  <2>2. QED
    BY <1>1, <1>4, <1>5, <2>1, StreetIsAsked
<1>7. CASE q = [spec |-> HandSpec(whole, mode), pair |-> FlopPair, root |-> flop]
  <2>1. q.spec = HandSpec(whole, mode) /\ q.root = flop /\ q.pair = FlopPair
    BY <1>7
  <2>2. QED
    BY <1>1, <1>4, <1>5, <2>1, HandIsAsked
<1>8. QED
  BY <1>3, <1>6, <1>7

(* What the engine is asked about is the hand on the table, whatever the   *)
(* seats, the stacks and the bets: the request, played from its root       *)
(* between two players with its effective stack, is legal and leads to     *)
(* Hero's decision, with the bet Hero faces and the pot that is there.     *)
THEOREM SpotQuestionIsWhatHappened == SpotSpec => []SpotIsWhatHappened
<1>1. SpotInv /\ AskedInv => SpotIsWhatHappened
  BY SpotFacts
<1>2. QED
  BY <1>1, AskedInvariant, PTL
=============================================================================
