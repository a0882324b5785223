----------------------------- MODULE HandProofs -----------------------------
(***************************************************************************)
(* What holds of a hand for any number of seats, blinds, antes and finite  *)
(* set of stacks, in two parts:                                            *)
(*   - the engine of HandReplay: what its rules keep to, however the hand  *)
(*     is played;                                                          *)
(*   - the recorder of HandEventRecorder: what it takes for the course of  *)
(*     the hand it watches, whichever observations it was shown.           *)
(***************************************************************************)
EXTENDS HandEventRecorder, FiniteSetTheorems, SequenceTheorems, NaturalsInduction,
        WellFoundedInduction, TLAPS

(* The form of induction that the lemmas below use.                        *)
LEMMA LeastNumber ==
  ASSUME NEW B, B \subseteq Nat, B # {}
  PROVE  \E k \in B : \A l \in B : k <= l
<1>1. PICK k \in B : \A l \in B : ~(<<l, k>> \in OpToRel(<, Nat))
  BY NatLessThanWellFounded, WFMin
<1>2. \A l \in B : l \in Nat /\ k \in Nat /\ ~(l < k)
  BY <1>1 DEF OpToRel
<1>3. QED
  BY <1>2

-----------------------------------------------------------------------------
(* What Kept() makes of a list.                                            *)
IsKept(f, seats, wanted, n) ==
  f = [i \in 0..n |->
         IF i = 0 THEN <<>>
         ELSE IF seats[i] \in wanted THEN Append(f[i - 1], seats[i]) ELSE f[i - 1]]

LEMMA KeptExists ==
  ASSUME NEW seats, NEW wanted, NEW n \in Nat
  PROVE  \E f : IsKept(f, seats, wanted, n)
<1> DEFINE Added(q, i) == IF seats[i] \in wanted THEN Append(q, seats[i]) ELSE q
           B == {k \in Nat : ~\E f : IsKept(f, seats, wanted, k)}
<1>1. SUFFICES ASSUME B # {} PROVE FALSE
  BY Zenon
<1>2. PICK k \in B : \A l \in B : k <= l
  <2> HIDE DEF B
  <2>1. B \subseteq Nat
    BY DEF B
  <2>2. QED
    BY <1>1, <2>1, LeastNumber
<1>3. k \in Nat /\ ~\E f : IsKept(f, seats, wanted, k)
  BY Zenon
<1>4. CASE k = 0
  <2>1. PICK f : f = [i \in 0..0 |-> <<>>]
    OBVIOUS
  <2>2. f = [i \in 0..k |-> IF i = 0 THEN <<>> ELSE Added(f[i - 1], i)]
    BY <1>4, <2>1
  <2>3. QED
    BY <1>3, <2>2, Zenon DEF IsKept
<1>5. CASE k # 0
  <2>1. k - 1 \in Nat /\ ~(k <= k - 1)
    BY <1>3, <1>5
  <2>2. PICK h : IsKept(h, seats, wanted, k - 1)
    BY <1>2, <2>1
  <2>3. PICK g : g = [i \in 0..k |-> IF i \in 0 .. k - 1 THEN h[i] ELSE Added(h[i - 1], i)]
    OBVIOUS
  <2>4. ASSUME NEW i \in 0..k
        PROVE  g[i] = IF i = 0 THEN <<>> ELSE Added(g[i - 1], i)
    <3>1. i # 0 => i - 1 \in 0 .. k - 1 /\ i - 1 \in 0..k
      BY <1>3
    <3>2. i # 0 => g[i - 1] = h[i - 1]
      BY <2>3, <3>1
    <3>3. i = 0 => i \in 0 .. k - 1
      BY <1>3, <1>5
    <3>4. i \in 0 .. k - 1 => h[i] = IF i = 0 THEN <<>> ELSE Added(h[i - 1], i)
      BY <2>2 DEF IsKept
    <3> HIDE DEF Added
    <3>5. g[i] = IF i = 0 THEN <<>> ELSE Added(h[i - 1], i)
      BY <2>3, <3>3, <3>4
    <3>6. QED
      BY <3>2, <3>5
  <2>5. g = [i \in 0..k |-> IF i = 0 THEN <<>> ELSE Added(g[i - 1], i)]
    <3> HIDE DEF Added
    <3>1. QED
      BY <2>3, <2>4
  <2>6. QED
    BY <1>3, <2>5, Zenon DEF IsKept
<1>6. QED
  BY <1>4, <1>5

\* A list that holds what is wanted of the first n seats, each once.
KeptRight(q, seats, wanted, n) ==
  /\ q \in Seq(Seats) /\ IsInjective(q)
  /\ \A s : (\E j \in 1..Len(q) : q[j] = s) <=> (s \in wanted /\ \E i \in 1..n : seats[i] = s)

LEMMA KeptFacts ==
  ASSUME NEW seats \in Seq(Seats), IsInjective(seats), NEW wanted
  PROVE  KeptRight(Kept(seats, wanted), seats, wanted, Len(seats))
<1>0. Len(seats) \in Nat
  OBVIOUS
<1>1. PICK f : f = CHOOSE g : IsKept(g, seats, wanted, Len(seats))
  OBVIOUS
<1>2. Kept(seats, wanted) = f[Len(seats)]
  BY <1>1, Zenon DEF Kept, IsKept
<1>3. IsKept(f, seats, wanted, Len(seats))
  BY <1>0, <1>1, KeptExists, Zenon
<1>4. /\ f[0] = <<>>
      /\ \A i \in 1..Len(seats) :
           f[i] = IF seats[i] \in wanted THEN Append(f[i - 1], seats[i]) ELSE f[i - 1]
  <2>1. 0 \in 0..Len(seats) /\ \A i \in 1..Len(seats) : i \in 0..Len(seats) /\ i # 0
    BY <1>0
  <2>2. QED
    BY <1>3, <2>1 DEF IsKept
<1> DEFINE B == {k \in 0..Len(seats) : ~KeptRight(f[k], seats, wanted, k)}
<1>5. SUFFICES ASSUME B # {} PROVE FALSE
  BY <1>0, <1>2
<1>6. PICK k \in B : \A l \in B : k <= l
  <2> HIDE DEF B
  <2>1. B \subseteq Nat
    BY DEF B
  <2>2. QED
    BY <1>5, <2>1, LeastNumber
<1>7. k \in 0..Len(seats) /\ ~KeptRight(f[k], seats, wanted, k)
  OBVIOUS
<1>8. k # 0
  <2>1. KeptRight(<<>>, seats, wanted, 0)
    BY DEF KeptRight, IsInjective
  <2>2. QED
    BY <1>4, <1>7, <2>1
<1>9. k \in 1..Len(seats) /\ k - 1 \in 0..Len(seats) /\ ~(k <= k - 1)
  BY <1>7, <1>8
<1>10. KeptRight(f[k - 1], seats, wanted, k - 1)
  BY <1>6, <1>9
<1> HIDE DEF B
<1> DEFINE q == f[k - 1]
           s == seats[k]
<1>11. /\ s \in Seats /\ q \in Seq(Seats) /\ IsInjective(q)
       /\ \A i \in 1 .. k - 1 : i \in 1..Len(seats) /\ seats[i] # s
       /\ 1..k = (1 .. k - 1) \cup {k}
  <2>1. \A i \in 1 .. k - 1 : i \in 1..Len(seats) /\ i # k
    BY <1>9
  <2>2. DOMAIN seats = 1..Len(seats)
    OBVIOUS
  <2>3. QED
    BY <1>9, <1>10, <2>1, <2>2 DEF KeptRight, IsInjective
<1>12. \A x : (\E j \in 1..Len(q) : q[j] = x) <=> (x \in wanted /\ \E i \in 1 .. k - 1 : seats[i] = x)
  BY <1>10 DEF KeptRight
<1>13. f[k] = IF s \in wanted THEN Append(q, s) ELSE q
  BY <1>4, <1>9
<1> HIDE DEF q
<1>14. CASE s \in wanted
  <2>1. f[k] = Append(q, s)
    BY <1>13, <1>14
  <2>2. \A j \in 1..Len(q) : q[j] # s
    BY <1>11, <1>12
  <2>3. /\ Append(q, s) \in Seq(Seats) /\ Len(Append(q, s)) = Len(q) + 1
        /\ Append(q, s)[Len(q) + 1] = s /\ \A j \in 1..Len(q) : Append(q, s)[j] = q[j]
        /\ 1..Len(q) + 1 = 1..Len(q) \cup {Len(q) + 1}
        /\ DOMAIN Append(q, s) = 1..Len(q) + 1 /\ DOMAIN q = 1..Len(q)
    BY <1>11
  <2>4. IsInjective(Append(q, s))
    BY <1>11, <2>2, <2>3 DEF IsInjective
  <2>5. \A x : (\E j \in 1..Len(Append(q, s)) : Append(q, s)[j] = x)
                 <=> (x \in wanted /\ \E i \in 1..k : seats[i] = x)
    BY <1>11, <1>12, <1>14, <2>3
  <2>6. QED
    BY <1>7, <2>1, <2>3, <2>4, <2>5 DEF KeptRight
<1>15. CASE s \notin wanted
  <2>1. f[k] = q
    BY <1>13, <1>15
  <2>2. \A x : (\E j \in 1..Len(q) : q[j] = x) <=> (x \in wanted /\ \E i \in 1..k : seats[i] = x)
    BY <1>11, <1>12, <1>15
  <2>3. QED
    BY <1>7, <1>11, <2>1, <2>2 DEF KeptRight
<1>16. QED
  BY <1>14, <1>15

(* Once around the table from any seat is every seat, once.                *)
LEMMA OrderedAfterFacts ==
  ASSUME NEW seat \in Seats, NEW candidates \in SUBSET Seats
  PROVE  /\ OrderedAfter(seat, candidates) \in Seq(Seats)
         /\ IsInjective(OrderedAfter(seat, candidates))
         /\ ToSet(OrderedAfter(seat, candidates)) = candidates
<1> DEFINE around == [n \in 1..Players |-> (seat + n) % Players]
<1>0. Players \in Nat /\ Players >= 2 /\ seat \in 0 .. Players - 1
  BY ReplayAssumption DEF Seats
<1>1. \A n \in 1..Players : /\ seat + n < Players => around[n] = seat + n
                            /\ seat + n >= Players => around[n] = seat + n - Players
  BY <1>0
<1> HIDE DEF around
<1>2. \A n \in 1..Players : around[n] \in Seats
  BY <1>0, <1>1 DEF Seats
<1>3. around \in Seq(Seats) /\ Len(around) = Players /\ DOMAIN around = 1..Players
  BY <1>0, <1>2 DEF around
<1>4. IsInjective(around)
  BY <1>0, <1>1, <1>3 DEF IsInjective
<1>5. ASSUME NEW s \in Seats PROVE \E n \in 1..Players : around[n] = s
  <2>1. s \in 0 .. Players - 1
    BY DEF Seats
  <2>2. CASE s > seat
    <3>1. s - seat \in 1..Players /\ around[s - seat] = s
      BY <1>0, <1>1, <2>1, <2>2
    <3>2. QED
      BY <3>1
  <2>3. CASE s <= seat
    <3>1. s - seat + Players \in 1..Players /\ around[s - seat + Players] = s
      BY <1>0, <1>1, <2>1, <2>3
    <3>2. QED
      BY <3>1
  <2>4. QED
    BY <1>0, <2>1, <2>2, <2>3
<1>6. OrderedAfter(seat, candidates) = Kept(around, candidates)
  BY DEF OrderedAfter, around
<1>7. KeptRight(Kept(around, candidates), around, candidates, Players)
  BY <1>3, <1>4, KeptFacts
<1>8. QED
  BY <1>5, <1>6, <1>7 DEF KeptRight, ToSet

-----------------------------------------------------------------------------
(* The invariant of a hand.  It is in three parts: the types; the chips;   *)
(* the betting round, of which NormalizeRound() only decides whether it is *)
(* closed.                                                                 *)
HandType ==
  [street : 1..4, remaining : [Seats -> Nat], streetPaid : [Seats -> Nat],
   totalPaid : [Seats -> Nat], folded : SUBSET Seats, allIn : SUBSET Seats, highest : Nat,
   lastFullRaise : Nat \ {0}, acted : SUBSET Seats, pending : Seq(Seats),
   closed : BOOLEAN, terminal : BOOLEAN]

\* Chips are in a stack or in the pot; the highest bet is somebody's.
ChipsOK(h, stacks) ==
  /\ \A s \in Seats : /\ h.streetPaid[s] <= h.totalPaid[s]
                      /\ h.streetPaid[s] <= h.highest
                      /\ h.remaining[s] + h.totalPaid[s] = stacks[s]
  /\ \E s \in Seats : h.streetPaid[s] = h.highest
  /\ h.allIn = {s \in Seats : h.remaining[s] = 0}

Waits(h, s) == s \in ToSet(h.pending)
Matched(h, s) == h.streetPaid[s] = h.highest /\ s \in h.acted

\* Whoever can act has matched the highest bet and acted, or will be asked;
\* nobody who has acted is asked again without owing chips.
RoundOK(h) ==
  /\ IsInjective(h.pending)
  /\ \A s \in Eligible(h) : Waits(h, s) \/ Matched(h, s)
  /\ \A s \in Seats : Waits(h, s) /\ s \in h.acted => h.streetPaid[s] < h.highest

HandOK(h, stacks) ==
  /\ h \in HandType /\ ChipsOK(h, stacks)
  /\ IsInjective(h.pending) /\ ToSet(h.pending) \subseteq Eligible(h)
  /\ h.terminal => h.closed
  /\ Cardinality(Live(h)) <= 1 => h.terminal
  /\ ~h.closed => h.pending # <<>> /\ RoundOK(h)
  /\ h.closed /\ Cardinality(Live(h)) > 1 =>
       /\ \A s \in Eligible(h) : h.streetPaid[s] = h.highest
       /\ Cardinality(Eligible(h)) > 1 => Eligible(h) \subseteq h.acted

LEMMA SeatsFinite ==
  /\ IsFiniteSet(Seats) /\ Seats \subseteq Nat /\ NoSeat \notin Seats
  /\ \A S \in SUBSET Seats : IsFiniteSet(S) /\ Cardinality(S) \in Nat
<1>1. Players \in Nat /\ 0 \in Int /\ Players - 1 \in Int
  BY ReplayAssumption
<1>2. IsFiniteSet(0 .. Players - 1)
  BY <1>1, FS_Interval
<1>3. \A S \in SUBSET (0 .. Players - 1) : IsFiniteSet(S)
  BY <1>2, FS_Subset
<1>4. \A S \in SUBSET (0 .. Players - 1) : Cardinality(S) \in Nat
  BY <1>3, FS_CardinalityType
<1>5. QED
  BY <1>1, <1>2, <1>3, <1>4 DEF Seats, NoSeat

(* NormalizeRound() closes the round exactly where it may.                 *)
LEMMA NormalizeFacts ==
  ASSUME NEW stacks, NEW h \in HandType, ChipsOK(h, stacks), RoundOK(h), ~h.closed, ~h.terminal
  PROVE  HandOK(NormalizeRound(h), stacks)
<1> DEFINE g == NormalizeRound(h)
           eligible == Eligible(h)
           kept == Kept(h.pending, eligible)
           settled == \/ eligible = {}
                      \/ \E only \in eligible :
                           eligible = {only} /\ h.streetPaid[only] >= h.highest
<1>1. /\ eligible \subseteq Seats /\ Live(h) \subseteq Seats /\ h.pending \in Seq(Seats)
      /\ IsInjective(h.pending) /\ h.highest \in Nat /\ h.streetPaid \in [Seats -> Nat]
  BY DEF HandType, Eligible, Live, RoundOK
<1>2. /\ kept \in Seq(Seats) /\ IsInjective(kept)
      /\ \A s : s \in ToSet(kept) <=> s \in eligible /\ s \in ToSet(h.pending)
  <2>1. KeptRight(kept, h.pending, eligible, Len(h.pending))
    BY <1>1, KeptFacts
  <2>2. Len(h.pending) \in Nat /\ Len(kept) \in Nat /\ kept \in Seq(Seats)
    BY <1>1, <2>1 DEF KeptRight
  <2>3. \A s : s \in ToSet(kept) <=> \E j \in 1..Len(kept) : kept[j] = s
    BY <2>2 DEF ToSet
  <2>4. \A s : s \in ToSet(h.pending) <=> \E j \in 1..Len(h.pending) : h.pending[j] = s
    BY <1>1 DEF ToSet
  <2>5. QED
    BY <2>1, <2>3, <2>4 DEF KeptRight
<1>3. <<>> \in Seq(Seats) /\ IsInjective(<<>>) /\ ToSet(<<>>) = {}
  BY DEF IsInjective, ToSet
<1>4. ASSUME NEW c \in BOOLEAN, NEW e \in BOOLEAN, NEW q \in Seq(Seats),
             g = [h EXCEPT !.pending = q, !.closed = c, !.terminal = e]
      PROVE  /\ g \in HandType /\ ChipsOK(g, stacks) /\ g.pending = q
             /\ g.closed = c /\ g.terminal = e
             /\ Eligible(g) = eligible /\ Live(g) = Live(h)
             /\ g.streetPaid = h.streetPaid /\ g.highest = h.highest /\ g.acted = h.acted
  <2> HIDE DEF g
  <2>1. /\ g \in HandType /\ g.pending = q /\ g.closed = c /\ g.terminal = e
        /\ g.remaining = h.remaining /\ g.totalPaid = h.totalPaid /\ g.allIn = h.allIn
        /\ g.folded = h.folded
        /\ g.streetPaid = h.streetPaid /\ g.highest = h.highest /\ g.acted = h.acted
    BY <1>4 DEF HandType
  <2>2. QED
    BY <2>1 DEF ChipsOK, Eligible, Live
<1> HIDE DEF g, kept, eligible, settled
<1>5. CASE Cardinality(Live(h)) <= 1
  <2>1. g = [h EXCEPT !.pending = <<>>, !.closed = TRUE, !.terminal = TRUE]
    BY <1>5 DEF g, NormalizeRound
  <2>2. /\ g \in HandType /\ ChipsOK(g, stacks) /\ g.pending = <<>> /\ g.closed /\ g.terminal
        /\ Live(g) = Live(h)
    BY <1>3, <1>4, <2>1
  <2>3. ~(Cardinality(Live(g)) > 1)
    BY <1>1, <1>5, <2>2, SeatsFinite
  <2>4. HandOK(g, stacks)
    BY <1>3, <2>2, <2>3 DEF HandOK
  <2>5. QED
    BY <2>4 DEF g
<1>6. CASE ~(Cardinality(Live(h)) <= 1) /\ settled
  <2>1. g = [h EXCEPT !.pending = <<>>, !.closed = TRUE]
    BY <1>6 DEF g, NormalizeRound, settled, eligible
  <2>2. g = [h EXCEPT !.pending = <<>>, !.closed = TRUE, !.terminal = FALSE]
    BY <2>1 DEF HandType
  <2>3. /\ g \in HandType /\ ChipsOK(g, stacks) /\ g.pending = <<>> /\ g.closed
        /\ Eligible(g) = eligible /\ g.streetPaid = h.streetPaid /\ g.highest = h.highest
        /\ ~(Cardinality(Live(g)) <= 1)
    BY <1>3, <1>4, <1>6, <2>2
  <2>4. \A s \in eligible : h.streetPaid[s] = h.highest
    BY <1>1, <1>6 DEF settled, ChipsOK
  <2>5. ~(Cardinality(eligible) > 1)
    <3>1. CASE eligible = {}
      BY <3>1, FS_EmptySet
    <3>2. CASE \E only \in eligible : eligible = {only}
      BY <3>2, FS_Singleton
    <3>3. QED
      BY <1>6, <3>1, <3>2 DEF settled
  <2>6. HandOK(g, stacks)
    BY <1>3, <2>3, <2>4, <2>5 DEF HandOK
  <2>7. QED
    BY <2>6 DEF g
<1>7. CASE ~(Cardinality(Live(h)) <= 1) /\ ~settled
  <2>1. g = [h EXCEPT !.pending = kept, !.closed = @ \/ kept = <<>>]
    BY <1>7 DEF g, NormalizeRound, settled, eligible, kept
  <2>2. g = [h EXCEPT !.pending = kept, !.closed = (kept = <<>>), !.terminal = FALSE]
    BY <2>1 DEF HandType
  <2>3. /\ g \in HandType /\ ChipsOK(g, stacks) /\ g.pending = kept /\ g.closed = (kept = <<>>)
        /\ g.terminal = FALSE /\ Eligible(g) = eligible /\ g.streetPaid = h.streetPaid
        /\ g.highest = h.highest /\ g.acted = h.acted /\ ~(Cardinality(Live(g)) <= 1)
    BY <1>2, <1>4, <1>7, <2>2
  <2>4. ToSet(g.pending) \subseteq Eligible(g) /\ IsInjective(g.pending)
    BY <1>2, <2>3
  <2>5. \A s \in Eligible(g) : Waits(g, s) \/ Matched(g, s)
    <3>1. \A s \in eligible : Waits(h, s) \/ Matched(h, s)
      BY DEF RoundOK, eligible
    <3>2. QED
      BY <1>2, <2>3, <3>1 DEF Waits, Matched
  <2>6. \A s \in Seats : Waits(g, s) /\ s \in g.acted => g.streetPaid[s] < g.highest
    BY <1>2, <2>3 DEF RoundOK, Waits
  <2>7. kept = <<>> => \A s \in Eligible(g) : Matched(g, s)
    BY <1>3, <2>3, <2>5 DEF Waits
  <2>8. HandOK(g, stacks)
    BY <2>3, <2>4, <2>5, <2>6, <2>7 DEF HandOK, RoundOK, Matched
  <2>9. QED
    BY <2>8 DEF g
<1>8. QED
  BY <1>5, <1>6, <1>7

SameChips(g, h) ==
  /\ g.street = h.street /\ g.remaining = h.remaining /\ g.streetPaid = h.streetPaid
  /\ g.totalPaid = h.totalPaid /\ g.folded = h.folded /\ g.allIn = h.allIn

\* The same bets, and nobody is asked who was not asked before: what
\* NormalizeRound() leaves alone.
Fewer(g, h) ==
  /\ SameChips(g, h) /\ g.highest = h.highest /\ g.lastFullRaise = h.lastFullRaise
  /\ \A s : Waits(g, s) => Waits(h, s)

LEMMA NormalizeFrame ==
  ASSUME NEW h \in HandType, IsInjective(h.pending)
  PROVE  Fewer(NormalizeRound(h), h)
<1> DEFINE g == NormalizeRound(h)
           kept == Kept(h.pending, Eligible(h))
<1>1. \A s : s \in ToSet(kept) => s \in ToSet(h.pending)
  <2>1. h.pending \in Seq(Seats)
    BY DEF HandType
  <2>2. KeptRight(kept, h.pending, Eligible(h), Len(h.pending))
    BY <2>1, KeptFacts
  <2>3. kept \in Seq(Seats)
    BY <2>2 DEF KeptRight
  <2>4. \A s : s \in ToSet(kept) <=> \E j \in 1..Len(kept) : kept[j] = s
    BY <2>3 DEF ToSet
  <2>5. \A s : s \in ToSet(h.pending) <=> \E j \in 1..Len(h.pending) : h.pending[j] = s
    BY <2>1 DEF ToSet
  <2>6. QED
    BY <2>2, <2>4, <2>5 DEF KeptRight
<1>2. \A s : s \notin ToSet(<<>>)
  BY DEF ToSet
<1> HIDE DEF g, kept
<1>3. \/ g = [h EXCEPT !.pending = <<>>, !.closed = TRUE, !.terminal = TRUE]
      \/ g = [h EXCEPT !.pending = <<>>, !.closed = TRUE]
      \/ g = [h EXCEPT !.pending = kept, !.closed = @ \/ kept = <<>>]
  BY Zenon DEF g, NormalizeRound, kept
<1>4. PICK q : q \in {<<>>, kept} /\ g.pending = q
  <2>1. g.pending \in {<<>>, kept}
    BY <1>3 DEF HandType
  <2>2. QED
    BY <2>1
<1>5. /\ g.street = h.street /\ g.remaining = h.remaining /\ g.streetPaid = h.streetPaid
      /\ g.totalPaid = h.totalPaid /\ g.folded = h.folded /\ g.allIn = h.allIn
      /\ g.highest = h.highest /\ g.lastFullRaise = h.lastFullRaise
  BY <1>3 DEF HandType
<1>6. \A s : Waits(g, s) => Waits(h, s)
  BY <1>1, <1>2, <1>4 DEF Waits
<1>7. QED
  BY <1>5, <1>6 DEF Fewer, SameChips, g

-----------------------------------------------------------------------------
(* Each event, up to the normalization that ends it.                       *)
LEMMA EndedFacts ==
  ASSUME NEW stacks, NEW h, HandOK(h, stacks)
  PROVE  HandOK(Ended(h), stacks) /\ Fewer(Ended(h), h)
<1> DEFINE g == Ended(h)
<1>1. PICK e \in BOOLEAN : e = (h.terminal \/ (h.street = 4 /\ h.closed))
  OBVIOUS
<1>2. h \in HandType /\ (e => h.closed)
  BY <1>1 DEF HandOK
<1>3. g = [h EXCEPT !.terminal = e]
  BY <1>1 DEF Ended
<1> HIDE DEF g
<1>4. /\ g \in HandType /\ g.terminal = e /\ g.closed = h.closed /\ g.pending = h.pending
      /\ g.remaining = h.remaining /\ g.totalPaid = h.totalPaid /\ g.allIn = h.allIn
      /\ g.streetPaid = h.streetPaid /\ g.highest = h.highest /\ g.acted = h.acted
      /\ g.folded = h.folded /\ g.street = h.street /\ g.lastFullRaise = h.lastFullRaise
  BY <1>2, <1>3 DEF HandType
<1>5. HandOK(g, stacks)
  <2>1. (h.terminal => e) /\ (Cardinality(Live(h)) <= 1 => h.terminal)
    BY <1>1 DEF HandOK
  <2>2. /\ Live(g) = Live(h) /\ Eligible(g) = Eligible(h)
        /\ ChipsOK(h, stacks) => ChipsOK(g, stacks)
        /\ RoundOK(h) => RoundOK(g)
    BY <1>4 DEF ChipsOK, RoundOK, Waits, Matched, Eligible, Live
  <2>3. QED
    BY <1>2, <1>4, <2>1, <2>2 DEF HandOK
<1>6. Fewer(g, h)
  BY <1>4 DEF Fewer, SameChips, Waits
<1>7. QED
  BY <1>5, <1>6 DEF g

LEMMA TailFacts ==
  ASSUME NEW q \in Seq(Seats), q # <<>>, IsInjective(q)
  PROVE  /\ Head(q) \in Seats /\ Tail(q) \in Seq(Seats) /\ IsInjective(Tail(q))
         /\ Head(q) \in ToSet(q) /\ Head(q) \notin ToSet(Tail(q))
         /\ \A s \in ToSet(q) : s = Head(q) \/ s \in ToSet(Tail(q))
         /\ ToSet(Tail(q)) \subseteq ToSet(q)
<1>1. /\ Len(q) \in Nat \ {0} /\ DOMAIN q = 1..Len(q) /\ Head(q) = q[1] /\ Head(q) \in Seats
      /\ Tail(q) \in Seq(Seats) /\ Len(Tail(q)) = Len(q) - 1
      /\ DOMAIN Tail(q) = 1 .. Len(q) - 1
      /\ \A i \in 1 .. Len(q) - 1 : Tail(q)[i] = q[i + 1]
  BY HeadTailProperties
<1>2. IsInjective(Tail(q))
  <2> SUFFICES ASSUME NEW a \in 1 .. Len(q) - 1, NEW b \in 1 .. Len(q) - 1,
                      Tail(q)[a] = Tail(q)[b]
               PROVE  a = b
    BY <1>1 DEF IsInjective
  <2>1. q[a + 1] = q[b + 1] /\ a + 1 \in 1..Len(q) /\ b + 1 \in 1..Len(q)
    BY <1>1
  <2>2. a + 1 = b + 1
    BY <1>1, <2>1 DEF IsInjective
  <2>3. QED
    BY <2>2
<1>3. Head(q) \in ToSet(q)
  BY <1>1 DEF ToSet
<1>4. Head(q) \notin ToSet(Tail(q))
  <2> SUFFICES ASSUME NEW a \in 1 .. Len(q) - 1, Tail(q)[a] = q[1] PROVE FALSE
    BY <1>1 DEF ToSet
  <2>1. q[a + 1] = q[1] /\ a + 1 \in 1..Len(q) /\ 1 \in 1..Len(q) /\ a + 1 # 1
    BY <1>1
  <2>2. QED
    BY <1>1, <2>1 DEF IsInjective
<1>5. ASSUME NEW s \in ToSet(q), s # Head(q) PROVE s \in ToSet(Tail(q))
  <2>1. PICK i \in 1..Len(q) : q[i] = s
    BY <1>1 DEF ToSet
  <2>2. i # 1
    BY <1>1, <1>5, <2>1
  <2>3. i - 1 \in 1 .. Len(q) - 1 /\ i - 1 + 1 = i
    BY <1>1, <2>2
  <2>4. Tail(q)[i - 1] = s
    BY <1>1, <2>1, <2>3
  <2>5. QED
    BY <1>1, <2>3, <2>4 DEF ToSet
<1>6. ASSUME NEW s \in ToSet(Tail(q)) PROVE s \in ToSet(q)
  <2>1. PICK i \in 1 .. Len(q) - 1 : Tail(q)[i] = s
    BY <1>1 DEF ToSet
  <2>2. q[i + 1] = s /\ i + 1 \in 1..Len(q)
    BY <1>1, <2>1
  <2>3. QED
    BY <1>1, <2>2 DEF ToSet
<1>7. QED
  BY <1>1, <1>2, <1>3, <1>4, <1>5, <1>6

(* An open round has somebody to act, who has chips.                       *)
LEMMA ActorFacts ==
  ASSUME NEW stacks, NEW h, HandOK(h, stacks), ~h.closed
  PROVE  /\ h.pending \in Seq(Seats) /\ h.pending # <<>> /\ IsInjective(h.pending)
         /\ Actor(h) = Head(h.pending) /\ Actor(h) \in Seats /\ Actor(h) # NoSeat
         /\ Actor(h) \in Eligible(h) /\ h.remaining[Actor(h)] \in Nat \ {0}
         /\ h \in HandType /\ ~h.terminal /\ RoundOK(h) /\ ChipsOK(h, stacks)
<1>1. /\ h \in HandType /\ h.pending # <<>> /\ RoundOK(h) /\ ChipsOK(h, stacks) /\ ~h.terminal
      /\ ToSet(h.pending) \subseteq Eligible(h)
  BY DEF HandOK
<1>2. h.pending \in Seq(Seats) /\ IsInjective(h.pending) /\ Actor(h) = Head(h.pending)
  BY <1>1 DEF HandType, RoundOK, Actor
<1>3. Actor(h) \in Seats /\ Actor(h) \in Eligible(h)
  BY <1>1, <1>2, TailFacts
<1>4. h.remaining[Actor(h)] \in Nat /\ h.remaining[Actor(h)] # 0
  BY <1>1, <1>3 DEF HandType, ChipsOK, Eligible
<1>5. QED
  BY <1>1, <1>2, <1>3, <1>4, SeatsFinite

\* An action that does not raise: x is the hand with the fold or the payment
\* in it, before the round goes on.
LEMMA PassiveFacts ==
  ASSUME NEW stacks, NEW h, HandOK(h, stacks), ~h.closed, NEW seat, seat = Actor(h),
         NEW x \in HandType, ChipsOK(x, stacks), x.pending = h.pending, x.acted = h.acted,
         ~x.closed, ~x.terminal, Eligible(x) \subseteq Eligible(h), x.highest = h.highest,
         \A s \in Seats : s # seat => x.streetPaid[s] = h.streetPaid[s],
         seat \in Eligible(x) => x.streetPaid[seat] = x.highest
  PROVE  /\ HandOK(PassiveComplete(x, seat), stacks) /\ Fewer(PassiveComplete(x, seat), x)
         /\ ~Waits(PassiveComplete(x, seat), seat)
<1> DEFINE g == [x EXCEPT !.acted = @ \cup {seat}, !.pending = Tail(@)]
<1>1. /\ h.pending \in Seq(Seats) /\ h.pending # <<>> /\ IsInjective(h.pending)
      /\ seat = Head(h.pending) /\ seat \in Seats /\ RoundOK(h)
  BY ActorFacts
<1>2. /\ Tail(h.pending) \in Seq(Seats) /\ IsInjective(Tail(h.pending))
      /\ seat \notin ToSet(Tail(h.pending))
      /\ \A s \in ToSet(h.pending) : s = seat \/ s \in ToSet(Tail(h.pending))
      /\ ToSet(Tail(h.pending)) \subseteq ToSet(h.pending)
  BY <1>1, TailFacts
<1> HIDE DEF g
<1>3. /\ g \in HandType /\ g.pending = Tail(h.pending) /\ g.acted = h.acted \cup {seat}
      /\ g.closed = x.closed /\ g.terminal = x.terminal
      /\ g.remaining = x.remaining /\ g.totalPaid = x.totalPaid /\ g.allIn = x.allIn
      /\ g.streetPaid = x.streetPaid /\ g.highest = x.highest /\ g.folded = x.folded
      /\ g.street = x.street /\ g.lastFullRaise = x.lastFullRaise
  BY <1>1, <1>2 DEF g, HandType
<1>4. ChipsOK(g, stacks) /\ Eligible(g) = Eligible(x) /\ ~g.closed /\ ~g.terminal
  BY <1>3 DEF ChipsOK, Eligible, Live
<1>5. ASSUME NEW s \in Eligible(g) PROVE Waits(g, s) \/ Matched(g, s)
  <2>1. CASE s = seat
    BY <1>3, <1>4, <1>5, <2>1 DEF Matched
  <2>2. CASE s # seat
    <3>1. s \in Eligible(h) /\ s \in Seats
      BY <1>4, <1>5 DEF Eligible, Live
    <3>2. Waits(h, s) \/ Matched(h, s)
      BY <1>1, <3>1 DEF RoundOK
    <3>3. QED
      BY <1>2, <1>3, <2>2, <3>1, <3>2 DEF Waits, Matched
  <2>3. QED
    BY <2>1, <2>2
<1>6. \A s \in Seats : Waits(g, s) /\ s \in g.acted => g.streetPaid[s] < g.highest
  BY <1>1, <1>2, <1>3 DEF RoundOK, Waits
<1>7. RoundOK(g)
  BY <1>2, <1>3, <1>5, <1>6 DEF RoundOK
<1>8. PassiveComplete(x, seat) = NormalizeRound(g)
  BY DEF PassiveComplete, g
<1>9. HandOK(NormalizeRound(g), stacks) /\ Fewer(NormalizeRound(g), g)
  BY <1>2, <1>3, <1>4, <1>7, NormalizeFacts, NormalizeFrame
<1>10. ~Waits(g, seat) /\ \A s : Waits(g, s) => Waits(x, s)
  BY <1>2, <1>3 DEF Waits
<1>11. QED
  BY <1>3, <1>8, <1>9, <1>10 DEF Fewer, SameChips

(* Paying moves chips from one stack to the pot.                           *)
LEMMA PayFacts ==
  ASSUME NEW stacks, NEW h \in HandType, ChipsOK(h, stacks), NEW seat \in Seats,
         NEW target \in Nat, target >= h.streetPaid[seat], target <= MaxTarget(h, seat)
  PROVE  LET g == PayTo(h, seat, target)
         IN  /\ g \in HandType /\ g.street = h.street /\ g.folded = h.folded
             /\ g.highest = h.highest /\ g.lastFullRaise = h.lastFullRaise
             /\ g.acted = h.acted /\ g.pending = h.pending
             /\ g.closed = h.closed /\ g.terminal = h.terminal
             /\ g.streetPaid[seat] = target
             /\ g.remaining[seat] = MaxTarget(h, seat) - target
             /\ g.totalPaid[seat] = h.totalPaid[seat] + (target - h.streetPaid[seat])
             /\ \A s \in Seats : s # seat => g.streetPaid[s] = h.streetPaid[s]
             /\ \A s \in Seats : s # seat => /\ g.remaining[s] = h.remaining[s]
                                             /\ g.totalPaid[s] = h.totalPaid[s]
             /\ \A s \in Seats : /\ g.streetPaid[s] <= g.totalPaid[s]
                                 /\ g.remaining[s] + g.totalPaid[s] = stacks[s]
             /\ g.allIn = {s \in Seats : g.remaining[s] = 0}
             /\ Eligible(g) \subseteq Eligible(h)
             /\ target = MaxTarget(h, seat) => seat \notin Eligible(g)
<1> DEFINE g == PayTo(h, seat, target)
           delta == target - h.streetPaid[seat]
<1>1. /\ h.remaining \in [Seats -> Nat] /\ h.streetPaid \in [Seats -> Nat]
      /\ h.totalPaid \in [Seats -> Nat] /\ h.allIn \in SUBSET Seats
      /\ h.remaining[seat] \in Nat /\ h.streetPaid[seat] \in Nat /\ h.totalPaid[seat] \in Nat
  BY DEF HandType
<1>2. delta \in Nat /\ delta <= h.remaining[seat] /\ h.remaining[seat] - delta \in Nat
      /\ h.remaining[seat] - delta = MaxTarget(h, seat) - target
  BY <1>1 DEF MaxTarget
<1>3. PICK r \in [Seats -> Nat], p \in [Seats -> Nat], t \in [Seats -> Nat], a \in SUBSET Seats :
             /\ r = [h.remaining EXCEPT ![seat] = h.remaining[seat] - delta]
             /\ p = [h.streetPaid EXCEPT ![seat] = target]
             /\ t = [h.totalPaid EXCEPT ![seat] = h.totalPaid[seat] + delta]
             /\ a = IF h.remaining[seat] = delta THEN h.allIn \cup {seat} ELSE h.allIn
  <2> HIDE DEF delta
  <2>1. /\ [h.remaining EXCEPT ![seat] = h.remaining[seat] - delta] \in [Seats -> Nat]
        /\ [h.streetPaid EXCEPT ![seat] = target] \in [Seats -> Nat]
        /\ [h.totalPaid EXCEPT ![seat] = h.totalPaid[seat] + delta] \in [Seats -> Nat]
        /\ (IF h.remaining[seat] = delta THEN h.allIn \cup {seat} ELSE h.allIn) \in SUBSET Seats
    BY <1>1, <1>2
  <2>2. QED
    BY <2>1
<1>4. g = [h EXCEPT !.remaining = r, !.streetPaid = p, !.totalPaid = t, !.allIn = a]
  BY <1>3 DEF PayTo
<1> HIDE DEF g, delta
<1>5. /\ g \in HandType /\ g.street = h.street /\ g.folded = h.folded
      /\ g.highest = h.highest /\ g.lastFullRaise = h.lastFullRaise
      /\ g.acted = h.acted /\ g.pending = h.pending
      /\ g.closed = h.closed /\ g.terminal = h.terminal
      /\ g.remaining = r /\ g.streetPaid = p /\ g.totalPaid = t /\ g.allIn = a
  BY <1>3, <1>4 DEF HandType
<1>6. /\ g.remaining[seat] = h.remaining[seat] - delta
      /\ g.streetPaid[seat] = target /\ g.totalPaid[seat] = h.totalPaid[seat] + delta
      /\ \A s \in Seats : s # seat => /\ g.streetPaid[s] = h.streetPaid[s]
                                      /\ g.remaining[s] = h.remaining[s]
                                      /\ g.totalPaid[s] = h.totalPaid[s]
  BY <1>1, <1>3, <1>5
<1>7. ASSUME NEW s \in Seats
      PROVE  g.streetPaid[s] <= g.totalPaid[s] /\ g.remaining[s] + g.totalPaid[s] = stacks[s]
  <2>1. h.streetPaid[s] <= h.totalPaid[s] /\ h.remaining[s] + h.totalPaid[s] = stacks[s]
    BY DEF ChipsOK
  <2>2. CASE s = seat
    BY <1>1, <1>2, <1>6, <2>1, <2>2 DEF delta
  <2>3. CASE s # seat
    BY <1>6, <2>1, <2>3
  <2>4. QED
    BY <2>2, <2>3
<1>8. g.allIn = {s \in Seats : g.remaining[s] = 0}
  <2>1. h.allIn = {s \in Seats : h.remaining[s] = 0}
    BY DEF ChipsOK
  <2>2. g.remaining[seat] = 0 <=> h.remaining[seat] = delta
    BY <1>1, <1>2, <1>6
  <2>3. ASSUME NEW s \in Seats PROVE s \in g.allIn <=> g.remaining[s] = 0
    <3>1. CASE s = seat
      <4>1. h.remaining[seat] # delta => h.remaining[seat] # 0
        BY <1>1, <1>2
      <4>2. QED
        BY <1>3, <1>5, <2>1, <2>2, <3>1, <4>1
    <3>2. CASE s # seat
      BY <1>3, <1>5, <1>6, <2>1, <3>2
    <3>3. QED
      BY <3>1, <3>2
  <2>4. g.allIn \subseteq Seats
    BY <1>5
  <2>5. QED
    BY <2>3, <2>4
<1>9. Eligible(g) \subseteq Eligible(h)
  BY <1>3, <1>5 DEF Eligible, Live
<1>10. target = MaxTarget(h, seat) => seat \notin Eligible(g)
  <2>1. MaxTarget(h, seat) \in Nat
    BY <1>1 DEF MaxTarget
  <2>2. target = MaxTarget(h, seat) => g.remaining[seat] = 0
    BY <1>2, <1>6, <2>1
  <2>3. QED
    BY <1>8, <2>2 DEF Eligible
<1>11. g.totalPaid[seat] = h.totalPaid[seat] + (target - h.streetPaid[seat])
  BY <1>6 DEF delta
<1>12. QED
  BY <1>2, <1>5, <1>6, <1>7, <1>8, <1>9, <1>10, <1>11 DEF g

LEMMA AppliedCases ==
  ASSUME NEW h, NEW e, NEW low, low <=> e.to <= h.highest, ~low <=> e.to > h.highest
  PROVE  /\ e.kind = "FOLD" =>
              Applied(h, e) = Ended(PassiveComplete([h EXCEPT !.folded = @ \cup {e.seat}], e.seat))
         /\ e.kind = "CHECK" => Applied(h, e) = Ended(PassiveComplete(h, e.seat))
         /\ e.kind \in Wagers /\ low =>
              Applied(h, e) = Ended(PassiveComplete(PayTo(h, e.seat, e.to), e.seat))
         /\ e.kind \in Wagers /\ ~low => Applied(h, e) = Ended(Raised(h, e))
<1>1. /\ e.kind = "FOLD" => e.kind # "CHECK" /\ e.kind \notin Wagers
      /\ e.kind = "CHECK" => e.kind # "FOLD" /\ e.kind \notin Wagers
      /\ e.kind \in Wagers => e.kind # "CHECK" /\ e.kind # "FOLD"
  BY DEF Wagers
<1>2. CASE e.kind = "FOLD"
  BY <1>1, <1>2, Zenon DEF Applied
<1>3. CASE e.kind = "CHECK"
  BY <1>1, <1>3, Zenon DEF Applied
<1>4. CASE e.kind \in Wagers /\ low
  BY <1>1, <1>4, Zenon DEF Applied
<1>5. CASE e.kind \in Wagers /\ ~low
  BY <1>1, <1>5, Zenon DEF Applied
<1>6. QED
  BY <1>2, <1>3, <1>4, <1>5

\* A raise: the payer's bet is the highest, and the others are asked again.
LEMMA RaisedFacts ==
  ASSUME NEW stacks, NEW h, HandOK(h, stacks), ~h.closed, NEW e, e.seat = Actor(h),
         e.to \in Nat, e.to > h.highest, e.to <= MaxTarget(h, e.seat),
         e.kind = "ALL_IN_TO" => e.to = MaxTarget(h, e.seat)
  PROVE  LET g == Raised(h, e)
         IN  /\ HandOK(g, stacks) /\ SameChips(g, PayTo(h, e.seat, e.to))
             /\ g.highest = e.to /\ ~Waits(g, e.seat)
<1> DEFINE seat == e.seat
           target == e.to
           paid == PayTo(h, seat, target)
           x == [paid EXCEPT !.highest = target]
           size == target - h.highest
           owing == {s \in Eligible(x) \ {seat} : x.streetPaid[s] < x.highest}
           full == [x EXCEPT !.lastFullRaise = size, !.acted = {seat},
                             !.pending = OrderedAfter(seat, Eligible(x) \ {seat})]
           short == [x EXCEPT !.acted = @ \cup {seat}, !.pending = OrderedAfter(seat, owing)]
<1>1. /\ h \in HandType /\ ChipsOK(h, stacks) /\ ~h.terminal /\ seat \in Seats /\ target \in Nat
      /\ h.highest \in Nat /\ h.streetPaid \in [Seats -> Nat] /\ h.acted \in SUBSET Seats
      /\ \A s \in Seats : h.streetPaid[s] \in Nat /\ h.streetPaid[s] <= h.highest
      /\ target > h.highest
  BY ActorFacts DEF HandType, ChipsOK
<1>2. target >= h.streetPaid[seat]
  BY <1>1
<1>3. /\ paid \in HandType /\ paid.acted = h.acted /\ ~paid.closed /\ ~paid.terminal
      /\ paid.streetPaid[seat] = target
      /\ \A s \in Seats : s # seat => paid.streetPaid[s] = h.streetPaid[s]
      /\ \A s \in Seats : /\ paid.streetPaid[s] <= paid.totalPaid[s]
                          /\ paid.remaining[s] + paid.totalPaid[s] = stacks[s]
      /\ paid.allIn = {s \in Seats : paid.remaining[s] = 0}
      /\ target = MaxTarget(h, seat) => seat \notin Eligible(paid)
  BY <1>1, <1>2, PayFacts
<1>4. size \in Nat \ {0}
  BY <1>1
<1> HIDE DEF paid, size, seat, target, owing
<1>5. /\ x \in HandType /\ x.highest = target /\ x.acted = h.acted /\ ~x.closed /\ ~x.terminal
      /\ x.streetPaid = paid.streetPaid /\ x.totalPaid = paid.totalPaid
      /\ x.remaining = paid.remaining /\ x.allIn = paid.allIn /\ x.folded = paid.folded
      /\ x.street = paid.street
  BY <1>1, <1>3 DEF HandType
<1> HIDE DEF x
<1>6. /\ x.streetPaid[seat] = target
      /\ \A s \in Seats : s # seat => x.streetPaid[s] \in Nat /\ x.streetPaid[s] < target
  <2>1. ASSUME NEW s \in Seats, s # seat PROVE x.streetPaid[s] \in Nat /\ x.streetPaid[s] < target
    <3>1. x.streetPaid[s] = h.streetPaid[s]
      BY <1>3, <1>5, <2>1
    <3>2. QED
      BY <1>1, <3>1
  <2>2. QED
    BY <1>3, <1>5, <2>1
<1>7. ChipsOK(x, stacks)
  <2>1. \A s \in Seats : x.streetPaid[s] <= x.highest
    BY <1>1, <1>5, <1>6
  <2>2. \E s \in Seats : x.streetPaid[s] = x.highest
    BY <1>1, <1>5, <1>6
  <2>3. QED
    BY <1>3, <1>5, <2>1, <2>2 DEF ChipsOK
<1>8. Eligible(x) \subseteq Seats /\ Eligible(x) = Eligible(paid)
  BY <1>5 DEF Eligible, Live
<1> DEFINE Right(g) == /\ HandOK(g, stacks) /\ SameChips(g, paid)
                       /\ g.highest = target /\ ~Waits(g, seat)
<1>9. Right(NormalizeRound(full))
  <2>1. PICK q : q = OrderedAfter(seat, Eligible(x) \ {seat})
    OBVIOUS
  <2>2. q \in Seq(Seats) /\ IsInjective(q) /\ ToSet(q) = Eligible(x) \ {seat}
    BY <1>1, <1>8, <2>1, OrderedAfterFacts
  <2>3. full = [x EXCEPT !.lastFullRaise = size, !.acted = {seat}, !.pending = q]
    BY <2>1
  <2> HIDE DEF full
  <2>4. /\ full \in HandType /\ full.acted = {seat} /\ full.pending = q
        /\ full.closed = x.closed /\ full.terminal = x.terminal
        /\ full.streetPaid = x.streetPaid /\ full.totalPaid = x.totalPaid
        /\ full.remaining = x.remaining /\ full.allIn = x.allIn /\ full.folded = x.folded
        /\ full.highest = x.highest /\ full.street = x.street
    BY <1>1, <1>4, <1>5, <2>2, <2>3 DEF HandType
  <2>5. ChipsOK(full, stacks) /\ Eligible(full) = Eligible(x)
    BY <1>7, <2>4 DEF ChipsOK, Eligible, Live
  <2>6. RoundOK(full)
    <3>1. \A s \in Eligible(full) : Waits(full, s) \/ Matched(full, s)
      BY <1>5, <1>6, <2>2, <2>4, <2>5 DEF Waits, Matched
    <3>2. \A s \in Seats : ~(Waits(full, s) /\ s \in full.acted)
      BY <2>2, <2>4 DEF Waits
    <3>3. QED
      BY <2>2, <2>4, <3>1, <3>2 DEF RoundOK
  <2>7. HandOK(NormalizeRound(full), stacks) /\ Fewer(NormalizeRound(full), full)
    BY <1>5, <2>2, <2>4, <2>5, <2>6, NormalizeFacts, NormalizeFrame
  <2>8. ~Waits(full, seat)
    BY <2>2, <2>4 DEF Waits
  <2>9. QED
    BY <1>5, <2>4, <2>7, <2>8 DEF Fewer, SameChips
<1>10. ASSUME seat \notin Eligible(x) PROVE Right(NormalizeRound(short))
  <2>1. PICK q : q = OrderedAfter(seat, owing)
    OBVIOUS
  <2>2. owing = Eligible(x)
    BY <1>5, <1>6, <1>8, <1>10 DEF owing
  <2>3. q \in Seq(Seats) /\ IsInjective(q) /\ ToSet(q) = Eligible(x)
    BY <1>1, <1>8, <2>1, <2>2, OrderedAfterFacts
  <2>4. PICK acted \in SUBSET Seats : acted = x.acted \cup {seat}
    BY <1>1, <1>5
  <2>5. short = [x EXCEPT !.acted = acted, !.pending = q]
    BY <2>1, <2>4
  <2> HIDE DEF short
  <2>6. /\ short \in HandType /\ short.acted = acted /\ short.pending = q
        /\ short.closed = x.closed /\ short.terminal = x.terminal
        /\ short.streetPaid = x.streetPaid /\ short.totalPaid = x.totalPaid
        /\ short.remaining = x.remaining /\ short.allIn = x.allIn /\ short.folded = x.folded
        /\ short.highest = x.highest /\ short.street = x.street
    BY <1>5, <2>3, <2>5 DEF HandType
  <2>7. ChipsOK(short, stacks) /\ Eligible(short) = Eligible(x)
    BY <1>7, <2>6 DEF ChipsOK, Eligible, Live
  <2>8. RoundOK(short)
    <3>1. \A s \in Eligible(short) : Waits(short, s)
      BY <2>3, <2>6, <2>7 DEF Waits
    <3>2. \A s \in Seats : Waits(short, s) => short.streetPaid[s] < short.highest
      BY <1>5, <1>6, <1>10, <2>3, <2>6 DEF Waits
    <3>3. QED
      BY <2>3, <2>6, <3>1, <3>2 DEF RoundOK
  <2>9. HandOK(NormalizeRound(short), stacks) /\ Fewer(NormalizeRound(short), short)
    BY <1>5, <2>3, <2>6, <2>7, <2>8, NormalizeFacts, NormalizeFrame
  <2>10. ~Waits(short, seat)
    BY <1>10, <2>3, <2>6 DEF Waits
  <2>11. QED
    BY <1>5, <2>6, <2>9, <2>10 DEF Fewer, SameChips
<1> HIDE DEF full, short, Right
<1> SUFFICES Right(Raised(h, e))
  BY DEF Right, paid, seat, target
<1>11. CASE e.kind # "ALL_IN_TO" \/ size >= h.lastFullRaise
  <2>1. Raised(h, e) = NormalizeRound(full)
    BY <1>11 DEF Raised, FullAggression, full, paid, x, size, seat, target
  <2>2. QED
    BY <1>9, <2>1
<1>12. CASE ~(e.kind # "ALL_IN_TO" \/ size >= h.lastFullRaise)
  <2>1. Raised(h, e) = NormalizeRound(short)
    BY <1>12 DEF Raised, ShortAllInAggression, short, paid, x, size, seat, target, owing
  <2>2. seat \notin Eligible(x)
    BY <1>3, <1>8, <1>12 DEF seat, target
  <2>3. QED
    BY <1>10, <2>1, <2>2
<1>13. QED
  BY <1>11, <1>12

(* A wager that is accepted puts more in, and is exact where it is short.  *)
LEMMA WagerFacts ==
  ASSUME NEW stacks, NEW h, HandOK(h, stacks), NEW e, Accepts(h, e),
         e.to \in Nat \cup {NoAmount}, e.kind \in Wagers, NEW seat, seat = Actor(h)
  PROVE  /\ e.to \in Nat /\ e.to > h.streetPaid[seat] /\ e.to <= MaxTarget(h, seat)
         /\ MaxTarget(h, seat) \in Nat
         /\ e.to <= h.highest => e.to = h.highest \/ e.to = MaxTarget(h, seat)
         /\ e.kind = "ALL_IN_TO" => e.to = MaxTarget(h, seat)
         /\ e.kind = "CALL" => e.to <= h.highest
         /\ e.kind = "BET_TO" => e.to > h.highest /\ h.highest = 0 /\ e.to - h.highest >= BigBlind
         /\ e.kind = "RAISE_TO" => e.to > h.highest /\ h.highest > 0 /\ e.to - h.highest >= h.lastFullRaise
         /\ e.to > h.highest => MayRaise(h, seat)
<1>1. ~h.closed /\ ~h.terminal /\ e.seat = seat
  BY DEF Accepts
<1>2. /\ h.highest \in Nat /\ h.streetPaid[seat] \in Nat /\ h.remaining[seat] \in Nat \ {0}
      /\ h.streetPaid[seat] <= h.highest /\ h.lastFullRaise \in Nat \ {0} /\ BigBlind \in Nat \ {0}
      /\ h.highest = 0 => MayRaise(h, seat)
  <2>1. /\ h \in HandType /\ ChipsOK(h, stacks) /\ RoundOK(h) /\ seat \in Seats
        /\ h.remaining[seat] \in Nat \ {0} /\ h.pending \in Seq(Seats) /\ h.pending # <<>>
        /\ IsInjective(h.pending) /\ seat = Head(h.pending)
    BY <1>1, ActorFacts
  <2>2. /\ h.highest \in Nat /\ h.streetPaid[seat] \in Nat /\ h.lastFullRaise \in Nat \ {0}
        /\ h.streetPaid[seat] <= h.highest
    BY <2>1 DEF HandType, ChipsOK
  <2>3. Waits(h, seat)
    BY <2>1, TailFacts DEF Waits
  <2>4. seat \in h.acted => h.streetPaid[seat] < h.highest
    BY <2>1, <2>3 DEF RoundOK
  <2>5. QED
    BY <2>1, <2>2, <2>4, ReplayAssumption DEF MayRaise
<1>3. MaxTarget(h, seat) \in Nat /\ MaxTarget(h, seat) > h.streetPaid[seat]
  BY <1>2 DEF MaxTarget
<1>4. CASE e.kind = "CALL"
  <2>1. e.to = CallTarget(h, seat) /\ Facing(h, seat) > 0
    BY <1>4 DEF Accepts
  <2>2. QED
    BY <1>2, <1>3, <1>4, <2>1 DEF CallTarget, Lesser, Facing
<1>5. CASE e.kind = "BET_TO"
  <2>1. /\ h.highest = 0 /\ e.to > h.streetPaid[seat] /\ e.to <= MaxTarget(h, seat)
        /\ e.to - h.streetPaid[seat] >= BigBlind
    BY <1>5 DEF Accepts
  <2>2. e.to \in Nat
    BY <1>2, <2>1 DEF NoAmount
  <2>3. QED
    BY <1>2, <1>3, <1>5, <2>1, <2>2
<1>6. CASE e.kind = "RAISE_TO"
  <2>1. /\ h.highest > 0 /\ MayRaise(h, seat) /\ e.to > h.highest
        /\ e.to <= MaxTarget(h, seat) /\ e.to - h.highest >= h.lastFullRaise
    BY <1>6 DEF Accepts
  <2>2. e.to \in Nat
    BY <1>2, <2>1 DEF NoAmount
  <2>3. QED
    BY <1>2, <1>3, <1>6, <2>1, <2>2
<1>7. CASE e.kind = "ALL_IN_TO"
  <2>1. /\ e.to = MaxTarget(h, seat) /\ e.to > h.streetPaid[seat]
        /\ e.to > h.highest => MayRaise(h, seat)
    BY <1>7 DEF Accepts
  <2>2. QED
    BY <1>3, <1>7, <2>1
<1>8. QED
  BY <1>4, <1>5, <1>6, <1>7 DEF Wagers

\* What an action makes of a hand: the seat that acts pays, folds or neither,
\* and is not asked again; others are asked only if it raised.
Effect(h, e, g) ==
  /\ g.street = h.street
  /\ \A s \in Seats : s # e.seat => /\ g.remaining[s] = h.remaining[s]
                                   /\ g.streetPaid[s] = h.streetPaid[s]
                                   /\ g.totalPaid[s] = h.totalPaid[s]
  /\ g.folded = IF e.kind = "FOLD" THEN h.folded \cup {e.seat} ELSE h.folded
  /\ e.kind \notin Wagers => /\ g.streetPaid[e.seat] = h.streetPaid[e.seat]
                             /\ g.remaining[e.seat] = h.remaining[e.seat]
                             /\ g.totalPaid[e.seat] = h.totalPaid[e.seat]
                             /\ g.highest = h.highest
  /\ e.kind \in Wagers =>
       /\ e.to \in Nat /\ e.to > h.streetPaid[e.seat] /\ g.streetPaid[e.seat] = e.to
       /\ g.remaining[e.seat] = MaxTarget(h, e.seat) - e.to
       /\ g.totalPaid[e.seat] = h.totalPaid[e.seat] + (e.to - h.streetPaid[e.seat])
  /\ ~Waits(g, e.seat)
  /\ \/ /\ g.highest = h.highest /\ g.lastFullRaise = h.lastFullRaise
        /\ \A s : Waits(g, s) => Waits(h, s)
     \/ g.highest > h.highest

(* An accepted action keeps the invariant.                                 *)
LEMMA AppliedKeeps ==
  ASSUME NEW stacks, NEW h, HandOK(h, stacks), NEW e, Accepts(h, e),
         e.to \in Nat \cup {NoAmount}
  PROVE  HandOK(Applied(h, e), stacks) /\ Effect(h, e, Applied(h, e))
<1> DEFINE seat == Actor(h)
           g == Applied(h, e)
<1>1. /\ ~h.closed /\ ~h.terminal /\ e.seat = seat
  BY DEF Accepts
<1>2. /\ h \in HandType /\ ChipsOK(h, stacks) /\ seat \in Seats /\ seat \in Eligible(h)
      /\ h.highest \in Nat /\ h.streetPaid[seat] \in Nat /\ h.remaining[seat] \in Nat \ {0}
      /\ h.streetPaid[seat] <= h.highest
  BY <1>1, ActorFacts DEF HandType, ChipsOK
<1> HIDE DEF seat
<1>3. PICK low \in BOOLEAN : low <=> e.to <= h.highest
  OBVIOUS
<1>4. ~low <=> e.to > h.highest
  BY <1>2, <1>3 DEF NoAmount
<1>5. CASE e.kind = "FOLD"
  <2>1. PICK folded \in SUBSET Seats : folded = h.folded \cup {seat}
    BY <1>2 DEF HandType
  <2>2. PICK x : x = [h EXCEPT !.folded = folded]
    OBVIOUS
  <2>3. /\ x \in HandType /\ x.folded = folded /\ x.pending = h.pending /\ x.acted = h.acted
        /\ x.closed = h.closed /\ x.terminal = h.terminal /\ x.highest = h.highest
        /\ x.streetPaid = h.streetPaid /\ x.totalPaid = h.totalPaid
        /\ x.remaining = h.remaining /\ x.allIn = h.allIn
        /\ x.street = h.street /\ x.lastFullRaise = h.lastFullRaise
    BY <1>2, <2>2 DEF HandType
  <2>4. ChipsOK(x, stacks) /\ Eligible(x) \subseteq Eligible(h) /\ seat \notin Eligible(x)
    BY <1>2, <2>1, <2>3 DEF ChipsOK, Eligible, Live
  <2>5. /\ HandOK(PassiveComplete(x, seat), stacks) /\ Fewer(PassiveComplete(x, seat), x)
        /\ ~Waits(PassiveComplete(x, seat), seat)
    BY <1>1, <2>3, <2>4, PassiveFacts DEF seat
  <2>6. g = Ended(PassiveComplete(x, seat))
    BY <1>1, <1>3, <1>4, <1>5, <2>1, <2>2, AppliedCases
  <2> HIDE DEF g
  <2>7. HandOK(g, stacks) /\ Fewer(g, x) /\ ~Waits(g, seat)
    BY <2>5, <2>6, EndedFacts DEF Fewer, SameChips
  <2>8. Effect(h, e, g)
    BY <1>1, <1>5, <2>1, <2>3, <2>7 DEF Effect, Fewer, SameChips, Waits, Wagers
  <2>9. QED
    BY <2>7, <2>8 DEF g
<1>6. CASE e.kind = "CHECK"
  <2>1. Facing(h, seat) = 0
    BY <1>6 DEF Accepts, seat
  <2>2. h.streetPaid[seat] = h.highest
    BY <1>2, <2>1 DEF Facing
  <2>3. /\ HandOK(PassiveComplete(h, seat), stacks) /\ Fewer(PassiveComplete(h, seat), h)
        /\ ~Waits(PassiveComplete(h, seat), seat)
    BY <1>1, <1>2, <2>2, PassiveFacts DEF seat
  <2>4. g = Ended(PassiveComplete(h, seat))
    BY <1>1, <1>3, <1>4, <1>6, AppliedCases
  <2> HIDE DEF g
  <2>5. HandOK(g, stacks) /\ Fewer(g, h) /\ ~Waits(g, seat)
    BY <2>3, <2>4, EndedFacts DEF Fewer, SameChips
  <2>6. Effect(h, e, g)
    BY <1>1, <1>6, <2>5 DEF Effect, Fewer, SameChips, Wagers
  <2>7. QED
    BY <2>5, <2>6 DEF g
<1>7. CASE e.kind \in Wagers
  <2>1. /\ e.to \in Nat /\ e.to > h.streetPaid[seat] /\ e.to <= MaxTarget(h, seat)
        /\ e.to <= h.highest => e.to = h.highest \/ e.to = MaxTarget(h, seat)
        /\ e.kind = "ALL_IN_TO" => e.to = MaxTarget(h, seat)
    BY <1>7, WagerFacts DEF seat
  <2>2. PICK x : x = PayTo(h, seat, e.to)
    OBVIOUS
  <2>3. e.to >= h.streetPaid[seat]
    BY <1>2, <2>1
  <2>4. /\ x \in HandType /\ x.street = h.street /\ x.folded = h.folded
        /\ x.highest = h.highest /\ x.lastFullRaise = h.lastFullRaise
        /\ x.acted = h.acted /\ x.pending = h.pending /\ ~x.closed /\ ~x.terminal
        /\ x.streetPaid[seat] = e.to /\ x.remaining[seat] = MaxTarget(h, seat) - e.to
        /\ x.totalPaid[seat] = h.totalPaid[seat] + (e.to - h.streetPaid[seat])
        /\ \A s \in Seats : s # seat => x.streetPaid[s] = h.streetPaid[s]
        /\ \A s \in Seats : s # seat => /\ x.remaining[s] = h.remaining[s]
                                        /\ x.totalPaid[s] = h.totalPaid[s]
        /\ \A s \in Seats : /\ x.streetPaid[s] <= x.totalPaid[s]
                            /\ x.remaining[s] + x.totalPaid[s] = stacks[s]
        /\ x.allIn = {s \in Seats : x.remaining[s] = 0}
        /\ Eligible(x) \subseteq Eligible(h)
        /\ e.to = MaxTarget(h, seat) => seat \notin Eligible(x)
    BY <1>1, <1>2, <2>1, <2>2, <2>3, PayFacts
  <2>5. ASSUME SameChips(g, x), ~Waits(g, seat),
               \/ /\ g.highest = h.highest /\ g.lastFullRaise = h.lastFullRaise
                  /\ \A s : Waits(g, s) => Waits(h, s)
               \/ g.highest > h.highest
        PROVE  Effect(h, e, g)
    <3> HIDE DEF g
    <3>1. e.kind # "FOLD"
      BY <1>7 DEF Wagers
    <3>2. QED
      BY <1>1, <1>7, <2>1, <2>4, <2>5, <3>1 DEF Effect, SameChips
  <2>6. CASE low
    <3>1. e.to <= h.highest
      BY <1>3, <2>6
    <3>2. ChipsOK(x, stacks)
      <4>1. ASSUME NEW s \in Seats PROVE x.streetPaid[s] <= x.highest
        <5>1. h.streetPaid[s] <= h.highest
          BY <1>2 DEF ChipsOK
        <5>2. QED
          BY <2>4, <3>1, <5>1
      <4>2. PICK w \in Seats : h.streetPaid[w] = h.highest
        BY <1>2 DEF ChipsOK
      <4>3. w # seat
        BY <1>2, <2>1, <3>1, <4>2
      <4>4. x.streetPaid[w] = x.highest
        BY <2>4, <4>2, <4>3
      <4>5. QED
        BY <2>4, <4>1, <4>4 DEF ChipsOK
    <3>3. seat \in Eligible(x) => x.streetPaid[seat] = x.highest
      BY <2>1, <2>4, <3>1
    <3>4. /\ HandOK(PassiveComplete(x, seat), stacks) /\ Fewer(PassiveComplete(x, seat), x)
          /\ ~Waits(PassiveComplete(x, seat), seat)
      BY <1>1, <2>4, <3>2, <3>3, PassiveFacts DEF seat
    <3>5. g = Ended(PassiveComplete(x, seat))
      BY <1>1, <1>3, <1>4, <1>7, <2>2, <2>6, AppliedCases
    <3> HIDE DEF g
    <3>6. HandOK(g, stacks) /\ Fewer(g, x) /\ ~Waits(g, seat)
      BY <3>4, <3>5, EndedFacts DEF Fewer, SameChips
    <3>7. SameChips(g, x) /\ \A s : Waits(g, s) => Waits(h, s)
      BY <2>4, <3>6 DEF Fewer, Waits
    <3>8. Effect(h, e, g)
      BY <2>4, <2>5, <3>6, <3>7 DEF Fewer
    <3>9. QED
      BY <3>6, <3>8 DEF g
  <2>7. CASE ~low
    <3>1. e.to > h.highest
      BY <1>4, <2>7
    <3>2. /\ HandOK(Raised(h, e), stacks) /\ SameChips(Raised(h, e), x)
          /\ Raised(h, e).highest = e.to /\ ~Waits(Raised(h, e), seat)
      BY <1>1, <2>1, <2>2, <3>1, RaisedFacts DEF seat
    <3>3. g = Ended(Raised(h, e))
      BY <1>3, <1>4, <1>7, <2>7, AppliedCases
    <3> HIDE DEF g
    <3>4. HandOK(g, stacks) /\ SameChips(g, x) /\ g.highest = e.to /\ ~Waits(g, seat)
      BY <3>2, <3>3, EndedFacts DEF Fewer, SameChips
    <3>5. Effect(h, e, g)
      BY <2>5, <3>1, <3>4
    <3>6. QED
      BY <3>4, <3>5 DEF g
  <2>8. QED
    BY <2>6, <2>7
<1>8. QED
  BY <1>5, <1>6, <1>7 DEF Accepts, Wagers

(* The deal of a street keeps it.                                          *)
LEMMA DealKeeps ==
  ASSUME NEW stacks, NEW h, HandOK(h, stacks), AcceptsDeal(h)
  PROVE  LET g == AppliedDeal(h, Button)
         IN  /\ HandOK(g, stacks) /\ g.street = h.street + 1 /\ g.streetPaid = Zero
             /\ g.remaining = h.remaining /\ g.totalPaid = h.totalPaid
             /\ g.folded = h.folded /\ g.allIn = h.allIn
             /\ g.highest = 0 /\ g.lastFullRaise = BigBlind
<1> DEFINE next == [h EXCEPT !.street = @ + 1, !.streetPaid = Zero, !.highest = 0,
                             !.lastFullRaise = BigBlind, !.acted = {}, !.closed = FALSE]
<1>0. /\ Button \in Seats /\ Zero \in [Seats -> Nat] /\ \A s \in Seats : Zero[s] = 0
      /\ BigBlind \in Nat \ {0}
  BY ReplayAssumption DEF Button, Seats, Zero
<1>1. h \in HandType /\ ChipsOK(h, stacks) /\ ~h.terminal /\ h.street + 1 \in 1..4
  BY DEF HandOK, HandType, AcceptsDeal
<1> HIDE DEF next
<1>2. /\ next \in HandType /\ next.streetPaid = Zero /\ next.highest = 0 /\ next.acted = {}
      /\ ~next.closed /\ ~next.terminal /\ next.remaining = h.remaining
      /\ next.totalPaid = h.totalPaid /\ next.allIn = h.allIn /\ next.folded = h.folded
      /\ next.street = h.street + 1 /\ next.lastFullRaise = BigBlind
  BY <1>0, <1>1 DEF next, HandType
<1>3. ChipsOK(next, stacks)
  <2>1. \A s \in Seats : /\ next.streetPaid[s] <= next.totalPaid[s]
                         /\ next.streetPaid[s] <= next.highest
                         /\ next.streetPaid[s] = next.highest
    BY <1>0, <1>1, <1>2 DEF HandType
  <2>2. QED
    BY <1>0, <1>1, <1>2, <2>1 DEF ChipsOK
<1>4. PICK q : q = OrderedAfter(Button, Eligible(next))
  OBVIOUS
<1>5. Eligible(next) \in SUBSET Seats
  BY DEF Eligible, Live
<1>6. q \in Seq(Seats) /\ IsInjective(q) /\ ToSet(q) = Eligible(next)
  BY <1>0, <1>4, <1>5, OrderedAfterFacts
<1>7. PICK x : x = [next EXCEPT !.pending = q]
  OBVIOUS
<1>8. /\ x \in HandType /\ x.pending = q /\ x.streetPaid = next.streetPaid
      /\ x.highest = next.highest /\ x.acted = next.acted /\ x.closed = next.closed
      /\ x.terminal = next.terminal /\ x.remaining = next.remaining
      /\ x.totalPaid = next.totalPaid /\ x.allIn = next.allIn /\ x.folded = next.folded
      /\ x.street = next.street /\ x.lastFullRaise = next.lastFullRaise
  BY <1>2, <1>6, <1>7 DEF HandType
<1>9. ChipsOK(x, stacks) /\ Eligible(x) = Eligible(next)
  BY <1>3, <1>8 DEF ChipsOK, Eligible, Live
<1>10. RoundOK(x)
  BY <1>2, <1>6, <1>8, <1>9 DEF RoundOK, Waits
<1>11. HandOK(NormalizeRound(x), stacks) /\ Fewer(NormalizeRound(x), x)
  BY <1>2, <1>6, <1>8, <1>9, <1>10, NormalizeFacts, NormalizeFrame
<1>12. AppliedDeal(h, Button) = Ended(NormalizeRound(x))
  BY <1>4, <1>7 DEF AppliedDeal, next
<1>13. QED
  BY <1>2, <1>8, <1>11, <1>12, EndedFacts DEF Fewer, SameChips

-----------------------------------------------------------------------------
(* Finite sets of numbers have a maximum.                                  *)
LEMMA BoundedMax ==
  ASSUME NEW S, S \subseteq Nat, S # {}, NEW bound \in Nat, \A y \in S : y <= bound
  PROVE  Max(S) \in S /\ \A y \in S : y <= Max(S)
<1> DEFINE B == {n \in Nat : \A y \in S : y <= n}
<1>1. B \subseteq Nat /\ bound \in B
  OBVIOUS
<1>2. PICK k \in B : \A l \in B : k <= l
  <2> HIDE DEF B
  <2>1. QED
    BY <1>1, LeastNumber
<1>3. k \in Nat /\ \A y \in S : y \in Nat /\ y <= k
  OBVIOUS
<1>4. k \in S
  <2>1. SUFFICES ASSUME k \notin S PROVE FALSE
    OBVIOUS
  <2>2. \A y \in S : y \in Nat /\ y < k
    BY <1>3, <2>1
  <2>3. k - 1 \in Nat /\ \A y \in S : y <= k - 1
    <3>1. PICK x \in S : TRUE
      OBVIOUS
    <3>2. x \in Nat /\ x < k
      BY <2>2
    <3>3. k - 1 \in Nat
      BY <1>3, <3>2
    <3>4. ASSUME NEW y \in S PROVE y <= k - 1
      <4>1. y \in Nat /\ y < k
        BY <2>2
      <4>2. QED
        BY <1>3, <4>1
    <3>5. QED
      BY <3>3, <3>4
  <2>4. k - 1 \in B
    BY <2>3
  <2>5. k <= k - 1
    BY <1>2, <2>4
  <2>6. QED
    BY <1>3, <2>5
<1>5. \E x \in S : \A y \in S : x >= y
  BY <1>3, <1>4
<1>6. Max(S) \in S /\ \A y \in S : Max(S) >= y
  BY <1>5, Zenon DEF Max
<1>7. QED
  BY <1>6

LEMMA FiniteIsBounded ==
  ASSUME NEW S, IsFiniteSet(S), S \subseteq Nat
  PROVE  \E bound \in Nat : \A y \in S : y <= bound
<1> DEFINE Unbounded(T) == ~\E bound \in Nat : \A y \in T : y <= bound
           B == {n \in Nat : \E T \in SUBSET S : Cardinality(T) = n /\ Unbounded(T)}
<1>0. \A T \in SUBSET S : IsFiniteSet(T) /\ Cardinality(T) \in Nat
  BY FS_Subset, FS_CardinalityType
<1> HIDE DEF Unbounded
<1>1. SUFFICES ASSUME Unbounded(S) PROVE FALSE
  BY DEF Unbounded
<1>2. B \subseteq Nat /\ B # {}
  BY <1>0, <1>1
<1>3. PICK k \in B : \A l \in B : k <= l
  <2> HIDE DEF B
  <2>1. QED
    BY <1>2, LeastNumber
<1>4. PICK T \in SUBSET S : Cardinality(T) = k /\ Unbounded(T)
  OBVIOUS
<1>5. PICK x \in T : TRUE
  BY <1>4 DEF Unbounded
<1>6. T \ {x} \in SUBSET S /\ x \in Nat /\ k \in Nat /\ Cardinality(T \ {x}) = k - 1
  BY <1>0, <1>4, <1>5, FS_RemoveElement
<1>7. k - 1 \in Nat /\ k - 1 \notin B
  BY <1>0, <1>3, <1>6
<1>8. ~Unbounded(T \ {x})
  BY <1>6, <1>7
<1>9. PICK bound \in Nat : \A y \in T \ {x} : y <= bound
  BY <1>8 DEF Unbounded
<1>10. \A y \in T : y \in Nat /\ y <= bound + x
  BY <1>6, <1>9
<1>11. QED
  BY <1>4, <1>6, <1>9, <1>10 DEF Unbounded

(* No starting stack is above the largest.                                 *)
LEMMA StacksFacts ==
  Max(Stacks) \in Nat /\ \A y \in Stacks : y \in Nat \ {0} /\ y <= Max(Stacks)
<1>1. IsFiniteSet(Stacks) /\ Stacks # {} /\ Stacks \subseteq Nat /\ 0 \notin Stacks
  BY ReplayAssumption
<1>2. PICK bound \in Nat : \A y \in Stacks : y <= bound
  BY <1>1, FiniteIsBounded
<1>3. Max(Stacks) \in Stacks /\ \A y \in Stacks : y <= Max(Stacks)
  BY <1>1, <1>2, BoundedMax
<1>4. QED
  BY <1>1, <1>3

-----------------------------------------------------------------------------
(* The forced bets.                                                        *)
PostedOK(h, stacks, fee) ==
  /\ h \in HandType /\ ~h.closed /\ ~h.terminal /\ h.acted = {} /\ h.folded = {}
  /\ h.street = 1 /\ h.lastFullRaise = BigBlind
  /\ \A s \in Seats : /\ h.totalPaid[s] = h.streetPaid[s] + Lesser(fee, stacks[s])
                      /\ h.remaining[s] + h.totalPaid[s] = stacks[s]
  /\ h.allIn = {s \in Seats : h.remaining[s] = 0}

LEMMA CommitFacts ==
  ASSUME NEW stacks \in [Seats -> Nat \ {0}], NEW fee \in Nat, NEW h, PostedOK(h, stacks, fee),
         NEW seat \in Seats, NEW amount \in Nat
  PROVE  /\ PostedOK(CommitDelta(h, seat, amount), stacks, fee)
         /\ CommitDelta(h, seat, amount).streetPaid[seat]
              = h.streetPaid[seat] + Lesser(amount, h.remaining[seat])
<1> DEFINE g == CommitDelta(h, seat, amount)
           paid == Lesser(amount, h.remaining[seat])
<1>1. /\ h \in HandType /\ h.remaining \in [Seats -> Nat] /\ h.streetPaid \in [Seats -> Nat]
      /\ h.totalPaid \in [Seats -> Nat] /\ h.allIn \in SUBSET Seats
      /\ h.remaining[seat] \in Nat /\ h.streetPaid[seat] \in Nat /\ h.totalPaid[seat] \in Nat
      /\ h.allIn = {s \in Seats : h.remaining[s] = 0}
  BY DEF HandType, PostedOK
<1>2. paid \in Nat /\ paid <= h.remaining[seat] /\ h.remaining[seat] - paid \in Nat
  BY <1>1 DEF Lesser
<1> HIDE DEF paid
<1>3. PICK r \in [Seats -> Nat], p \in [Seats -> Nat], t \in [Seats -> Nat], a \in SUBSET Seats :
             /\ r = [h.remaining EXCEPT ![seat] = h.remaining[seat] - paid]
             /\ p = [h.streetPaid EXCEPT ![seat] = h.streetPaid[seat] + paid]
             /\ t = [h.totalPaid EXCEPT ![seat] = h.totalPaid[seat] + paid]
             /\ a = IF h.remaining[seat] = paid THEN h.allIn \cup {seat} ELSE h.allIn
  <2>1. /\ [h.remaining EXCEPT ![seat] = h.remaining[seat] - paid] \in [Seats -> Nat]
        /\ [h.streetPaid EXCEPT ![seat] = h.streetPaid[seat] + paid] \in [Seats -> Nat]
        /\ [h.totalPaid EXCEPT ![seat] = h.totalPaid[seat] + paid] \in [Seats -> Nat]
        /\ (IF h.remaining[seat] = paid THEN h.allIn \cup {seat} ELSE h.allIn) \in SUBSET Seats
    BY <1>1, <1>2
  <2>2. QED
    BY <2>1
<1>4. g = [h EXCEPT !.remaining = r, !.streetPaid = p, !.totalPaid = t, !.allIn = a]
  BY <1>3 DEF CommitDelta, paid
<1> HIDE DEF g
<1>5. /\ g \in HandType /\ g.folded = h.folded /\ g.acted = h.acted
      /\ g.closed = h.closed /\ g.terminal = h.terminal
      /\ g.street = h.street /\ g.lastFullRaise = h.lastFullRaise
      /\ g.remaining = r /\ g.streetPaid = p /\ g.totalPaid = t /\ g.allIn = a
  BY <1>1, <1>3, <1>4 DEF HandType
<1>6. /\ g.remaining[seat] = h.remaining[seat] - paid
      /\ g.streetPaid[seat] = h.streetPaid[seat] + paid
      /\ g.totalPaid[seat] = h.totalPaid[seat] + paid
      /\ \A s \in Seats : s # seat => /\ g.streetPaid[s] = h.streetPaid[s]
                                      /\ g.remaining[s] = h.remaining[s]
                                      /\ g.totalPaid[s] = h.totalPaid[s]
  BY <1>1, <1>3, <1>5
<1>7. ASSUME NEW s \in Seats
      PROVE  /\ g.totalPaid[s] = g.streetPaid[s] + Lesser(fee, stacks[s])
             /\ g.remaining[s] + g.totalPaid[s] = stacks[s]
  <2>1. /\ h.totalPaid[s] = h.streetPaid[s] + Lesser(fee, stacks[s])
        /\ h.remaining[s] + h.totalPaid[s] = stacks[s]
        /\ stacks[s] \in Nat /\ Lesser(fee, stacks[s]) \in Nat
    BY DEF PostedOK, Lesser
  <2>2. CASE s = seat
    BY <1>1, <1>2, <1>6, <2>1, <2>2
  <2>3. CASE s # seat
    BY <1>6, <2>1, <2>3
  <2>4. QED
    BY <2>2, <2>3
<1>8. g.allIn = {s \in Seats : g.remaining[s] = 0}
  <2>1. g.remaining[seat] = 0 <=> h.remaining[seat] = paid
    BY <1>1, <1>2, <1>6
  <2>2. ASSUME NEW s \in Seats PROVE s \in g.allIn <=> g.remaining[s] = 0
    <3>1. CASE s = seat
      <4>1. h.remaining[seat] # paid => h.remaining[seat] # 0
        BY <1>1, <1>2
      <4>2. QED
        BY <1>1, <1>3, <1>5, <2>1, <3>1, <4>1
    <3>2. CASE s # seat
      BY <1>1, <1>3, <1>5, <1>6, <3>2
    <3>3. QED
      BY <3>1, <3>2
  <2>3. g.allIn \subseteq Seats
    BY <1>5
  <2>4. QED
    BY <2>2, <2>3
<1>9. PostedOK(g, stacks, fee)
  BY <1>5, <1>7, <1>8 DEF PostedOK
<1>10. g.streetPaid[seat] = h.streetPaid[seat] + paid
  BY <1>6
<1>11. QED
  BY <1>9, <1>10 DEF g, paid

(* The highest bet is one of the bets.                                     *)
LEMMA HighestFacts ==
  ASSUME NEW paid \in [Seats -> Nat], NEW bound \in Nat, \A s \in Seats : paid[s] <= bound
  PROVE  /\ Max(Range(paid)) \in Nat /\ \A s \in Seats : paid[s] <= Max(Range(paid))
         /\ \E s \in Seats : paid[s] = Max(Range(paid))
<1>1. /\ Range(paid) \subseteq Nat /\ \A s \in Seats : paid[s] \in Range(paid)
      /\ \A y \in Range(paid) : \E s \in Seats : paid[s] = y
  BY DEF Range
<1>2. 0 \in Seats
  BY ReplayAssumption DEF Seats
<1>3. Range(paid) # {} /\ \A y \in Range(paid) : y <= bound
  BY <1>1, <1>2
<1>4. Max(Range(paid)) \in Range(paid) /\ \A y \in Range(paid) : y <= Max(Range(paid))
  BY <1>1, <1>3, BoundedMax
<1>5. QED
  BY <1>1, <1>4

\* Somebody has posted a big blind, or what was left of the stack.
BlindIsBet(h, stacks, fee) ==
  \E s \in Seats : h.highest >= Lesser(BigBlind, stacks[s] - Lesser(fee, stacks[s]))

(* The deal of the cards, however short the stacks are: beside its bets,   *)
(* everybody has paid the ante.                                            *)
LEMMA DealtFacts ==
  ASSUME NEW button \in Seats, NEW stacks \in [Seats -> Nat \ {0}], NEW fee \in Nat,
         NEW bound \in Nat, \A s \in Seats : stacks[s] <= bound
  PROVE  LET forced == Dealt(button, stacks, fee)
         IN  /\ HandOK(forced, stacks)
             /\ forced.street = 1 /\ forced.folded = {} /\ forced.lastFullRaise = BigBlind
             /\ \A s \in Seats :
                  forced.totalPaid[s] = forced.streetPaid[s] + Lesser(fee, stacks[s])
             /\ BlindIsBet(forced, stacks, fee)
<1> DEFINE bare == [street |-> 1, remaining |-> stacks, streetPaid |-> Zero, totalPaid |-> Zero,
                    folded |-> {}, allIn |-> {}, highest |-> 0, lastFullRaise |-> BigBlind,
                    acted |-> {}, pending |-> <<>>, closed |-> FALSE, terminal |-> FALSE]
           anted == Anted(bare, fee)
           small == CommitDelta(anted, SmallBlindSeat(button), SmallBlind)
           big == CommitDelta(small, BigBlindSeat(button), BigBlind)
           posted == [big EXCEPT !.highest = Max(Range(big.streetPaid))]
           first == OrderedAfter(BigBlindSeat(button), Eligible(posted))
           h == [posted EXCEPT !.pending = first]
<1>1. /\ Players \in Nat /\ Players >= 2 /\ SmallBlind \in Nat /\ BigBlind \in Nat \ {0}
      /\ Zero \in [Seats -> Nat] /\ \A s \in Seats : Zero[s] = 0
  BY ReplayAssumption DEF Zero
<1>2. SmallBlindSeat(button) \in Seats /\ BigBlindSeat(button) \in Seats
  <2>1. \A s \in Seats : NextSeat(s) \in Seats
    BY <1>1 DEF NextSeat, Seats
  <2>2. QED
    BY <2>1 DEF SmallBlindSeat, BigBlindSeat
<1>3. stacks \in [Seats -> Nat] /\ \A s \in Seats : stacks[s] \in Nat \ {0}
  OBVIOUS
<1>4. PostedOK(anted, stacks, fee)
  <2>1. PICK r \in [Seats -> Nat], t \in [Seats -> Nat], a \in SUBSET Seats :
               /\ \A s \in Seats : /\ r[s] = stacks[s] - Lesser(fee, stacks[s])
                                   /\ t[s] = Lesser(fee, stacks[s])
               /\ a = {s \in Seats : stacks[s] <= fee}
               /\ anted = [bare EXCEPT !.remaining = r, !.totalPaid = t, !.allIn = a]
    <3>1. PICK r : r = [s \in Seats |-> stacks[s] - Lesser(fee, stacks[s])]
      OBVIOUS
    <3>2. PICK t : t = [s \in Seats |-> Zero[s] + Lesser(fee, stacks[s])]
      OBVIOUS
    <3>3. PICK a : a = {s \in Seats : stacks[s] <= fee}
      OBVIOUS
    <3>4. anted = [bare EXCEPT !.remaining = r, !.totalPaid = t, !.allIn = {} \cup a]
      BY <3>1, <3>2, <3>3 DEF Anted
    <3>5. \A s \in Seats : /\ stacks[s] - Lesser(fee, stacks[s]) \in Nat
                           /\ Lesser(fee, stacks[s]) \in Nat
      BY <1>3 DEF Lesser
    <3>6. r \in [Seats -> Nat] /\ \A s \in Seats : r[s] = stacks[s] - Lesser(fee, stacks[s])
      BY <3>1, <3>5
    <3>7. t \in [Seats -> Nat] /\ \A s \in Seats : t[s] = Lesser(fee, stacks[s])
      <4>1. \A s \in Seats : Zero[s] + Lesser(fee, stacks[s]) = Lesser(fee, stacks[s])
        BY <1>1, <3>5
      <4>2. QED
        BY <3>2, <3>5, <4>1
    <3>8. a \in SUBSET Seats /\ {} \cup a = a
      BY <3>3
    <3>9. anted = [bare EXCEPT !.remaining = r, !.totalPaid = t, !.allIn = a]
      BY <3>4, <3>8
    <3> HIDE DEF bare, anted
    <3>10. QED
      BY <3>3, <3>6, <3>7, <3>8, <3>9
  <2>2. <<>> \in Seq(Seats) /\ bare \in HandType
    BY <1>1, <1>3 DEF HandType
  <2> HIDE DEF anted
  <2>3. /\ anted \in HandType /\ ~anted.closed /\ ~anted.terminal /\ anted.acted = {}
        /\ anted.street = 1 /\ anted.lastFullRaise = BigBlind
        /\ anted.folded = {} /\ anted.remaining = r /\ anted.totalPaid = t
        /\ anted.streetPaid = Zero /\ anted.allIn = a
    BY <2>1, <2>2 DEF HandType
  <2>4. ASSUME NEW s \in Seats
        PROVE  /\ t[s] = Zero[s] + Lesser(fee, stacks[s]) /\ r[s] + t[s] = stacks[s]
               /\ stacks[s] <= fee <=> r[s] = 0
    <3>1. r[s] = stacks[s] - Lesser(fee, stacks[s]) /\ t[s] = Lesser(fee, stacks[s])
      BY <2>1
    <3>2. stacks[s] \in Nat /\ Zero[s] = 0
      BY <1>1, <1>3
    <3>3. QED
      BY <3>1, <3>2 DEF Lesser
  <2>5. a = {s \in Seats : r[s] = 0}
    BY <2>1, <2>4
  <2>6. QED
    BY <2>3, <2>4, <2>5 DEF PostedOK
<1> HIDE DEF anted
<1>5. PostedOK(small, stacks, fee)
  BY <1>1, <1>2, <1>4, CommitFacts
<1> HIDE DEF small
<1>6. /\ PostedOK(big, stacks, fee)
      /\ big.streetPaid[BigBlindSeat(button)]
           = small.streetPaid[BigBlindSeat(button)]
               + Lesser(BigBlind, small.remaining[BigBlindSeat(button)])
  BY <1>1, <1>2, <1>5, CommitFacts
<1> HIDE DEF big
<1>0. ASSUME NEW s \in Seats
      PROVE  /\ big.streetPaid[s] <= big.totalPaid[s] /\ big.streetPaid[s] <= bound
             /\ big.totalPaid[s] = big.streetPaid[s] + Lesser(fee, stacks[s])
  <2>1. /\ big.streetPaid[s] \in Nat /\ big.totalPaid[s] \in Nat /\ big.remaining[s] \in Nat
        /\ stacks[s] \in Nat /\ stacks[s] <= bound /\ Lesser(fee, stacks[s]) \in Nat
    BY <1>3, <1>6 DEF PostedOK, HandType, Lesser
  <2>2. /\ big.totalPaid[s] = big.streetPaid[s] + Lesser(fee, stacks[s])
        /\ big.remaining[s] + big.totalPaid[s] = stacks[s]
    BY <1>6 DEF PostedOK
  <2>3. QED
    BY <2>1, <2>2
<1>7. /\ Max(Range(big.streetPaid)) \in Nat
      /\ \A s \in Seats : big.streetPaid[s] <= Max(Range(big.streetPaid))
      /\ \E s \in Seats : big.streetPaid[s] = Max(Range(big.streetPaid))
  <2>1. big.streetPaid \in [Seats -> Nat]
    BY <1>6 DEF PostedOK, HandType
  <2>2. QED
    BY <1>0, <2>1, HighestFacts
<1>8. /\ posted \in HandType /\ posted.highest = Max(Range(big.streetPaid))
      /\ posted.streetPaid = big.streetPaid /\ posted.totalPaid = big.totalPaid
      /\ posted.remaining = big.remaining /\ posted.allIn = big.allIn
      /\ posted.folded = {} /\ posted.acted = {} /\ ~posted.closed /\ ~posted.terminal
      /\ posted.street = 1 /\ posted.lastFullRaise = BigBlind
  BY <1>6, <1>7 DEF PostedOK, HandType
<1> HIDE DEF posted
<1>9. ChipsOK(posted, stacks)
  BY <1>0, <1>6, <1>7, <1>8 DEF ChipsOK, PostedOK
<1>10. Eligible(posted) \in SUBSET Seats
  BY DEF Eligible, Live
<1>11. first \in Seq(Seats) /\ IsInjective(first) /\ ToSet(first) = Eligible(posted)
  BY <1>2, <1>10, OrderedAfterFacts
<1> HIDE DEF first
<1>12. /\ h \in HandType /\ h.pending = first /\ h.streetPaid = posted.streetPaid
       /\ h.highest = posted.highest /\ h.acted = {} /\ ~h.closed /\ ~h.terminal
       /\ h.remaining = posted.remaining /\ h.totalPaid = posted.totalPaid
       /\ h.allIn = posted.allIn /\ h.folded = {} /\ h.street = 1
       /\ h.lastFullRaise = BigBlind /\ IsInjective(h.pending)
  BY <1>8, <1>11 DEF HandType
<1>13. Dealt(button, stacks, fee) = NormalizeRound(h)
  BY DEF Dealt, PostForcedBets, anted, small, big, posted, first
<1> HIDE DEF h
<1>14. ChipsOK(h, stacks) /\ Eligible(h) = Eligible(posted)
  BY <1>8, <1>9, <1>12 DEF ChipsOK, Eligible, Live
<1>15. RoundOK(h)
  BY <1>11, <1>12, <1>14 DEF RoundOK, Waits
<1>16. HandOK(NormalizeRound(h), stacks) /\ Fewer(NormalizeRound(h), h)
  BY <1>12, <1>14, <1>15, NormalizeFacts, NormalizeFrame
<1>17. \A s \in Seats : h.totalPaid[s] = h.streetPaid[s] + Lesser(fee, stacks[s])
  BY <1>0, <1>8, <1>12
<1>18. \E s \in Seats : h.highest >= Lesser(BigBlind, stacks[s] - Lesser(fee, stacks[s]))
  <2>1. PICK s \in Seats : s = BigBlindSeat(button)
    BY <1>2
  <2>2. /\ small.streetPaid[s] \in Nat /\ small.remaining[s] \in Nat /\ stacks[s] \in Nat
        /\ small.totalPaid[s] \in Nat /\ Lesser(fee, stacks[s]) \in Nat
        /\ small.totalPaid[s] = small.streetPaid[s] + Lesser(fee, stacks[s])
        /\ small.remaining[s] + small.totalPaid[s] = stacks[s]
    BY <1>3, <1>5 DEF PostedOK, HandType, Lesser
  <2>3. PICK left \in Nat, bet \in Nat, dead \in Nat :
          left = small.remaining[s] /\ bet = small.streetPaid[s] /\ dead = Lesser(fee, stacks[s])
    BY <2>2
  <2>4. stacks[s] - dead = left + bet
    BY <2>2, <2>3
  <2>5. big.streetPaid[s] = bet + Lesser(BigBlind, left)
    BY <1>6, <2>1, <2>3
  <2>6. bet + Lesser(BigBlind, left) >= Lesser(BigBlind, left + bet)
    BY <1>1 DEF Lesser
  <2>7. h.highest >= big.streetPaid[s] /\ h.highest \in Nat
    BY <1>7, <1>8, <1>12
  <2>8. h.highest >= Lesser(BigBlind, left + bet)
    BY <1>1, <2>5, <2>6, <2>7 DEF Lesser
  <2>9. QED
    BY <2>3, <2>4, <2>8
<1>19. BlindIsBet(NormalizeRound(h), stacks, fee)
  BY <1>16, <1>18 DEF Fewer, BlindIsBet
<1>20. QED
  BY <1>12, <1>13, <1>16, <1>17, <1>19 DEF Fewer, SameChips

-----------------------------------------------------------------------------
(* What the engine accepts of the seat to act, kind by kind.               *)
Event(h, kind, to) == [kind |-> kind, seat |-> Actor(h), to |-> to]

LEMMA AcceptsCases ==
  ASSUME NEW stacks, NEW h, HandOK(h, stacks), ~h.closed, NEW to,
         NEW seat, seat = Actor(h)
  PROVE  /\ Accepts(h, Event(h, "FOLD", to)) <=> to = NoAmount /\ Facing(h, seat) > 0
         /\ Accepts(h, Event(h, "CHECK", to)) <=> to = NoAmount /\ Facing(h, seat) = 0
         /\ Accepts(h, Event(h, "CALL", to)) <=> Facing(h, seat) > 0 /\ to = CallTarget(h, seat)
         /\ Accepts(h, Event(h, "BET_TO", to)) <=>
              /\ h.highest = 0 /\ to > h.streetPaid[seat] /\ to <= MaxTarget(h, seat)
              /\ to - h.streetPaid[seat] >= BigBlind
         /\ Accepts(h, Event(h, "RAISE_TO", to)) <=>
              /\ h.highest > 0 /\ MayRaise(h, seat)
              /\ to > h.highest /\ to <= MaxTarget(h, seat)
              /\ to - h.highest >= h.lastFullRaise
         /\ Accepts(h, Event(h, "ALL_IN_TO", to)) <=>
              /\ to = MaxTarget(h, seat) /\ to > h.streetPaid[seat]
              /\ to > h.highest => MayRaise(h, seat)
<1>1. ~h.terminal /\ ~h.closed
  BY ActorFacts
<1>2. \A kind : /\ Event(h, kind, to).kind = kind /\ Event(h, kind, to).to = to
                /\ Event(h, kind, to).seat = seat
  BY DEF Event
<1>3. Accepts(h, Event(h, "FOLD", to)) <=> to = NoAmount /\ Facing(h, seat) > 0
  BY <1>1, <1>2 DEF Accepts
<1>4. Accepts(h, Event(h, "CHECK", to)) <=> to = NoAmount /\ Facing(h, seat) = 0
  BY <1>1, <1>2 DEF Accepts
<1>5. Accepts(h, Event(h, "CALL", to)) <=> Facing(h, seat) > 0 /\ to = CallTarget(h, seat)
  BY <1>1, <1>2 DEF Accepts
<1>6. Accepts(h, Event(h, "BET_TO", to)) <=>
        /\ h.highest = 0 /\ to > h.streetPaid[seat] /\ to <= MaxTarget(h, seat)
        /\ to - h.streetPaid[seat] >= BigBlind
  BY <1>1, <1>2 DEF Accepts
<1>7. Accepts(h, Event(h, "RAISE_TO", to)) <=>
        /\ h.highest > 0 /\ MayRaise(h, seat)
        /\ to > h.highest /\ to <= MaxTarget(h, seat)
        /\ to - h.highest >= h.lastFullRaise
  BY <1>1, <1>2 DEF Accepts
<1>8. Accepts(h, Event(h, "ALL_IN_TO", to)) <=>
        /\ to = MaxTarget(h, seat) /\ to > h.streetPaid[seat]
        /\ to > h.highest => MayRaise(h, seat)
  BY <1>1, <1>2 DEF Accepts
<1>9. QED
  BY <1>3, <1>4, <1>5, <1>6, <1>7, <1>8

\* The seat to act in numbers.
LEMMA TurnFacts ==
  ASSUME NEW stacks \in [Seats -> Stacks], NEW h, HandOK(h, stacks), ~h.closed,
         NEW seat, seat = Actor(h)
  PROVE  /\ h.highest \in Nat /\ h.lastFullRaise \in Nat \ {0} /\ BigBlind \in Nat \ {0}
         /\ h.streetPaid[seat] \in Nat /\ h.remaining[seat] \in Nat \ {0}
         /\ h.streetPaid[seat] <= h.highest
         /\ Facing(h, seat) = h.highest - h.streetPaid[seat]
         /\ MaxTarget(h, seat) = h.streetPaid[seat] + h.remaining[seat]
         /\ MaxTarget(h, seat) \in Amounts
         /\ h.highest = 0 => MayRaise(h, seat)
<1>1. /\ seat \in Seats /\ h.remaining[seat] \in Nat \ {0} /\ h \in HandType /\ RoundOK(h)
      /\ ChipsOK(h, stacks) /\ h.pending # <<>> /\ seat = Head(h.pending)
      /\ h.pending \in Seq(Seats) /\ IsInjective(h.pending)
  BY ActorFacts
<1>2. /\ h.highest \in Nat /\ h.lastFullRaise \in Nat \ {0} /\ BigBlind \in Nat \ {0}
      /\ h.streetPaid[seat] \in Nat /\ h.totalPaid[seat] \in Nat
  BY <1>1, ReplayAssumption DEF HandType
<1>3. /\ h.streetPaid[seat] <= h.highest /\ h.streetPaid[seat] <= h.totalPaid[seat]
      /\ h.remaining[seat] + h.totalPaid[seat] = stacks[seat]
  BY <1>1 DEF ChipsOK
<1>4. stacks[seat] \in Nat /\ stacks[seat] <= Max(Stacks) /\ Max(Stacks) \in Nat
  <2>1. stacks[seat] \in Stacks
    BY <1>1
  <2>2. QED
    BY <2>1, StacksFacts
<1>5. MaxTarget(h, seat) \in Amounts
  <2>1. h.remaining[seat] \in Nat
    BY <1>1
  <2>2. h.streetPaid[seat] + h.remaining[seat] \in Nat
        /\ h.streetPaid[seat] + h.remaining[seat] <= stacks[seat]
    BY <1>2, <1>3, <1>4, <2>1
  <2>3. MaxTarget(h, seat) \in Nat /\ MaxTarget(h, seat) <= Max(Stacks)
    BY <1>4, <2>2 DEF MaxTarget
  <2>4. QED
    BY <1>4, <2>3 DEF Amounts
<1>6. h.highest = 0 => MayRaise(h, seat)
  <2>1. Waits(h, seat)
    BY <1>1, TailFacts DEF Waits
  <2>2. seat \in h.acted => h.streetPaid[seat] < h.highest
    BY <1>1, <2>1 DEF RoundOK
  <2>3. QED
    BY <1>2, <2>2 DEF MayRaise
<1>7. QED
  BY <1>1, <1>2, <1>3, <1>5, <1>6 DEF Facing, MaxTarget

Accepted(h, kind) == {to \in Amounts \cup {NoAmount} : Accepts(h, Event(h, kind, to))}

\* The wagers that the engine accepts, by the room above the highest bet.
LEMMA AcceptedFacts ==
  ASSUME NEW stacks \in [Seats -> Stacks], NEW h, HandOK(h, stacks), ~h.closed,
         NEW seat, seat = Actor(h), NEW room, room = MaxTarget(h, seat) - h.highest
  PROVE  /\ Accepted(h, "FOLD") # {} <=> Facing(h, seat) > 0
         /\ Accepted(h, "CHECK") # {} <=> ~(Facing(h, seat) > 0)
         /\ Accepted(h, "CALL") # {} <=> Facing(h, seat) > 0
         /\ Accepted(h, "BET_TO") =
              {to \in Amounts : h.highest = 0 /\ BigBlind <= to /\ to <= MaxTarget(h, seat)}
         /\ Accepted(h, "RAISE_TO") =
              {to \in Amounts : /\ h.highest > 0 /\ MayRaise(h, seat)
                                /\ h.highest + h.lastFullRaise <= to /\ to <= MaxTarget(h, seat)}
         /\ Accepted(h, "ALL_IN_TO") # {} <=>
              \/ MayRaise(h, seat) /\ room > 0
              \/ Facing(h, seat) > 0 /\ h.remaining[seat] <= Facing(h, seat)
<1>0. /\ h.highest \in Nat /\ h.lastFullRaise \in Nat \ {0} /\ BigBlind \in Nat \ {0}
      /\ h.streetPaid[seat] \in Nat /\ h.remaining[seat] \in Nat \ {0}
      /\ h.streetPaid[seat] <= h.highest
      /\ Facing(h, seat) = h.highest - h.streetPaid[seat]
      /\ MaxTarget(h, seat) = h.streetPaid[seat] + h.remaining[seat]
      /\ MaxTarget(h, seat) \in Amounts
  BY TurnFacts
<1>1. /\ Amounts \subseteq Nat /\ NoAmount = -1 /\ Max(Stacks) \in Nat
      /\ \A to \in Amounts, n \in Nat : n <= to => n \in Amounts
  BY StacksFacts DEF Amounts, NoAmount
<1>2. Accepted(h, "FOLD") # {} <=> Facing(h, seat) > 0
  <2>1. \A to : Accepts(h, Event(h, "FOLD", to)) <=> to = NoAmount /\ Facing(h, seat) > 0
    BY AcceptsCases
  <2>2. QED
    BY <2>1 DEF Accepted
<1>3. Accepted(h, "CHECK") # {} <=> ~(Facing(h, seat) > 0)
  <2>1. \A to : Accepts(h, Event(h, "CHECK", to)) <=> to = NoAmount /\ Facing(h, seat) = 0
    BY AcceptsCases
  <2>2. Facing(h, seat) = 0 <=> ~(Facing(h, seat) > 0)
    BY <1>0
  <2>3. QED
    BY <2>1, <2>2 DEF Accepted
<1>4. Accepted(h, "CALL") # {} <=> Facing(h, seat) > 0
  <2>1. \A to : Accepts(h, Event(h, "CALL", to))
                  <=> Facing(h, seat) > 0 /\ to = CallTarget(h, seat)
    BY AcceptsCases
  <2>2. CallTarget(h, seat) \in Nat /\ CallTarget(h, seat) <= MaxTarget(h, seat)
    BY <1>0 DEF CallTarget, Lesser
  <2>3. CallTarget(h, seat) \in Amounts
    BY <1>0, <1>1, <2>2
  <2>4. QED
    BY <2>1, <2>3 DEF Accepted
<1>5. ASSUME NEW to
      PROVE  to \in Accepted(h, "BET_TO") <=>
               to \in Amounts /\ h.highest = 0 /\ BigBlind <= to /\ to <= MaxTarget(h, seat)
  <2>1. Accepts(h, Event(h, "BET_TO", to)) <=>
          /\ h.highest = 0 /\ to > h.streetPaid[seat] /\ to <= MaxTarget(h, seat)
          /\ to - h.streetPaid[seat] >= BigBlind
    BY AcceptsCases
  <2>2. CASE to \in Amounts
    <3>1. to \in Nat
      BY <1>1, <2>2
    <3>2. Accepts(h, Event(h, "BET_TO", to))
            <=> h.highest = 0 /\ BigBlind <= to /\ to <= MaxTarget(h, seat)
      BY <1>0, <2>1, <3>1
    <3>3. QED
      BY <2>2, <3>2 DEF Accepted
  <2>3. CASE to \notin Amounts
    <3>1. ~(to = NoAmount /\ to > h.streetPaid[seat])
      BY <1>0 DEF NoAmount
    <3>2. QED
      BY <2>1, <2>3, <3>1 DEF Accepted
  <2>4. QED
    BY <2>2, <2>3
<1>6. ASSUME NEW to
      PROVE  to \in Accepted(h, "RAISE_TO") <=>
               /\ to \in Amounts /\ h.highest > 0 /\ MayRaise(h, seat)
               /\ h.highest + h.lastFullRaise <= to /\ to <= MaxTarget(h, seat)
  <2>1. Accepts(h, Event(h, "RAISE_TO", to)) <=>
          /\ h.highest > 0 /\ MayRaise(h, seat)
          /\ to > h.highest /\ to <= MaxTarget(h, seat)
          /\ to - h.highest >= h.lastFullRaise
    BY AcceptsCases
  <2>2. CASE to \in Amounts
    <3>1. to \in Nat
      BY <1>1, <2>2
    <3>2. (to > h.highest /\ to - h.highest >= h.lastFullRaise)
            <=> h.highest + h.lastFullRaise <= to
      <4>1. PICK top \in Nat, full \in Nat \ {0} : top = h.highest /\ full = h.lastFullRaise
        BY <1>0
      <4>2. (to > top /\ to - top >= full) <=> top + full <= to
        BY <3>1
      <4>3. QED
        BY <4>1, <4>2
    <3>3. QED
      BY <2>1, <2>2, <3>2 DEF Accepted
  <2>3. CASE to \notin Amounts
    <3>1. ~(to = NoAmount /\ to > h.highest)
      BY <1>0 DEF NoAmount
    <3>2. QED
      BY <2>1, <2>3, <3>1 DEF Accepted
  <2>4. QED
    BY <2>2, <2>3
<1>7. Accepted(h, "ALL_IN_TO") # {} <=>
        \/ MayRaise(h, seat) /\ room > 0
        \/ Facing(h, seat) > 0 /\ h.remaining[seat] <= Facing(h, seat)
  <2>1. \A to : Accepts(h, Event(h, "ALL_IN_TO", to)) <=>
          /\ to = MaxTarget(h, seat) /\ to > h.streetPaid[seat]
          /\ to > h.highest => MayRaise(h, seat)
    BY AcceptsCases
  <2>2. MaxTarget(h, seat) > h.streetPaid[seat]
    BY <1>0
  <2>3. Accepted(h, "ALL_IN_TO") # {}
          <=> (MaxTarget(h, seat) > h.highest => MayRaise(h, seat))
    BY <1>0, <2>1, <2>2 DEF Accepted
  <2>4. /\ MaxTarget(h, seat) > h.highest <=> room > 0
        /\ ~(MaxTarget(h, seat) > h.highest)
             <=> Facing(h, seat) > 0 /\ h.remaining[seat] <= Facing(h, seat)
    BY <1>0
  <2>5. QED
    BY <2>3, <2>4
<1>8. QED
  BY <1>2, <1>3, <1>4, <1>5, <1>6, <1>7

(* The offered actions are the accepted ones, kind by kind.                *)
LEMMA OfferedFacts ==
  ASSUME NEW stacks \in [Seats -> Stacks], NEW h, HandOK(h, stacks), ~h.closed
  PROVE  LegalActions(h) = {kind \in {"FOLD", "CHECK"} \cup Wagers : Accepted(h, kind) # {}}
<1> DEFINE kinds == {"FOLD", "CHECK"} \cup Wagers
<1>0. PICK seat : seat = Actor(h)
  OBVIOUS
<1>1. PICK room : room = MaxTarget(h, seat) - h.highest
  OBVIOUS
<1>2. /\ h.highest \in Nat /\ h.lastFullRaise \in Nat \ {0} /\ BigBlind \in Nat \ {0}
      /\ MaxTarget(h, seat) \in Nat /\ MaxTarget(h, seat) \in Amounts
      /\ h.highest = 0 => MayRaise(h, seat)
      /\ \A to \in Amounts : to \in Nat
  <2>1. \A to \in Amounts : to \in Nat
    BY StacksFacts DEF Amounts
  <2>2. QED
    BY <1>0, <2>1, TurnFacts
<1>3. /\ Accepted(h, "FOLD") # {} <=> Facing(h, seat) > 0
      /\ Accepted(h, "CHECK") # {} <=> ~(Facing(h, seat) > 0)
      /\ Accepted(h, "CALL") # {} <=> Facing(h, seat) > 0
      /\ Accepted(h, "BET_TO") =
           {to \in Amounts : h.highest = 0 /\ BigBlind <= to /\ to <= MaxTarget(h, seat)}
      /\ Accepted(h, "RAISE_TO") =
           {to \in Amounts : /\ h.highest > 0 /\ MayRaise(h, seat)
                             /\ h.highest + h.lastFullRaise <= to /\ to <= MaxTarget(h, seat)}
      /\ Accepted(h, "ALL_IN_TO") # {} <=>
           \/ MayRaise(h, seat) /\ room > 0
           \/ Facing(h, seat) > 0 /\ h.remaining[seat] <= Facing(h, seat)
  BY <1>0, <1>1, AcceptedFacts
<1>4. Accepted(h, "BET_TO") # {} <=> MayRaise(h, seat) /\ room > 0 /\ h.highest = 0 /\ room >= BigBlind
  <2>1. Accepted(h, "BET_TO") # {} <=> h.highest = 0 /\ BigBlind <= MaxTarget(h, seat)
    BY <1>2, <1>3
  <2>2. h.highest = 0 => room = MaxTarget(h, seat)
    BY <1>1, <1>2
  <2>3. h.highest = 0 /\ BigBlind <= MaxTarget(h, seat) <=>
          room > 0 /\ h.highest = 0 /\ room >= BigBlind
    BY <1>2, <2>2
  <2>4. QED
    BY <1>2, <2>1, <2>3
<1>5. Accepted(h, "RAISE_TO") # {}
        <=> MayRaise(h, seat) /\ room > 0 /\ h.highest > 0 /\ room >= h.lastFullRaise
  <2>1. Accepted(h, "RAISE_TO") # {}
          <=> h.highest > 0 /\ MayRaise(h, seat) /\ h.highest + h.lastFullRaise <= MaxTarget(h, seat)
    BY <1>2, <1>3
  <2>2. h.highest + h.lastFullRaise <= MaxTarget(h, seat) <=> room > 0 /\ room >= h.lastFullRaise
    BY <1>1, <1>2
  <2>3. QED
    BY <2>1, <2>2
<1>6. Actor(h) # NoSeat
  BY ActorFacts
<1>7. LegalActions(h) =
        (IF Facing(h, seat) > 0 THEN {"FOLD", "CALL"} ELSE {"CHECK"})
          \cup {k \in {"BET_TO"} : Accepted(h, "BET_TO") # {}}
          \cup {k \in {"RAISE_TO"} : Accepted(h, "RAISE_TO") # {}}
          \cup {k \in {"ALL_IN_TO"} : Accepted(h, "ALL_IN_TO") # {}}
  BY <1>0, <1>1, <1>3, <1>4, <1>5, <1>6, Zenon DEF LegalActions
<1>8. \A kind : kind \in LegalActions(h) <=> kind \in kinds /\ Accepted(h, kind) # {}
  <2>1. \A kind : kind \in kinds <=>
          kind \in {"FOLD", "CHECK", "CALL", "BET_TO", "RAISE_TO", "ALL_IN_TO"}
    BY DEF Wagers
  <2> HIDE DEF kinds
  <2>2. QED
    BY <1>3, <1>7, <2>1
<1>9. QED
  BY <1>8

-----------------------------------------------------------------------------
(* Every hand that is played keeps the invariant, and so do the            *)
(* observations of the recorder, which do not touch it.                    *)
HandInv ==
  /\ start \in [Seats -> Stacks] /\ ante \in Antes
  /\ HandOK(hand, start)

LEMMA HandInit == Init => HandInv
<1>1. Button \in Seats
  BY ReplayAssumption DEF Button, Seats
<1>2. Antes \subseteq Nat
  BY ReplayAssumption
<1> SUFFICES ASSUME Init PROVE HandInv
  OBVIOUS
<1>3. /\ start \in [Seats -> Stacks] /\ ante \in Antes /\ ante \in Nat
      /\ hand = Dealt(Button, start, ante)
  BY <1>2 DEF Init
<1>4. start \in [Seats -> Nat \ {0}] /\ \A s \in Seats : start[s] <= Max(Stacks)
  BY <1>3, StacksFacts
<1>5. HandOK(Dealt(Button, start, ante), start)
  BY <1>1, <1>3, <1>4, StacksFacts, DealtFacts
<1>6. QED
  BY <1>3, <1>5 DEF HandInv

LEMMA ActKeeps ==
  ASSUME HandInv, NEW kind, NEW to \in Nat \cup {NoAmount}, Play(kind, to)
  PROVE  HandInv'
<1>1. PICK e : e = Event(hand, kind, to)
  OBVIOUS
<1>2. e.to \in Nat \cup {NoAmount}
  BY <1>1 DEF Event
<1>3. Accepts(hand, e) /\ hand' = Applied(hand, e) /\ start' = start /\ ante' = ante
  BY <1>1 DEF Play, Act, Event
<1>4. HandOK(Applied(hand, e), start)
  BY <1>2, <1>3, AppliedKeeps DEF HandInv
<1>5. QED
  BY <1>3, <1>4 DEF HandInv

LEMMA HandNext == HandInv /\ [Next]_vars => HandInv'
<1> SUFFICES ASSUME HandInv, [Next]_vars PROVE HandInv'
  OBVIOUS
<1>1. ASSUME NEW kind \in {"FOLD", "CHECK"}, Play(kind, NoAmount) PROVE HandInv'
  BY <1>1, ActKeeps
<1>2. ASSUME NEW kind \in Wagers, NEW to \in Amounts, Play(kind, to) PROVE HandInv'
  <2>1. to \in Nat
    BY StacksFacts DEF Amounts
  <2>2. QED
    BY <1>2, <2>1, ActKeeps
<1>3. CASE DealStreet
  <2>1. AcceptsDeal(hand) /\ hand' = AppliedDeal(hand, Button) /\ start' = start /\ ante' = ante
    BY <1>3 DEF DealStreet, Deal
  <2>2. HandOK(AppliedDeal(hand, Button), start)
    BY <2>1, DealKeeps DEF HandInv
  <2>3. QED
    BY <2>1, <2>2 DEF HandInv
<1>4. ASSUME UNCHANGED table PROVE HandInv'
  BY <1>4 DEF HandInv, table
<1>5. QED
  BY <1>1, <1>2, <1>3, <1>4 DEF Next, Observe, vars

THEOREM HandInvariant == Spec => []HandInv
BY HandInit, HandNext, PTL DEF Spec

(* No chip is lost or made, nobody plays with chips he does not have, and  *)
(* whoever is asked to act is in the hand and has chips.                   *)
THEOREM HandTypeOK == Spec => []TypeOK
<1>1. HandInv => TypeOK
  <2> SUFFICES ASSUME HandInv PROVE TypeOK
    OBVIOUS
  <2>1. HandOK(hand, start) /\ hand \in HandType /\ ChipsOK(hand, start)
    BY DEF HandInv, HandOK
  <2>2. /\ hand.streetPaid \in [Seats -> Nat] /\ hand.highest \in Nat
        /\ hand.totalPaid \in [Seats -> Nat] /\ hand.remaining \in [Seats -> Nat]
    BY <2>1 DEF HandType
  <2>3. hand.highest = Max(Range(hand.streetPaid))
    <3>1. \A s \in Seats : hand.streetPaid[s] <= hand.highest
      BY <2>1 DEF ChipsOK
    <3>2. /\ Max(Range(hand.streetPaid)) \in Nat
          /\ \A s \in Seats : hand.streetPaid[s] <= Max(Range(hand.streetPaid))
          /\ \E s \in Seats : hand.streetPaid[s] = Max(Range(hand.streetPaid))
      BY <2>2, <3>1, HighestFacts
    <3>3. PICK s \in Seats : hand.streetPaid[s] = hand.highest
      BY <2>1 DEF ChipsOK
    <3>4. PICK w \in Seats : hand.streetPaid[w] = Max(Range(hand.streetPaid))
      BY <3>2
    <3>5. /\ Max(Range(hand.streetPaid)) <= hand.highest
          /\ hand.highest <= Max(Range(hand.streetPaid))
      BY <3>1, <3>2, <3>3, <3>4
    <3>6. QED
      BY <2>2, <3>2, <3>5
  <2>4. \A s \in Seats : hand.remaining[s] >= 0 /\ hand.streetPaid[s] \in 0..hand.totalPaid[s]
    <3>1. ASSUME NEW s \in Seats
          PROVE  hand.remaining[s] >= 0 /\ hand.streetPaid[s] \in 0..hand.totalPaid[s]
      <4>1. /\ hand.remaining[s] \in Nat /\ hand.streetPaid[s] \in Nat
            /\ hand.totalPaid[s] \in Nat
        BY <2>2
      <4>2. hand.streetPaid[s] <= hand.totalPaid[s]
        BY <2>1 DEF ChipsOK
      <4>3. QED
        BY <4>1, <4>2
    <3>2. QED
      BY <3>1
  <2>5. /\ \A s \in Seats : hand.remaining[s] + hand.totalPaid[s] = start[s]
        /\ hand.allIn = {s \in Seats : hand.remaining[s] = 0}
    BY <2>1 DEF ChipsOK
  <2>6. /\ hand.street \in 1..4 /\ hand.folded \cup hand.acted \subseteq Seats
        /\ IsInjective(hand.pending) /\ ToSet(hand.pending) \subseteq Eligible(hand)
        /\ hand.terminal => hand.closed
    BY <2>1 DEF HandType, HandOK
  <2>7. QED
    BY <2>3, <2>4, <2>5, <2>6 DEF TypeOK
<1>2. QED
  BY <1>1, HandInvariant, PTL

(* No betting round of any hand closes on somebody who owes chips or was   *)
(* not asked.                                                              *)
THEOREM HandRoundsCloseMatched == Spec => []RoundClosesMatched
<1>1. HandInv => RoundClosesMatched
  BY DEF HandInv, HandOK, RoundClosesMatched
<1>2. QED
  BY <1>1, HandInvariant, PTL

(* What is offered can be played and what can be played is offered; the    *)
(* minimum raise is exact.                                                 *)
THEOREM HandLegalActionsExact == Spec => []LegalActionsExact
<1>1. HandInv => LegalActionsExact
  <2> SUFFICES ASSUME HandInv PROVE LegalActionsExact
    OBVIOUS
  <2> DEFINE raises == Accepted(hand, "BET_TO") \cup Accepted(hand, "RAISE_TO")
             kinds == {"FOLD", "CHECK"} \cup Wagers
  <2>1. SUFFICES /\ LegalActions(hand) = {kind \in kinds : Accepted(hand, kind) # {}}
                 /\ MinimumRaiseTo(hand) = IF raises = {} THEN NoAmount ELSE Min(raises)
                 /\ hand.closed \/ LegalActions(hand) # {}
    BY DEF LegalActionsExact, Accepted, Event
  <2>2. HandOK(hand, start) /\ start \in [Seats -> Stacks]
    BY DEF HandInv
  <2>3. CASE hand.closed
    <3>1. Actor(hand) = NoSeat
      BY <2>3 DEF Actor
    <3>2. \A e : ~Accepts(hand, e)
      BY <2>3 DEF Accepts
    <3>3. \A kind : Accepted(hand, kind) = {}
      BY <3>2 DEF Accepted
    <3>4. LegalActions(hand) = {} /\ MinimumRaiseTo(hand) = NoAmount
      BY <3>1, Zenon DEF LegalActions, MinimumRaiseTo
    <3>5. QED
      BY <2>3, <3>3, <3>4
  <2>4. CASE ~hand.closed
    <3>1. PICK seat : seat = Actor(hand)
      OBVIOUS
    <3>2. LegalActions(hand) = {kind \in kinds : Accepted(hand, kind) # {}}
      BY <2>2, <2>4, OfferedFacts
    <3>3. PICK room : room = MaxTarget(hand, seat) - hand.highest
      OBVIOUS
    <3>4. /\ Accepted(hand, "FOLD") # {} <=> Facing(hand, seat) > 0
          /\ Accepted(hand, "CHECK") # {} <=> ~(Facing(hand, seat) > 0)
          /\ Accepted(hand, "BET_TO") =
               {to \in Amounts :
                  hand.highest = 0 /\ BigBlind <= to /\ to <= MaxTarget(hand, seat)}
          /\ Accepted(hand, "RAISE_TO") =
               {to \in Amounts : /\ hand.highest > 0 /\ MayRaise(hand, seat)
                                 /\ hand.highest + hand.lastFullRaise <= to
                                 /\ to <= MaxTarget(hand, seat)}
      BY <2>2, <2>4, <3>1, <3>3, AcceptedFacts
    <3>5. LegalActions(hand) # {}
      BY <3>2, <3>4
    <3>6. MinimumRaiseTo(hand) = IF raises = {} THEN NoAmount ELSE Min(raises)
      <4>1. /\ hand.highest \in Nat /\ hand.lastFullRaise \in Nat \ {0}
            /\ BigBlind \in Nat \ {0} /\ MaxTarget(hand, seat) \in Amounts
            /\ hand.highest = 0 => MayRaise(hand, seat)
        BY <2>2, <2>4, <3>1, TurnFacts
      <4>2. /\ Amounts \subseteq Nat
            /\ \A n \in Nat : n <= MaxTarget(hand, seat) => n \in Amounts
        BY <4>1, StacksFacts DEF Amounts
      <4>3. PICK least \in Nat \ {0} :
              least = IF hand.highest = 0 THEN BigBlind ELSE hand.highest + hand.lastFullRaise
        BY <4>1
      <4>4. raises = {to \in Amounts : /\ MayRaise(hand, seat) /\ least <= to
                                       /\ to <= MaxTarget(hand, seat)}
        BY <3>4, <4>1, <4>3
      <4>5. seat # NoSeat
        BY <2>2, <2>4, <3>1, ActorFacts
      <4>6. least <= MaxTarget(hand, seat) => MaxTarget(hand, seat) > hand.highest
        <5>1. MaxTarget(hand, seat) \in Nat
          BY <4>1, <4>2
        <5>2. least > hand.highest
          BY <4>1, <4>3
        <5>3. QED
          BY <4>1, <5>1, <5>2
      <4>7. MinimumRaiseTo(hand) =
              IF MayRaise(hand, seat) /\ least <= MaxTarget(hand, seat)
              THEN least ELSE NoAmount
        BY <3>1, <4>1, <4>2, <4>3, <4>5, <4>6 DEF MinimumRaiseTo
      <4> HIDE DEF raises
      <4>8. CASE MayRaise(hand, seat) /\ least <= MaxTarget(hand, seat)
        <5>1. least \in raises /\ \A to \in raises : to \in Nat /\ least <= to
          BY <4>1, <4>2, <4>4, <4>8
        <5>2. Min(raises) \in raises /\ \A to \in raises : Min(raises) <= to
          BY <5>1, Zenon DEF Min
        <5>3. Min(raises) = least
          <6>1. Min(raises) \in Nat /\ Min(raises) <= least /\ least <= Min(raises)
            BY <5>1, <5>2
          <6>2. QED
            BY <6>1
        <5>4. QED
          BY <4>7, <4>8, <5>1, <5>3
      <4>9. CASE ~(MayRaise(hand, seat) /\ least <= MaxTarget(hand, seat))
        <5>1. raises = {}
          <6>1. ASSUME NEW to \in raises PROVE FALSE
            <7>1. /\ to \in Nat /\ MayRaise(hand, seat) /\ least <= to
                  /\ to <= MaxTarget(hand, seat) /\ MaxTarget(hand, seat) \in Nat
              BY <4>1, <4>2, <4>4, <6>1
            <7>2. least <= MaxTarget(hand, seat)
              BY <7>1
            <7>3. QED
              BY <4>9, <7>1, <7>2
          <6>2. QED
            BY <6>1
        <5>2. QED
          BY <4>7, <4>9, <5>1
      <4>10. QED
        BY <4>8, <4>9
    <3>7. QED
      BY <3>2, <3>5, <3>6
  <2>5. QED
    BY <2>3, <2>4
<1>2. QED
  BY <1>1, HandInvariant, PTL

-----------------------------------------------------------------------------
(* Second part: the recorder of HandEventRecorder.                          *)
-----------------------------------------------------------------------------
(* A pot tells two tables of payments apart, if nobody paid less.          *)
IsSum(f, amounts) ==
  f = [n \in 0..Players |-> IF n = 0 THEN 0 ELSE f[n - 1] + amounts[n - 1]]

LEMMA SumExists ==
  ASSUME NEW amounts
  PROVE  \E f : IsSum(f, amounts)
<1> DEFINE Sum(f, n) == f = [i \in 0..n |-> IF i = 0 THEN 0 ELSE f[i - 1] + amounts[i - 1]]
           B == {k \in Nat : ~\E f : Sum(f, k)}
<1>0. Players \in Nat
  BY ReplayAssumption
<1>1. SUFFICES ASSUME B # {} PROVE FALSE
  BY <1>0, Zenon DEF IsSum
<1>2. PICK k \in B : \A l \in B : k <= l
  <2> HIDE DEF B
  <2>1. B \subseteq Nat
    BY DEF B
  <2>2. QED
    BY <1>1, <2>1, LeastNumber
<1>3. k \in Nat /\ ~\E f : Sum(f, k)
  BY Zenon
<1>4. CASE k = 0
  <2>1. PICK f : f = [i \in 0..0 |-> 0]
    OBVIOUS
  <2>2. f = [i \in 0..k |-> IF i = 0 THEN 0 ELSE f[i - 1] + amounts[i - 1]]
    BY <1>4, <2>1
  <2>3. QED
    BY <1>3, <2>2, Zenon
<1>5. CASE k # 0
  <2>1. k - 1 \in Nat /\ ~(k <= k - 1)
    BY <1>3, <1>5
  <2>2. PICK h : Sum(h, k - 1)
    BY <1>2, <2>1
  <2>3. PICK g : g = [i \in 0..k |-> IF i \in 0 .. k - 1 THEN h[i]
                                     ELSE h[i - 1] + amounts[i - 1]]
    OBVIOUS
  <2>4. ASSUME NEW i \in 0..k
        PROVE  g[i] = IF i = 0 THEN 0 ELSE g[i - 1] + amounts[i - 1]
    <3>1. i # 0 => i - 1 \in 0 .. k - 1 /\ i - 1 \in 0..k
      BY <1>3
    <3>2. i # 0 => g[i - 1] = h[i - 1]
      BY <2>3, <3>1
    <3>3. i = 0 => i \in 0 .. k - 1
      BY <1>3, <1>5
    <3>4. i \in 0 .. k - 1 => h[i] = IF i = 0 THEN 0 ELSE h[i - 1] + amounts[i - 1]
      BY <2>2
    <3>5. g[i] = IF i = 0 THEN 0 ELSE h[i - 1] + amounts[i - 1]
      BY <2>3, <3>3, <3>4
    <3>6. QED
      BY <3>2, <3>5
  <2>5. Sum(g, k)
    BY <2>3, <2>4
  <2>6. QED
    BY <1>3, <2>5, Zenon
<1>6. QED
  BY <1>4, <1>5

LEMMA TotalFacts ==
  ASSUME NEW amounts
  PROVE  \E f : /\ Total(amounts) = f[Players] /\ f[0] = 0
                /\ \A n \in 1..Players : f[n] = f[n - 1] + amounts[n - 1]
<1>0. Players \in Nat
  BY ReplayAssumption
<1>1. PICK f : f = CHOOSE g : IsSum(g, amounts)
  OBVIOUS
<1>2. Total(amounts) = f[Players]
  BY <1>1, Zenon DEF Total, IsSum
<1>3. IsSum(f, amounts)
  BY <1>1, SumExists, Zenon
<1>4. 0 \in 0..Players /\ \A n \in 1..Players : n \in 0..Players /\ n # 0
  BY <1>0
<1>5. f[0] = 0 /\ \A n \in 1..Players : f[n] = f[n - 1] + amounts[n - 1]
  BY <1>3, <1>4 DEF IsSum
<1>6. QED
  BY <1>2, <1>5

LEMMA SamePot ==
  ASSUME NEW low \in [Seats -> Nat], NEW high \in [Seats -> Nat],
         \A s \in Seats : low[s] <= high[s], Total(low) = Total(high)
  PROVE  low = high
<1>0. Players \in Nat /\ Seats = 0 .. Players - 1
  BY ReplayAssumption DEF Seats
<1>1. PICK f : /\ Total(low) = f[Players] /\ f[0] = 0
               /\ \A n \in 1..Players : f[n] = f[n - 1] + low[n - 1]
  BY TotalFacts
<1>2. PICK g : /\ Total(high) = g[Players] /\ g[0] = 0
               /\ \A n \in 1..Players : g[n] = g[n - 1] + high[n - 1]
  BY TotalFacts
<1> DEFINE Below(n) == /\ f[n] \in Nat /\ g[n] \in Nat /\ f[n] <= g[n]
                       /\ f[n] = g[n] => \A i \in 0 .. n - 1 : low[i] = high[i]
           B == {k \in 0..Players : ~Below(k)}
<1>3. B = {}
  <2>1. SUFFICES ASSUME B # {} PROVE FALSE
    OBVIOUS
  <2>2. PICK k \in B : \A l \in B : k <= l
    <3> HIDE DEF B
    <3>1. B \subseteq Nat
      BY DEF B
    <3>2. QED
      BY <2>1, <3>1, LeastNumber
  <2>3. k \in 0..Players /\ ~Below(k)
    OBVIOUS
  <2>4. k # 0
    <3>1. Below(0)
      BY <1>1, <1>2
    <3>2. QED
      BY <2>3, <3>1
  <2>5. k - 1 \in 0..Players /\ ~(k <= k - 1) /\ k \in 1..Players /\ k - 1 \in Seats
    BY <1>0, <2>3, <2>4
  <2>6. Below(k - 1)
    BY <2>2, <2>5
  <2>7. /\ f[k] = f[k - 1] + low[k - 1] /\ g[k] = g[k - 1] + high[k - 1]
        /\ low[k - 1] \in Nat /\ high[k - 1] \in Nat /\ low[k - 1] <= high[k - 1]
    BY <1>1, <1>2, <2>5
  <2>8. /\ f[k] \in Nat /\ g[k] \in Nat /\ f[k] <= g[k]
        /\ f[k] = g[k] => f[k - 1] = g[k - 1] /\ low[k - 1] = high[k - 1]
    BY <2>6, <2>7
  <2>9. \A i \in 0 .. k - 1 : i = k - 1 \/ i \in 0 .. k - 1 - 1
    BY <2>5
  <2>10. Below(k)
    BY <2>6, <2>8, <2>9
  <2>11. QED
    BY <2>3, <2>10
<1>4. Below(Players)
  BY <1>0, <1>3
<1>5. \A s \in Seats : low[s] = high[s]
  BY <1>0, <1>1, <1>2, <1>4
<1>6. QED
  BY <1>5

-----------------------------------------------------------------------------
(* One step of a hand, and what stays true of an earlier state of it.      *)
Kinds == {"FOLD", "CHECK"} \cup Wagers
HandEvents == [kind : Kinds, seat : Seats, to : Nat \cup {NoAmount}]

Acts(p, e, q) == e \in HandEvents /\ Accepts(p, e) /\ q = Applied(p, e)
Deals(p, q) == AcceptsDeal(p) /\ q = AppliedDeal(p, Button)
Step(p, q) == (\E e : Acts(p, e, q)) \/ Deals(p, q)

\* Whoever is not to be asked any more pays nothing more on this street,
\* unless somebody else pays first.
Idle(p, h) ==
  \A a \in Seats :
    ~Waits(p, a) /\ (\A s \in Seats : s # a => h.totalPaid[s] = p.totalPaid[s]) =>
      /\ h.street = p.street => h.totalPaid[a] = p.totalPaid[a] /\ ~Waits(h, a)
      /\ h.street = p.street + 1 => h.totalPaid[a] = p.totalPaid[a] + h.streetPaid[a]

Later(p, h) ==
  /\ p.street <= h.street
  /\ \A s \in Seats : p.totalPaid[s] <= h.totalPaid[s]
  /\ p.street = h.street =>
       \A s \in Seats : h.totalPaid[s] - h.streetPaid[s] = p.totalPaid[s] - p.streetPaid[s]
  /\ Idle(p, h)

\* Who folded had chips; no raise is remembered where nothing was bet.
Sound(h) ==
  /\ \A s \in h.folded : s \notin h.allIn
  /\ h.highest = 0 => h.lastFullRaise = BigBlind

LEMMA LaterItself ==
  ASSUME NEW h \in HandType
  PROVE  Later(h, h)
<1>1. \A s \in Seats : h.totalPaid[s] \in Nat /\ h.streetPaid[s] \in Nat
  BY DEF HandType
<1>2. h.street \in Nat
  BY DEF HandType
<1>3. Idle(h, h)
  BY <1>2 DEF Idle
<1>4. QED
  BY <1>1, <1>2, <1>3 DEF Later

\* What an accepted action does, in numbers.
LEMMA ActFacts ==
  ASSUME NEW stacks, NEW h, HandOK(h, stacks), NEW e, NEW g, Acts(h, e, g)
  PROVE  /\ HandOK(g, stacks) /\ Effect(h, e, g) /\ ~h.closed /\ ~h.terminal
         /\ e.seat = Actor(h) /\ e.seat \in Seats /\ e.seat \in Eligible(h) /\ Waits(h, e.seat)
         /\ e.kind \in Kinds /\ e.to \in Nat \cup {NoAmount}
         /\ h \in HandType /\ g \in HandType /\ ChipsOK(h, stacks) /\ ChipsOK(g, stacks)
         /\ h.remaining[e.seat] \in Nat \ {0}
         /\ \A s \in Seats : /\ h.totalPaid[s] \in Nat /\ h.streetPaid[s] \in Nat
                             /\ h.remaining[s] \in Nat /\ h.streetPaid[s] <= h.highest
                             /\ g.totalPaid[s] \in Nat /\ g.streetPaid[s] \in Nat
                             /\ g.remaining[s] \in Nat /\ g.streetPaid[s] <= g.highest
                             /\ h.totalPaid[s] <= g.totalPaid[s]
                             /\ g.totalPaid[s] - g.streetPaid[s] = h.totalPaid[s] - h.streetPaid[s]
         /\ e.kind \in Wagers => g.totalPaid[e.seat] > h.totalPaid[e.seat]
         /\ e.kind \notin Wagers => g.totalPaid[e.seat] = h.totalPaid[e.seat]
         /\ h.highest \in Nat /\ g.highest \in Nat /\ h.street \in Nat /\ g.street = h.street
<1>1. /\ Accepts(h, e) /\ g = Applied(h, e) /\ e.kind \in Kinds /\ e.to \in Nat \cup {NoAmount}
  BY DEF Acts, HandEvents
<1>2. HandOK(g, stacks) /\ Effect(h, e, g)
  BY <1>1, AppliedKeeps
<1>3. ~h.closed /\ ~h.terminal /\ e.seat = Actor(h)
  BY <1>1 DEF Accepts
<1>4. /\ e.seat \in Seats /\ e.seat \in Eligible(h) /\ h.remaining[e.seat] \in Nat \ {0}
      /\ h.pending \in Seq(Seats) /\ h.pending # <<>> /\ IsInjective(h.pending)
      /\ e.seat = Head(h.pending)
  BY <1>3, ActorFacts
<1>5. Waits(h, e.seat)
  BY <1>4, TailFacts DEF Waits
<1>6. h \in HandType /\ g \in HandType /\ ChipsOK(h, stacks) /\ ChipsOK(g, stacks)
  BY <1>2 DEF HandOK
<1>7. h.highest \in Nat /\ g.highest \in Nat /\ h.street \in Nat /\ g.street = h.street
  <2>1. h.highest \in Nat /\ g.highest \in Nat /\ h.street \in 1..4
    BY <1>6 DEF HandType
  <2>2. g.street = h.street
    BY <1>2 DEF Effect
  <2>3. QED
    BY <2>1, <2>2
<1>8. ASSUME NEW s \in Seats
      PROVE  /\ h.totalPaid[s] \in Nat /\ h.streetPaid[s] \in Nat
             /\ h.remaining[s] \in Nat /\ h.streetPaid[s] <= h.highest
             /\ g.totalPaid[s] \in Nat /\ g.streetPaid[s] \in Nat
             /\ g.remaining[s] \in Nat /\ g.streetPaid[s] <= g.highest
  BY <1>6 DEF HandType, ChipsOK
<1>9. /\ e.kind \in Wagers =>
           /\ e.to \in Nat /\ e.to > h.streetPaid[e.seat] /\ g.streetPaid[e.seat] = e.to
           /\ g.totalPaid[e.seat] = h.totalPaid[e.seat] + (e.to - h.streetPaid[e.seat])
      /\ e.kind \notin Wagers => /\ g.streetPaid[e.seat] = h.streetPaid[e.seat]
                                 /\ g.totalPaid[e.seat] = h.totalPaid[e.seat]
      /\ \A s \in Seats : s # e.seat => /\ g.streetPaid[s] = h.streetPaid[s]
                                        /\ g.totalPaid[s] = h.totalPaid[s]
  BY <1>2 DEF Effect
<1>10. /\ e.kind \in Wagers => g.totalPaid[e.seat] > h.totalPaid[e.seat]
       /\ h.totalPaid[e.seat] <= g.totalPaid[e.seat]
       /\ g.totalPaid[e.seat] - g.streetPaid[e.seat] = h.totalPaid[e.seat] - h.streetPaid[e.seat]
  <2>1. /\ h.totalPaid[e.seat] \in Nat /\ h.streetPaid[e.seat] \in Nat
    BY <1>4, <1>8
  <2>2. CASE e.kind \in Wagers
    BY <1>9, <2>1, <2>2
  <2>3. CASE e.kind \notin Wagers
    BY <1>9, <2>1, <2>3
  <2>4. QED
    BY <2>2, <2>3
<1>11. ASSUME NEW s \in Seats
       PROVE  /\ h.totalPaid[s] <= g.totalPaid[s]
              /\ g.totalPaid[s] - g.streetPaid[s] = h.totalPaid[s] - h.streetPaid[s]
  <2>1. CASE s = e.seat
    BY <1>10, <2>1
  <2>2. CASE s # e.seat
    BY <1>8, <1>9, <2>2
  <2>3. QED
    BY <2>1, <2>2
<1>12. QED
  BY <1>1, <1>2, <1>3, <1>4, <1>5, <1>6, <1>7, <1>8, <1>9, <1>10, <1>11

(* An action keeps every earlier state earlier.                            *)
LEMMA LaterAct ==
  ASSUME NEW stacks, NEW p \in HandType, NEW h, HandOK(h, stacks), Later(p, h),
         NEW e, NEW g, Acts(h, e, g)
  PROVE  Later(p, g)
<1> DEFINE b == e.seat
<1>1. /\ Effect(h, e, g) /\ b \in Seats /\ Waits(h, b) /\ h.street \in Nat /\ g.street = h.street
      /\ h.highest \in Nat /\ g.highest \in Nat
      /\ \A s \in Seats : /\ h.totalPaid[s] \in Nat /\ h.streetPaid[s] \in Nat
                          /\ g.totalPaid[s] \in Nat /\ g.streetPaid[s] \in Nat
                          /\ h.totalPaid[s] <= g.totalPaid[s]
                          /\ g.totalPaid[s] - g.streetPaid[s] = h.totalPaid[s] - h.streetPaid[s]
      /\ e.kind \in Wagers => g.totalPaid[b] > h.totalPaid[b]
  BY ActFacts
<1>2. /\ p.street \in Nat /\ p.street <= h.street
      /\ \A s \in Seats : p.totalPaid[s] \in Nat /\ p.totalPaid[s] <= h.totalPaid[s]
  BY DEF HandType, Later
<1>3. \A s \in Seats : p.totalPaid[s] <= g.totalPaid[s]
  BY <1>1, <1>2
<1>4. p.street = g.street =>
        \A s \in Seats : g.totalPaid[s] - g.streetPaid[s] = p.totalPaid[s] - p.streetPaid[s]
  BY <1>1 DEF Later
<1> HIDE DEF b
<1>5. ASSUME NEW a \in Seats, ~Waits(p, a),
             \A s \in Seats : s # a => g.totalPaid[s] = p.totalPaid[s]
      PROVE  /\ g.street = p.street => g.totalPaid[a] = p.totalPaid[a] /\ ~Waits(g, a)
             /\ g.street = p.street + 1 => g.totalPaid[a] = p.totalPaid[a] + g.streetPaid[a]
  <2>1. \A s \in Seats : s # a => h.totalPaid[s] = p.totalPaid[s] /\ h.totalPaid[s] = g.totalPaid[s]
    <3>1. ASSUME NEW s \in Seats, s # a
          PROVE  h.totalPaid[s] = p.totalPaid[s] /\ h.totalPaid[s] = g.totalPaid[s]
      <4>1. /\ h.totalPaid[s] \in Nat /\ p.totalPaid[s] <= h.totalPaid[s]
            /\ h.totalPaid[s] <= g.totalPaid[s] /\ g.totalPaid[s] = p.totalPaid[s]
        BY <1>1, <1>2, <1>5, <3>1
      <4>2. p.totalPaid[s] \in Nat
        BY <1>2
      <4>3. QED
        BY <4>1, <4>2
    <3>2. QED
      BY <3>1
  <2>2. /\ h.street = p.street => h.totalPaid[a] = p.totalPaid[a] /\ ~Waits(h, a)
        /\ h.street = p.street + 1 => h.totalPaid[a] = p.totalPaid[a] + h.streetPaid[a]
    BY <1>5, <2>1 DEF Later, Idle
  <2>3. ASSUME g.street = p.street PROVE g.totalPaid[a] = p.totalPaid[a] /\ ~Waits(g, a)
    <3>1. h.totalPaid[a] = p.totalPaid[a] /\ ~Waits(h, a)
      BY <1>1, <2>2, <2>3
    <3>2. a # b
      BY <1>1, <3>1
    <3>3. g.totalPaid[a] = h.totalPaid[a]
      BY <1>1, <3>2 DEF Effect, b
    <3>4. h.totalPaid[b] = g.totalPaid[b] /\ h.totalPaid[b] \in Nat
      BY <1>1, <2>1, <3>2
    <3>5. e.kind \notin Wagers
      BY <1>1, <3>4
    <3>6. g.highest = h.highest
      BY <1>1, <3>5 DEF Effect
    <3>7. ~(g.highest > h.highest)
      BY <1>1, <3>6
    <3>8. Waits(g, a) => Waits(h, a)
      BY <1>1, <3>7 DEF Effect
    <3>9. QED
      BY <3>1, <3>3, <3>8
  <2>4. ASSUME g.street = p.street + 1 PROVE g.totalPaid[a] = p.totalPaid[a] + g.streetPaid[a]
    <3>1. h.totalPaid[a] = p.totalPaid[a] + h.streetPaid[a]
      BY <1>1, <2>2, <2>4
    <3>2. /\ h.totalPaid[a] \in Nat /\ h.streetPaid[a] \in Nat
          /\ g.totalPaid[a] \in Nat /\ g.streetPaid[a] \in Nat /\ p.totalPaid[a] \in Nat
          /\ g.totalPaid[a] - g.streetPaid[a] = h.totalPaid[a] - h.streetPaid[a]
      BY <1>1, <1>2
    <3>3. QED
      BY <3>1, <3>2
  <2>5. QED
    BY <2>3, <2>4
<1>6. Idle(p, g)
  BY <1>5 DEF Idle
<1>7. QED
  BY <1>1, <1>2, <1>3, <1>4, <1>6 DEF Later

\* What a deal does, in numbers.
LEMMA StreetFacts ==
  ASSUME NEW stacks, NEW h, HandOK(h, stacks), NEW g, Deals(h, g)
  PROVE  /\ HandOK(g, stacks) /\ h \in HandType /\ g \in HandType /\ ChipsOK(g, stacks)
         /\ h.closed /\ ~h.terminal /\ h.street \in 1..4 /\ g.street = h.street + 1
         /\ g.remaining = h.remaining /\ g.totalPaid = h.totalPaid
         /\ g.folded = h.folded /\ g.allIn = h.allIn /\ g.highest = 0
         /\ g.lastFullRaise = BigBlind /\ g.streetPaid = Zero
         /\ \A s \in Seats : g.streetPaid[s] = 0
<1>1. AcceptsDeal(h) /\ g = AppliedDeal(h, Button)
  BY DEF Deals
<1>2. HandOK(g, stacks) /\ g.street = h.street + 1 /\ g.streetPaid = Zero
      /\ g.remaining = h.remaining /\ g.totalPaid = h.totalPaid
      /\ g.folded = h.folded /\ g.allIn = h.allIn
      /\ g.highest = 0 /\ g.lastFullRaise = BigBlind
  BY <1>1, DealKeeps
<1>3. h \in HandType /\ g \in HandType /\ ChipsOK(g, stacks)
  BY <1>2 DEF HandOK
<1>4. h.closed /\ ~h.terminal /\ h.street \in 1..4
  BY <1>1, <1>3 DEF AcceptsDeal, HandType
<1>5. \A s \in Seats : g.streetPaid[s] = 0
  BY <1>2 DEF Zero
<1>6. QED
  BY <1>2, <1>3, <1>4, <1>5

LEMMA LaterDeal ==
  ASSUME NEW stacks, NEW p \in HandType, NEW h, HandOK(h, stacks), Later(p, h),
         NEW g, Deals(h, g)
  PROVE  Later(p, g)
<1>1. /\ h.street \in 1..4 /\ g.street = h.street + 1 /\ g.totalPaid = h.totalPaid
      /\ \A s \in Seats : g.streetPaid[s] = 0
  BY StreetFacts
<1>2. /\ p.street \in Nat /\ p.street <= h.street
      /\ \A s \in Seats : p.totalPaid[s] \in Nat /\ p.totalPaid[s] <= h.totalPaid[s]
  BY DEF HandType, Later
<1>3. p.street <= g.street /\ p.street # g.street
      /\ (g.street = p.street + 1 => h.street = p.street)
  BY <1>1, <1>2
<1>4. ASSUME NEW a \in Seats, ~Waits(p, a),
             \A s \in Seats : s # a => g.totalPaid[s] = p.totalPaid[s],
             g.street = p.street + 1
      PROVE  g.totalPaid[a] = p.totalPaid[a] + g.streetPaid[a]
  <2>1. h.totalPaid[a] = p.totalPaid[a]
    BY <1>1, <1>3, <1>4 DEF Later, Idle
  <2>2. QED
    BY <1>1, <1>2, <2>1
<1>5. Idle(p, g)
  BY <1>3, <1>4 DEF Idle
<1>6. QED
  BY <1>1, <1>2, <1>3, <1>5 DEF Later

LEMMA StepKeeps ==
  ASSUME NEW stacks, NEW h, HandOK(h, stacks), NEW g, Step(h, g)
  PROVE  /\ HandOK(g, stacks)
         /\ Sound(h) => Sound(g)
         /\ \A p \in HandType : Later(p, h) => Later(p, g)
<1>1. \A p \in HandType : Later(p, h) => Later(p, g)
  BY LaterAct, LaterDeal DEF Step
<1>2. ASSUME NEW e, Acts(h, e, g) PROVE HandOK(g, stacks) /\ (Sound(h) => Sound(g))
  <2>1. /\ HandOK(g, stacks) /\ Effect(h, e, g) /\ e.seat \in Eligible(h)
        /\ h \in HandType /\ g \in HandType /\ ChipsOK(h, stacks) /\ ChipsOK(g, stacks)
        /\ h.remaining[e.seat] \in Nat \ {0} /\ h.highest \in Nat /\ g.highest \in Nat
        /\ e.seat \in Seats
    BY <1>2, ActFacts
  <2> SUFFICES ASSUME Sound(h) PROVE Sound(g)
    BY <2>1
  <2>2. h.allIn = {s \in Seats : h.remaining[s] = 0} /\ g.allIn = {s \in Seats : g.remaining[s] = 0}
    BY <2>1 DEF ChipsOK
  <2>3. ASSUME NEW s \in g.folded PROVE s \notin g.allIn
    <3>1. s \in Seats
      BY <2>1 DEF HandType
    <3>2. CASE s # e.seat
      <4>1. s \in h.folded /\ g.remaining[s] = h.remaining[s]
        BY <2>1, <3>1, <3>2 DEF Effect
      <4>2. QED
        BY <2>2, <4>1 DEF Sound
    <3>3. CASE s = e.seat
      <4>1. e.kind = "FOLD"
        BY <2>1, <3>3 DEF Effect, Eligible, Live
      <4>2. e.kind \notin Wagers
        BY <4>1 DEF Wagers
      <4>3. g.remaining[s] = h.remaining[s]
        BY <2>1, <3>3, <4>2 DEF Effect
      <4>4. QED
        BY <2>1, <2>2, <3>3, <4>3
    <3>4. QED
      BY <3>2, <3>3
  <2>4. g.highest = 0 => g.lastFullRaise = BigBlind
    <3>1. g.highest = 0 => ~(g.highest > h.highest)
      BY <2>1
    <3>2. QED
      BY <2>1, <3>1 DEF Effect, Sound
  <2>5. QED
    BY <2>3, <2>4 DEF Sound
<1>3. ASSUME Deals(h, g) PROVE HandOK(g, stacks) /\ (Sound(h) => Sound(g))
  BY <1>3, StreetFacts DEF Sound
<1>4. QED
  BY <1>1, <1>2, <1>3 DEF Step

\* The action of a seat is known by what it paid.
LEMMA SameRaise ==
  ASSUME NEW h, NEW e, NEW f, e.seat = f.seat, e.to = f.to, NEW full \in BOOLEAN,
         full <=> (e.kind # "ALL_IN_TO" \/ e.to - h.highest >= h.lastFullRaise),
         full <=> (f.kind # "ALL_IN_TO" \/ f.to - h.highest >= h.lastFullRaise)
  PROVE  Raised(h, e) = Raised(h, f)
<1> DEFINE paid(a) == [PayTo(h, a.seat, a.to) EXCEPT !.highest = a.to]
           raised(a) == IF full THEN FullAggression(paid(a), a.seat, a.to - h.highest)
                        ELSE ShortAllInAggression(paid(a), a.seat)
<1>1. Raised(h, e) = raised(e) /\ Raised(h, f) = raised(f)
  BY DEF Raised
<1>2. raised(e) = raised(f)
  BY Zenon
<1>3. QED
  BY <1>1, <1>2

LEMMA SameAct ==
  ASSUME NEW stacks, NEW h, HandOK(h, stacks), Sound(h), NEW e, NEW g, Acts(h, e, g),
         NEW f, NEW k, Acts(h, f, k), g.totalPaid[e.seat] = k.totalPaid[e.seat]
  PROVE  g = k
<1> DEFINE seat == Actor(h)
<1>1. /\ e.seat = seat /\ seat \in Seats /\ e.kind \in Kinds /\ e.to \in Nat \cup {NoAmount}
      /\ h.highest \in Nat /\ h.streetPaid[seat] \in Nat
      /\ h.totalPaid[seat] \in Nat /\ g.totalPaid[seat] \in Nat
      /\ e.kind \in Wagers => g.totalPaid[seat] > h.totalPaid[seat]
      /\ e.kind \notin Wagers => g.totalPaid[seat] = h.totalPaid[seat]
      /\ Effect(h, e, g)
  BY ActFacts
<1>2. /\ f.seat = seat /\ f.kind \in Kinds /\ f.to \in Nat \cup {NoAmount}
      /\ k.totalPaid[seat] \in Nat
      /\ f.kind \in Wagers => k.totalPaid[seat] > h.totalPaid[seat]
      /\ f.kind \notin Wagers => k.totalPaid[seat] = h.totalPaid[seat]
      /\ Effect(h, f, k)
  BY ActFacts
<1>3. /\ Accepts(h, e) /\ g = Applied(h, e) /\ Accepts(h, f) /\ k = Applied(h, f)
      /\ e \in HandEvents /\ f \in HandEvents
  BY DEF Acts
<1>4. e.kind \in Wagers <=> f.kind \in Wagers
  BY <1>1, <1>2
<1>5. CASE e.kind \notin Wagers
  <2>1. e.kind \in {"FOLD", "CHECK"} /\ f.kind \in {"FOLD", "CHECK"}
    BY <1>1, <1>2, <1>4, <1>5 DEF Kinds
  <2>2. /\ e.kind = "FOLD" => e.to = NoAmount /\ Facing(h, seat) > 0
        /\ e.kind = "CHECK" => e.to = NoAmount /\ Facing(h, seat) = 0
        /\ f.kind = "FOLD" => f.to = NoAmount /\ Facing(h, seat) > 0
        /\ f.kind = "CHECK" => f.to = NoAmount /\ Facing(h, seat) = 0
    BY <1>3 DEF Accepts
  <2>3. e.kind = f.kind /\ e.to = f.to
    BY <2>1, <2>2
  <2>4. e = f
    BY <1>1, <1>2, <1>3, <2>3 DEF HandEvents
  <2>5. QED
    BY <1>3, <2>4
<1>6. CASE e.kind \in Wagers
  <2>1. /\ e.to \in Nat /\ f.to \in Nat
        /\ g.totalPaid[seat] = h.totalPaid[seat] + (e.to - h.streetPaid[seat])
        /\ k.totalPaid[seat] = h.totalPaid[seat] + (f.to - h.streetPaid[seat])
    BY <1>1, <1>2, <1>4, <1>6 DEF Effect
  <2>2. e.to = f.to
    BY <1>1, <1>2, <2>1
  <2>3. PICK low \in BOOLEAN : low <=> e.to <= h.highest
    OBVIOUS
  <2>4. /\ ~low <=> e.to > h.highest
        /\ low <=> f.to <= h.highest
        /\ ~low <=> f.to > h.highest
    BY <1>1, <2>1, <2>2, <2>3
  <2>5. CASE low
    <3>1. /\ Applied(h, e) = Ended(PassiveComplete(PayTo(h, e.seat, e.to), e.seat))
          /\ Applied(h, f) = Ended(PassiveComplete(PayTo(h, f.seat, f.to), f.seat))
      BY <1>4, <1>6, <2>3, <2>4, <2>5, AppliedCases
    <3>2. QED
      BY <1>1, <1>2, <1>3, <2>2, <3>1
  <2>6. CASE ~low
    <3>1. ASSUME NEW a, a.kind \in Wagers, Accepts(h, a), a.to \in Nat, a.to > h.highest,
                 a.kind # "ALL_IN_TO"
          PROVE  a.to - h.highest >= h.lastFullRaise
      <4>1. /\ a.kind = "CALL" => a.to <= h.highest
            /\ a.kind = "BET_TO" => h.highest = 0 /\ a.to - h.highest >= BigBlind
            /\ a.kind = "RAISE_TO" => a.to - h.highest >= h.lastFullRaise
        BY <3>1, WagerFacts
      <4>2. a.kind # "CALL"
        BY <1>1, <3>1, <4>1
      <4>3. a.kind = "BET_TO" \/ a.kind = "RAISE_TO"
        BY <3>1, <4>2 DEF Wagers
      <4>4. QED
        BY <4>1, <4>3 DEF Sound
    <3>2. PICK full \in BOOLEAN : full <=> e.to - h.highest >= h.lastFullRaise
      OBVIOUS
    <3>3. /\ full <=> (e.kind # "ALL_IN_TO" \/ e.to - h.highest >= h.lastFullRaise)
          /\ full <=> (f.kind # "ALL_IN_TO" \/ f.to - h.highest >= h.lastFullRaise)
      BY <1>3, <1>4, <1>6, <2>1, <2>2, <2>4, <2>6, <3>1, <3>2
    <3>4. Raised(h, e) = Raised(h, f)
      BY <1>1, <1>2, <2>2, <3>3, SameRaise
    <3>5. Applied(h, e) = Ended(Raised(h, e)) /\ Applied(h, f) = Ended(Raised(h, f))
      BY <1>4, <1>6, <2>3, <2>4, <2>6, AppliedCases
    <3>6. QED
      BY <1>3, <3>4, <3>5
  <2>7. QED
    BY <2>5, <2>6
<1>7. QED
  BY <1>5, <1>6

-----------------------------------------------------------------------------
(* What a frame shows, and what is inferred from it.                       *)
LabelSet == {"", "FOLD", "CHECK", "CALL", "BET", "RAISE", "ALL_IN"}

LabelsOK ==
  /\ labels \in [Seats -> LabelSet] /\ stale \in SUBSET Seats
  /\ \A s \in Seats : labels[s] # "" /\ s \notin stale /\ Waits(hand, s) =>
                        hand.streetPaid[s] < hand.highest

LEMMA LabelFacts ==
  ASSUME NEW kind \in Kinds
  PROVE  /\ Label(kind) \in LabelSet \ {""}
         /\ Label(kind) = "FOLD" <=> kind = "FOLD"
         /\ Label(kind) = "CHECK" <=> kind = "CHECK"
         /\ Label(kind) = "ALL_IN" <=> kind = "ALL_IN_TO"
<1>1. kind \in {"FOLD", "CHECK", "CALL", "BET_TO", "RAISE_TO", "ALL_IN_TO"}
  BY DEF Kinds, Wagers
<1>2. CASE kind = "BET_TO"
  <2>1. Label(kind) = "BET"
    BY <1>2, Zenon DEF Label
  <2>2. QED
    BY <1>2, <2>1 DEF LabelSet
<1>3. CASE kind = "RAISE_TO"
  <2>1. Label(kind) = "RAISE"
    BY <1>3, Zenon DEF Label
  <2>2. QED
    BY <1>3, <2>1 DEF LabelSet
<1>4. CASE kind = "ALL_IN_TO"
  <2>1. Label(kind) = "ALL_IN"
    BY <1>4, Zenon DEF Label
  <2>2. QED
    BY <1>4, <2>1 DEF LabelSet
<1>5. CASE kind \in {"FOLD", "CHECK", "CALL"}
  <2>1. kind # "BET_TO" /\ kind # "RAISE_TO" /\ kind # "ALL_IN_TO"
    BY <1>5
  <2>2. Label(kind) = kind
    BY <2>1, Zenon DEF Label
  <2>3. QED
    BY <1>5, <2>2 DEF LabelSet
<1>6. QED
  BY <1>1, <1>2, <1>3, <1>4, <1>5

LEMMA SnapshotFacts ==
  ASSUME NEW h, NEW on, NEW visible
  PROVE  LET snap == Snapshot(h, on, visible)
         IN  /\ snap.street = h.street /\ snap.stack = h.remaining /\ snap.bet = h.streetPaid
             /\ snap.pot = Total(h.totalPaid) /\ snap.actionOn = on /\ snap.visible = visible
             /\ \A s \in Seats : /\ snap.status[s] = "FOLDED" <=> s \in h.folded
                                 /\ s \in h.allIn /\ s \notin h.folded => snap.status[s] = "ALL_IN"
                                 /\ snap.status[s] = "ALL_IN" => s \in h.allIn
<1> DEFINE snap == Snapshot(h, on, visible)
<1>1. /\ snap.street = h.street /\ snap.stack = h.remaining /\ snap.bet = h.streetPaid
      /\ snap.pot = Total(h.totalPaid) /\ snap.actionOn = on /\ snap.visible = visible
      /\ \A s \in Seats : snap.status[s] = Status(h, s)
  BY DEF Snapshot
<1>2. ASSUME NEW s \in Seats
      PROVE  /\ Status(h, s) = "FOLDED" <=> s \in h.folded
             /\ s \in h.allIn /\ s \notin h.folded => Status(h, s) = "ALL_IN"
             /\ Status(h, s) = "ALL_IN" => s \in h.allIn
  BY DEF Status
<1> HIDE DEF snap
<1>3. QED
  BY <1>1, <1>2 DEF snap

LEMMA ShownFacts ==
  ASSUME LabelsOK, NEW snap \in Snapshots
  PROVE  \E on, visible :
           /\ snap = Snapshot(hand, on, visible)
           /\ on = Actor(hand) \/ on = NoSeat
           /\ visible \in [Seats -> LabelSet]
           /\ \A s \in Seats : visible[s] = "" \/ visible[s] = labels[s]
           /\ on = NoSeat /\ Actor(hand) # NoSeat => \A s \in stale : visible[s] = ""
<1>1. \A hidden : /\ Visible(hidden) \in [Seats -> LabelSet]
                  /\ \A s \in Seats : Visible(hidden)[s] = "" \/ Visible(hidden)[s] = labels[s]
                  /\ \A s \in Seats : s \in hidden => Visible(hidden)[s] = ""
  BY DEF Visible, LabelsOK, LabelSet
<1>2. \A s \in stale : s \in Seats
  BY DEF LabelsOK
<1>3. CASE \E hidden \in {{}, Seats} : snap = Snapshot(hand, Actor(hand), Visible(hidden))
  <2>1. PICK hidden : snap = Snapshot(hand, Actor(hand), Visible(hidden))
    BY <1>3
  <2>2. PICK visible : visible = Visible(hidden)
    OBVIOUS
  <2>3. /\ snap = Snapshot(hand, Actor(hand), visible)
        /\ Actor(hand) = Actor(hand) \/ Actor(hand) = NoSeat
        /\ visible \in [Seats -> LabelSet]
        /\ \A s \in Seats : visible[s] = "" \/ visible[s] = labels[s]
        /\ Actor(hand) = NoSeat /\ Actor(hand) # NoSeat => \A s \in stale : visible[s] = ""
    BY <1>1, <2>1, <2>2
  <2>4. QED
    BY <2>3, Zenon
<1>4. CASE \E hidden \in {{}, Seats} : snap = Snapshot(hand, NoSeat, Visible(stale \cup hidden))
  <2>1. PICK hidden : snap = Snapshot(hand, NoSeat, Visible(stale \cup hidden))
    BY <1>4
  <2>2. \A s \in stale : s \in Seats /\ s \in stale \cup hidden
    BY <1>2
  <2>3. PICK visible : visible = Visible(stale \cup hidden)
    OBVIOUS
  <2>4. /\ snap = Snapshot(hand, NoSeat, visible)
        /\ NoSeat = Actor(hand) \/ NoSeat = NoSeat
        /\ visible \in [Seats -> LabelSet]
        /\ \A s \in Seats : visible[s] = "" \/ visible[s] = labels[s]
        /\ NoSeat = NoSeat /\ Actor(hand) # NoSeat => \A s \in stale : visible[s] = ""
    BY <1>1, <2>1, <2>2, <2>3
  <2>5. QED
    BY <2>4, Zenon
<1>5. QED
  BY <1>3, <1>4 DEF Snapshots

LEMMA InferredFacts ==
  ASSUME NEW stacks, NEW r, HandOK(r, stacks), ~r.closed, NEW snap, snap.stack \in [Seats -> Nat],
         NEW advanced, NEW e \in InferAction(r, snap, advanced)
  PROVE  e \in HandEvents /\ (e.kind = "CHECK" => ShowsCheck(r, snap, Actor(r)))
<1> DEFINE seat == Actor(r)
           passive(kind) == [kind |-> kind, seat |-> seat, to |-> NoAmount]
           wager(t) == [kind |-> WagerKind(r, snap, seat, t), seat |-> seat, to |-> t]
           targets == WagerTarget(r, snap, seat, advanced)
<1>1. /\ seat \in Seats /\ seat # NoSeat /\ r \in HandType
  BY ActorFacts
<1>2. \/ e = passive("FOLD")
      \/ \E t \in targets : t > r.streetPaid[seat] /\ e = wager(t)
      \/ e = passive("CHECK") /\ ShowsCheck(r, snap, seat)
  BY <1>1 DEF InferAction
<1>3. ASSUME NEW t \in targets, e = wager(t) PROVE e \in HandEvents /\ e.kind # "CHECK"
  <2>1. r.streetPaid[seat] \in Nat /\ r.remaining[seat] \in Nat /\ snap.stack[seat] \in Nat
    BY <1>1 DEF HandType
  <2>2. t = r.streetPaid[seat] + (r.remaining[seat] - snap.stack[seat])
        /\ r.remaining[seat] - snap.stack[seat] >= 0
    BY DEF WagerTarget
  <2>3. t \in Nat
    BY <2>1, <2>2
  <2>4. WagerKind(r, snap, seat, t) \in Wagers
    BY DEF WagerKind, Wagers
  <2>5. \A k \in Wagers : k # "CHECK" /\ k \in Kinds
    BY DEF Wagers, Kinds
  <2>6. QED
    BY <1>1, <1>3, <2>3, <2>4, <2>5 DEF HandEvents
<1>4. ASSUME NEW kind \in {"FOLD", "CHECK"}, e = passive(kind) PROVE e \in HandEvents /\ e.kind = kind
  BY <1>1, <1>4 DEF HandEvents, Kinds
<1>5. QED
  BY <1>2, <1>3, <1>4

\* What is inferred from the chips is what was done, if nobody else has paid.
LEMMA InferredIsTrue ==
  ASSUME NEW stacks, NEW r, HandOK(r, stacks), Sound(r), NEW h, HandOK(h, stacks),
         NEW e, NEW q, Acts(r, e, q), NEW f, NEW n, Acts(r, f, n), Later(n, h),
         q.remaining = h.remaining,
         \/ h.street = r.street
         \/ h.street = r.street + 1 /\ \A s \in Seats : h.streetPaid[s] = 0
  PROVE  q = n
<1> DEFINE seat == e.seat
<1>1. /\ seat = Actor(r) /\ seat \in Seats /\ Effect(r, e, q) /\ ChipsOK(q, stacks)
      /\ r.street \in Nat
      /\ \A s \in Seats : q.remaining[s] \in Nat /\ q.totalPaid[s] \in Nat
  BY ActFacts
<1>2. /\ f.seat = seat /\ Effect(r, f, n) /\ n.street = r.street
      /\ \A s \in Seats : n.totalPaid[s] \in Nat
  BY <1>1, ActFacts
<1>3. h \in HandType /\ ChipsOK(h, stacks)
  BY DEF HandOK
<1> HIDE DEF seat
<1>4. ASSUME NEW s \in Seats PROVE q.totalPaid[s] = h.totalPaid[s]
  <2>1. /\ q.remaining[s] + q.totalPaid[s] = stacks[s]
        /\ h.remaining[s] + h.totalPaid[s] = stacks[s]
        /\ h.totalPaid[s] \in Nat /\ h.remaining[s] \in Nat /\ q.remaining[s] = h.remaining[s]
    BY <1>1, <1>3 DEF ChipsOK, HandType
  <2>2. QED
    BY <1>1, <2>1
<1>5. \A s \in Seats : s # seat => h.totalPaid[s] = n.totalPaid[s]
  BY <1>1, <1>2, <1>4 DEF Effect, seat
<1>6. ~Waits(n, seat)
  BY <1>2 DEF Effect
<1>7. /\ h.street = n.street => h.totalPaid[seat] = n.totalPaid[seat]
      /\ h.street = n.street + 1 => h.totalPaid[seat] = n.totalPaid[seat] + h.streetPaid[seat]
  BY <1>1, <1>5, <1>6 DEF Later, Idle
<1>8. h.totalPaid[seat] = n.totalPaid[seat]
  BY <1>1, <1>2, <1>7
<1>9. q.totalPaid[e.seat] = n.totalPaid[e.seat]
  BY <1>1, <1>4, <1>8 DEF seat
<1>10. QED
  BY <1>9, SameAct

-----------------------------------------------------------------------------
(* The course of the hand: every earlier state is sound, and has a next    *)
(* state that was one too.                                                 *)
PastOK ==
  /\ hand \in past /\ Dealt(Button, start, ante) \in past
  /\ \A p \in past :
       /\ HandOK(p, start) /\ Sound(p) /\ Later(p, hand)
       /\ p = hand \/ \E n \in past : Step(p, n) /\ Later(n, hand)

LEMMA ActorWaits ==
  ASSUME NEW stacks, NEW h, HandOK(h, stacks), Actor(h) # NoSeat
  PROVE  ~h.closed /\ Waits(h, Actor(h)) /\ Actor(h) \in Seats
<1>1. ~h.closed
  BY DEF Actor
<1>2. /\ h.pending \in Seq(Seats) /\ h.pending # <<>> /\ IsInjective(h.pending)
      /\ Actor(h) = Head(h.pending) /\ Actor(h) \in Seats
  BY <1>1, ActorFacts
<1>3. QED
  BY <1>1, <1>2, TailFacts DEF Waits

\* Nothing is inferred from a frame of the state that is recorded already.
LEMMA NothingNew ==
  ASSUME PastOK, LabelsOK, NEW snap \in Snapshots, NEW e \in InferAction(hand, snap, FALSE),
         NEW q, Acts(hand, e, q), Matches(q, snap)
  PROVE  FALSE
<1>1. HandOK(hand, start)
  BY DEF PastOK
<1>2. PICK on, visible :
           /\ snap = Snapshot(hand, on, visible)
           /\ on = Actor(hand) \/ on = NoSeat
           /\ visible \in [Seats -> LabelSet]
           /\ \A s \in Seats : visible[s] = "" \/ visible[s] = labels[s]
           /\ on = NoSeat /\ Actor(hand) # NoSeat => \A s \in stale : visible[s] = ""
  BY ShownFacts
<1>3. /\ snap.stack = hand.remaining /\ snap.bet = hand.streetPaid /\ snap.actionOn = on
      /\ snap.visible = visible
      /\ \A s \in Seats : snap.status[s] = "FOLDED" <=> s \in hand.folded
  <2>1. snap = Snapshot(hand, on, visible)
    BY <1>2
  <2>2. /\ snap.stack = hand.remaining /\ snap.bet = hand.streetPaid /\ snap.actionOn = on
        /\ snap.visible = visible
    BY <2>1, SnapshotFacts
  <2>3. \A s \in Seats : snap.status[s] = "FOLDED" <=> s \in hand.folded
    BY <2>1, SnapshotFacts
  <2>4. QED
    BY <2>2, <2>3
<1> DEFINE seat == e.seat
<1>4. /\ HandOK(q, start) /\ Effect(hand, e, q) /\ seat = Actor(hand) /\ seat \in Seats
      /\ ~hand.closed /\ seat \in Eligible(hand) /\ Waits(hand, seat) /\ e.kind \in Kinds
      /\ hand \in HandType /\ hand.highest \in Nat /\ hand.streetPaid[seat] \in Nat
      /\ seat # NoSeat
  <2>1. /\ HandOK(q, start) /\ Effect(hand, e, q) /\ seat = Actor(hand) /\ seat \in Seats
        /\ ~hand.closed /\ seat \in Eligible(hand) /\ Waits(hand, seat) /\ e.kind \in Kinds
        /\ hand \in HandType /\ hand.highest \in Nat
        /\ \A s \in Seats : hand.streetPaid[s] \in Nat
    BY <1>1, ActFacts
  <2>2. QED
    BY <2>1, SeatsFinite
<1>5. /\ q.streetPaid = snap.bet /\ (snap.actionOn # NoSeat => Actor(q) = snap.actionOn)
      /\ \A s \in Seats : s \in q.folded <=> snap.status[s] = "FOLDED"
  BY DEF Matches
<1>6. CASE e.kind = "FOLD"
  <2>1. seat \in q.folded
    BY <1>4, <1>6 DEF Effect
  <2>2. seat \notin hand.folded
    BY <1>4 DEF Eligible, Live
  <2>3. QED
    BY <1>3, <1>4, <1>5, <2>1, <2>2
<1>7. CASE e.kind \in Wagers
  <2>1. /\ e.to \in Nat /\ e.to > hand.streetPaid[seat] /\ q.streetPaid[seat] = e.to
    BY <1>4, <1>7 DEF Effect
  <2>2. q.streetPaid[seat] = hand.streetPaid[seat]
    BY <1>3, <1>5
  <2>3. QED
    BY <1>4, <2>1, <2>2
<1>8. CASE e.kind = "CHECK"
  <2>1. Facing(hand, seat) = 0
    BY <1>4, <1>8 DEF Acts, Accepts
  <2>2. hand.streetPaid[seat] = hand.highest
    BY <1>4, <2>1 DEF Facing
  <2>3. snap.stack \in [Seats -> Nat]
    BY <1>3, <1>4 DEF HandType
  <2>4. ShowsCheck(hand, snap, seat)
    BY <1>1, <1>4, <1>8, <2>3, InferredFacts
  <2>5. CASE on = NoSeat
    <3>1. visible[seat] \in {"CHECK", "CALL"}
      BY <1>3, <2>4, <2>5 DEF ShowsCheck
    <3>2. visible[seat] # ""
      BY <3>1
    <3>3. seat \notin stale /\ labels[seat] # ""
      BY <1>2, <1>4, <2>5, <3>2
    <3>4. hand.streetPaid[seat] < hand.highest
      BY <1>4, <3>3 DEF LabelsOK
    <3>5. QED
      BY <1>4, <2>2, <3>4
  <2>6. CASE on # NoSeat
    <3>1. Actor(q) = seat
      BY <1>2, <1>3, <1>4, <1>5, <2>6
    <3>2. Waits(q, seat)
      BY <1>4, <3>1, ActorWaits
    <3>3. QED
      BY <1>4, <3>2 DEF Effect
  <2>7. QED
    BY <2>5, <2>6
<1>9. QED
  BY <1>4, <1>6, <1>7, <1>8 DEF Kinds

(* Whatever is recorded next of a true state is a true state.              *)
LEMMA AdvanceIsTrue ==
  ASSUME PastOK, LabelsOK, NEW r \in past, NEW snap \in Snapshots, NEW q \in Advance(r, snap)
  PROVE  q \in past
<1>1. /\ HandOK(hand, start) /\ HandOK(r, start) /\ Sound(r) /\ Later(r, hand)
      /\ r = hand \/ \E n \in past : Step(r, n) /\ Later(n, hand)
  BY DEF PastOK
<1>2. /\ snap.street = hand.street /\ snap.stack = hand.remaining /\ snap.bet = hand.streetPaid
  <2>1. PICK on, visible : snap = Snapshot(hand, on, visible)
    BY ShownFacts
  <2>2. QED
    BY <2>1, SnapshotFacts
<1>3. q \in Explained(r, snap) /\ Matches(q, snap)
  BY DEF Advance
<1>4. /\ q.remaining = snap.stack /\ q.streetPaid = snap.bet
  BY <1>3 DEF Matches
<1>5. r \in HandType /\ hand \in HandType /\ r.street \in 1..4 /\ hand.street \in 1..4
  BY <1>1 DEF HandOK, HandType
<1>6. PICK advanced \in BOOLEAN : advanced <=> snap.street = r.street + 1
  OBVIOUS
<1>7. PICK acted :
         /\ acted = IF r.closed THEN {p \in {r} : advanced}
                    ELSE {Applied(r, e) : e \in {f \in InferAction(r, snap, advanced) : Accepts(r, f)}}
         /\ q \in IF advanced THEN {AppliedDeal(p, Button) : p \in {x \in acted : AcceptsDeal(x)}}
                  ELSE {p \in acted : snap.street = r.street}
  <2>1. PICK b : b = (snap.street = r.street + 1)
    OBVIOUS
  <2>2. b = advanced
    BY <1>6, <2>1
  <2>3. QED
    BY <1>3, <2>1, <2>2 DEF Explained
<1>8. CASE r.closed
  <2>1. advanced /\ q = AppliedDeal(r, Button) /\ AcceptsDeal(r)
    BY <1>7, <1>8
  <2>2. r # hand
    BY <1>2, <1>5, <1>6, <2>1
  <2>3. PICK n \in past : Step(r, n)
    BY <1>1, <2>2
  <2>4. Deals(r, n)
    BY <1>1, <1>8, <2>3, ActFacts DEF Step
  <2>5. QED
    BY <2>1, <2>3, <2>4 DEF Deals
<1>9. CASE ~r.closed
  <2>0. snap.stack \in [Seats -> Nat]
    BY <1>2, <1>5 DEF HandType
  <2>1. \A e \in InferAction(r, snap, advanced) : Accepts(r, e) => Acts(r, e, Applied(r, e))
    BY <1>1, <1>9, <2>0, InferredFacts DEF Acts
  <2>2. PICK e, p : /\ e \in InferAction(r, snap, advanced) /\ Acts(r, e, p)
                    /\ IF advanced THEN AcceptsDeal(p) /\ q = AppliedDeal(p, Button)
                       ELSE q = p /\ snap.street = r.street
    <3>1. \A x \in acted : \E e \in InferAction(r, snap, advanced) : Acts(r, e, x)
      BY <1>7, <1>9, <2>1
    <3>2. \E x \in acted : IF advanced THEN AcceptsDeal(x) /\ q = AppliedDeal(x, Button)
                           ELSE q = x /\ snap.street = r.street
      BY <1>7
    <3>3. QED
      BY <3>1, <3>2
  <2>3. HandOK(p, start)
    BY <1>1, <2>2, ActFacts
  <2>4. /\ p.remaining = hand.remaining
        /\ \/ hand.street = r.street
           \/ hand.street = r.street + 1 /\ \A s \in Seats : hand.streetPaid[s] = 0
    <3>1. CASE advanced
      <4>1. Deals(p, q)
        BY <2>2, <3>1 DEF Deals
      <4>2. q.remaining = p.remaining /\ \A s \in Seats : q.streetPaid[s] = 0
        BY <2>3, <4>1, StreetFacts
      <4>3. QED
        BY <1>2, <1>4, <1>6, <3>1, <4>2
    <3>2. CASE ~advanced
      BY <1>2, <1>4, <2>2, <3>2
    <3>3. QED
      BY <3>1, <3>2
  <2>5. r # hand
    <3>1. SUFFICES ASSUME r = hand PROVE FALSE
      OBVIOUS
    <3>2. advanced = FALSE
      BY <1>2, <1>5, <1>6, <3>1
    <3>3. q = p
      BY <2>2, <3>2
    <3>4. QED
      BY <1>3, <2>2, <3>1, <3>2, <3>3, NothingNew
  <2>6. PICK n \in past : Step(r, n) /\ Later(n, hand)
    BY <1>1, <2>5
  <2>7. ~Deals(r, n)
    BY <1>1, <1>9, StreetFacts
  <2>8. PICK f : Acts(r, f, n)
    BY <2>6, <2>7 DEF Step
  <2>9. p = n
    BY <1>1, <2>2, <2>4, <2>6, <2>8, InferredIsTrue
  <2>10. CASE ~advanced
    BY <2>2, <2>6, <2>9, <2>10
  <2>11. CASE advanced
    <3>1. Deals(n, q) /\ HandOK(n, start)
      BY <2>2, <2>3, <2>9, <2>11 DEF Deals
    <3>2. n.closed /\ n.street = r.street
      BY <1>1, <2>8, <3>1, StreetFacts, ActFacts
    <3>3. n # hand
      BY <1>2, <1>5, <1>6, <2>11, <3>2
    <3>4. PICK m \in past : Step(n, m)
      BY <2>6, <3>3 DEF PastOK
    <3>5. Deals(n, m)
      BY <3>1, <3>2, <3>4, ActFacts DEF Step
    <3>6. QED
      BY <3>1, <3>4, <3>5 DEF Deals
  <2>12. QED
    BY <2>10, <2>11
<1>10. QED
  BY <1>8, <1>9

\* The forced bets of a frame without labels are those of the hand: by the pot,
\* nobody was short of the ante who seems to have paid it.
LEMMA InitialIsTrue ==
  ASSUME HandInv, PastOK, LabelsOK, NEW snap \in Snapshots, NEW q \in InitialHistory(snap)
  PROVE  q \in past
<1>1. /\ start \in [Seats -> Nat \ {0}] /\ ante \in Nat /\ Max(Stacks) \in Nat
      /\ \A s \in Seats : start[s] <= Max(Stacks)
  BY StacksFacts, ReplayAssumption DEF HandInv
<1>2. /\ snap.street = hand.street /\ snap.stack = hand.remaining /\ snap.bet = hand.streetPaid
      /\ snap.pot = Total(hand.totalPaid)
  <2>1. PICK on, visible : snap = Snapshot(hand, on, visible)
    BY ShownFacts
  <2>2. QED
    BY <2>1, SnapshotFacts
<1>3. PICK seats : seats = [s \in Seats |-> snap.stack[s] + snap.bet[s] + ante]
  OBVIOUS
<1>4. /\ q = Dealt(Button, seats, ante) /\ snap.street = 1 /\ Matches(q, snap)
  BY <1>3 DEF InitialHistory
<1>5. PICK p \in past : p = Dealt(Button, start, ante)
  BY DEF PastOK
<1>6. Button \in Seats
  BY ReplayAssumption DEF Button, Seats
<1>7. /\ p.street = 1
      /\ \A s \in Seats : p.totalPaid[s] = p.streetPaid[s] + Lesser(ante, start[s])
  BY <1>1, <1>5, <1>6, DealtFacts
<1>8. HandOK(hand, start) /\ Later(p, hand) /\ HandOK(p, start)
  BY DEF PastOK
<1>9. /\ hand \in HandType /\ ChipsOK(hand, start) /\ p \in HandType
      /\ hand.totalPaid \in [Seats -> Nat]
  BY <1>8 DEF HandOK, HandType
<1>10. ASSUME NEW s \in Seats
       PROVE  /\ hand.totalPaid[s] = hand.streetPaid[s] + Lesser(ante, start[s])
              /\ seats[s] = start[s] - Lesser(ante, start[s]) + ante
              /\ seats[s] \in Nat \ {0} /\ seats[s] <= Max(Stacks) + ante
              /\ Lesser(ante, seats[s]) = ante /\ Lesser(ante, start[s]) <= ante
              /\ hand.streetPaid[s] \in Nat /\ Lesser(ante, start[s]) \in Nat
              /\ Lesser(ante, start[s]) = ante => seats[s] = start[s]
  <2>1. /\ hand.totalPaid[s] \in Nat /\ hand.streetPaid[s] \in Nat /\ hand.remaining[s] \in Nat
        /\ p.totalPaid[s] \in Nat /\ p.streetPaid[s] \in Nat
    BY <1>9 DEF HandType
  <2>2. hand.totalPaid[s] - hand.streetPaid[s] = p.totalPaid[s] - p.streetPaid[s]
    BY <1>2, <1>4, <1>7, <1>8 DEF Later
  <2>3. p.totalPaid[s] = p.streetPaid[s] + Lesser(ante, start[s])
    BY <1>7
  <2>4. hand.remaining[s] + hand.totalPaid[s] = start[s]
    BY <1>9 DEF ChipsOK
  <2>5. seats[s] = hand.remaining[s] + hand.streetPaid[s] + ante
    BY <1>2, <1>3
  <2>6. PICK fee \in Nat : fee = Lesser(ante, start[s])
    BY <1>1 DEF Lesser
  <2>7. fee <= ante /\ fee <= start[s] /\ (fee = ante \/ fee = start[s])
    BY <1>1, <2>6 DEF Lesser
  <2>8. start[s] \in Nat \ {0} /\ start[s] <= Max(Stacks)
    BY <1>1
  <2>9. hand.totalPaid[s] = hand.streetPaid[s] + fee /\ seats[s] = start[s] - fee + ante
    BY <1>1, <2>1, <2>2, <2>3, <2>4, <2>5, <2>6
  <2>10. seats[s] \in Nat \ {0} /\ seats[s] <= Max(Stacks) + ante /\ ante <= seats[s]
    BY <1>1, <2>7, <2>8, <2>9
  <2>11. Lesser(ante, seats[s]) = ante
    BY <1>1, <2>10 DEF Lesser
  <2>12. QED
    BY <1>1, <2>1, <2>6, <2>7, <2>8, <2>9, <2>10, <2>11
<1>11. seats \in [Seats -> Nat \ {0}] /\ Max(Stacks) + ante \in Nat
       /\ \A s \in Seats : seats[s] <= Max(Stacks) + ante
  BY <1>1, <1>3, <1>10
<1>12. /\ HandOK(q, seats)
       /\ \A s \in Seats : q.totalPaid[s] = q.streetPaid[s] + Lesser(ante, seats[s])
  BY <1>1, <1>4, <1>6, <1>11, DealtFacts
<1>13. q.totalPaid \in [Seats -> Nat]
  BY <1>12 DEF HandOK, HandType
<1>14. q.streetPaid = hand.streetPaid /\ Total(q.totalPaid) = Total(hand.totalPaid)
  BY <1>2, <1>4 DEF Matches
<1>15. \A s \in Seats : hand.totalPaid[s] <= q.totalPaid[s]
  BY <1>1, <1>10, <1>12, <1>14
<1>16. hand.totalPaid = q.totalPaid
  BY <1>9, <1>13, <1>14, <1>15, SamePot
<1>17. ASSUME NEW s \in Seats PROVE seats[s] = start[s]
  <2>1. /\ q.totalPaid[s] = hand.streetPaid[s] + ante
        /\ q.totalPaid[s] = hand.streetPaid[s] + Lesser(ante, start[s])
    BY <1>10, <1>12, <1>14, <1>16
  <2>2. Lesser(ante, start[s]) = ante
    BY <1>1, <1>10, <2>1
  <2>3. QED
    BY <1>10, <2>2
<1>18. seats = start
  BY <1>1, <1>11, <1>17
<1>19. QED
  BY <1>4, <1>5, <1>18

\* A frame that shows who is to act shows one state of the hand only.
LEMMA MatchedIsCurrent ==
  ASSUME PastOK, LabelsOK, NEW snap \in Snapshots, snap.actionOn # NoSeat,
         NEW q \in past, Matches(q, snap)
  PROVE  q = hand
<1>1. /\ HandOK(hand, start) /\ HandOK(q, start)
      /\ q = hand \/ \E n \in past : Step(q, n) /\ Later(n, hand)
  BY DEF PastOK
<1>2. PICK on, visible : snap = Snapshot(hand, on, visible) /\ (on = Actor(hand) \/ on = NoSeat)
  BY ShownFacts
<1>3. snap.street = hand.street /\ snap.stack = hand.remaining /\ snap.actionOn = on
  BY <1>2, SnapshotFacts
<1>4. Actor(hand) # NoSeat /\ snap.actionOn = Actor(hand)
  BY <1>2, <1>3
<1>5. q.street = hand.street /\ q.remaining = hand.remaining /\ Actor(q) = Actor(hand)
  BY <1>3, <1>4 DEF Matches
<1>6. SUFFICES ASSUME q # hand PROVE FALSE
  OBVIOUS
<1>7. PICK n \in past : Step(q, n) /\ Later(n, hand)
  BY <1>1, <1>6
<1>8. ~q.closed
  BY <1>1, <1>4, <1>5, ActorWaits
<1>9. PICK e : Acts(q, e, n)
  BY <1>1, <1>7, <1>8, StreetFacts DEF Step
<1>10. /\ e.seat = Actor(q) /\ e.seat \in Seats /\ ~Waits(n, e.seat) /\ n.street = q.street
       /\ n \in HandType /\ \A s \in Seats : q.totalPaid[s] <= n.totalPaid[s]
  <2>1. /\ Effect(q, e, n) /\ e.seat = Actor(q) /\ e.seat \in Seats /\ n.street = q.street
        /\ n \in HandType /\ \A s \in Seats : q.totalPaid[s] <= n.totalPaid[s]
    BY <1>1, <1>9, ActFacts
  <2>2. ~Waits(n, e.seat)
    BY <2>1 DEF Effect
  <2>3. QED
    BY <2>1, <2>2
<1>11. /\ q \in HandType /\ hand \in HandType /\ ChipsOK(q, start) /\ ChipsOK(hand, start)
  BY <1>1 DEF HandOK
<1>12. ASSUME NEW s \in Seats PROVE n.totalPaid[s] = hand.totalPaid[s]
  <2>1. /\ q.remaining[s] + q.totalPaid[s] = start[s] /\ q.remaining[s] \in Nat
        /\ hand.remaining[s] + hand.totalPaid[s] = start[s] /\ q.remaining[s] = hand.remaining[s]
        /\ q.totalPaid[s] \in Nat /\ n.totalPaid[s] \in Nat /\ hand.totalPaid[s] \in Nat
    BY <1>5, <1>10, <1>11 DEF ChipsOK, HandType
  <2>2. q.totalPaid[s] <= n.totalPaid[s] /\ n.totalPaid[s] <= hand.totalPaid[s]
    BY <1>7, <1>10 DEF Later
  <2>3. QED
    BY <2>1, <2>2
<1>13. ~Waits(hand, e.seat)
  BY <1>5, <1>7, <1>10, <1>12 DEF Later, Idle
<1>14. QED
  BY <1>1, <1>4, <1>5, <1>10, <1>13, ActorWaits

-----------------------------------------------------------------------------
(* The invariant of the recorder.                                          *)
RecorderInv ==
  /\ HandInv /\ PastOK /\ LabelsOK
  /\ RecordedIsTrue /\ RecordedIsCurrent
  /\ lastVisible \in [Seats -> LabelSet]

LEMMA RecorderInit == Init => RecorderInv
<1> SUFFICES ASSUME Init PROVE RecorderInv
  OBVIOUS
<1>1. HandInv
  BY HandInit
<1>2. /\ start \in [Seats -> Nat \ {0}] /\ ante \in Nat /\ Max(Stacks) \in Nat
      /\ \A s \in Seats : start[s] <= Max(Stacks)
  BY <1>1, StacksFacts, ReplayAssumption DEF HandInv
<1>3. /\ hand = Dealt(Button, start, ante) /\ past = {hand}
      /\ labels = [s \in Seats |-> ""] /\ stale = {} /\ recorded = NoHistory /\ ~current
      /\ lastVisible = [s \in Seats |-> ""]
  BY DEF Init
<1> Button \in Seats
  BY ReplayAssumption DEF Button, Seats
<1>4. HandOK(hand, start) /\ hand.folded = {} /\ hand.lastFullRaise = BigBlind
  BY <1>2, <1>3, DealtFacts
<1>5. Sound(hand) /\ Later(hand, hand)
  BY <1>4, LaterItself DEF Sound, HandOK
<1>6. PastOK
  BY <1>3, <1>4, <1>5 DEF PastOK
<1>7. LabelsOK /\ lastVisible \in [Seats -> LabelSet]
  BY <1>3 DEF LabelsOK, LabelSet
<1>8. QED
  BY <1>1, <1>3, <1>6, <1>7 DEF RecorderInv, RecordedIsTrue, RecordedIsCurrent

LEMMA PastGrows ==
  ASSUME PastOK, Step(hand, hand'), past' = past \cup {hand'}, start' = start, ante' = ante
  PROVE  PastOK'
<1>1. PICK g : g = hand'
  OBVIOUS
<1>2. /\ HandOK(hand, start) /\ Sound(hand) /\ hand \in past /\ Dealt(Button, start, ante) \in past
      /\ \A p \in past : /\ HandOK(p, start) /\ Sound(p) /\ Later(p, hand)
                         /\ p = hand \/ \E n \in past : Step(p, n) /\ Later(n, hand)
  BY DEF PastOK
<1>3. HandOK(g, start) /\ Sound(g) /\ \A p \in HandType : Later(p, hand) => Later(p, g)
  <2>1. Step(hand, g)
    BY <1>1
  <2>2. QED
    BY <1>2, <2>1, StepKeeps
<1>4. Later(g, g)
  BY <1>3, LaterItself DEF HandOK
<1>5. \A p \in past : Later(p, g)
  BY <1>2, <1>3 DEF HandOK
<1>6. \A p \in past \cup {g} : p = g \/ \E n \in past \cup {g} : Step(p, n) /\ Later(n, g)
  BY <1>1, <1>2, <1>4, <1>5
<1>7. \A p \in past \cup {g} : /\ HandOK(p, start) /\ Sound(p) /\ Later(p, g)
                               /\ p = g \/ \E n \in past \cup {g} : Step(p, n) /\ Later(n, g)
  BY <1>2, <1>3, <1>4, <1>5, <1>6
<1>8. QED
  BY <1>1, <1>2, <1>7 DEF PastOK

LEMMA PlayKeeps ==
  ASSUME RecorderInv, HandInv', NEW kind \in Kinds, NEW to \in Nat \cup {NoAmount}, Play(kind, to)
  PROVE  RecorderInv'
<1> DEFINE seat == Actor(hand)
<1>0. HandInv /\ PastOK /\ LabelsOK /\ RecordedIsTrue /\ lastVisible \in [Seats -> LabelSet]
  BY DEF RecorderInv
<1>1. HandOK(hand, start)
  BY <1>0 DEF HandInv
<1>2. PICK e : e = [kind |-> kind, seat |-> seat, to |-> to]
  OBVIOUS
<1>3. /\ Accepts(hand, e) /\ hand' = Applied(hand, e) /\ start' = start /\ ante' = ante
      /\ labels' = [labels EXCEPT ![seat] = Label(kind)] /\ stale' = stale \ {seat}
      /\ past' = past \cup {hand'} /\ ~current' /\ recorded' = recorded
      /\ lastVisible' = lastVisible
  BY <1>2 DEF Play, Act, recorder
<1>4. seat \in Seats
  BY <1>1, <1>3, ActorFacts DEF Accepts
<1>5. PICK g : g = hand' /\ Acts(hand, e, g)
  BY <1>2, <1>3, <1>4 DEF Acts, HandEvents
<1>6. e.seat = seat
  BY <1>2
<1>7. PastOK'
  BY <1>0, <1>3, <1>5, PastGrows DEF Step
<1>8. Label(kind) \in LabelSet
  BY LabelFacts
<1>9. LabelsOK'
  <2>1. labels' \in [Seats -> LabelSet] /\ stale' \in SUBSET Seats
    BY <1>0, <1>3, <1>4, <1>8 DEF LabelsOK
  <2>2. ASSUME NEW s \in Seats, labels'[s] # "", s \notin stale', Waits(g, s)
        PROVE  g.streetPaid[s] < g.highest
    <3>1. /\ Effect(hand, e, g) /\ hand.highest \in Nat /\ g.highest \in Nat
          /\ \A x \in Seats : /\ hand.streetPaid[x] \in Nat /\ hand.streetPaid[x] <= hand.highest
      BY <1>1, <1>5, ActFacts
    <3>2. s # seat
      BY <1>6, <2>2, <3>1 DEF Effect
    <3>3. labels[s] # "" /\ s \notin stale
      BY <1>0, <1>3, <2>2, <3>2 DEF LabelsOK
    <3>4. g.streetPaid[s] = hand.streetPaid[s]
      BY <1>6, <3>1, <3>2 DEF Effect
    <3>5. CASE g.highest > hand.highest
      BY <3>1, <3>4, <3>5
    <3>6. CASE g.highest = hand.highest /\ \A x : Waits(g, x) => Waits(hand, x)
      <4>1. hand.streetPaid[s] < hand.highest
        BY <1>0, <2>2, <3>3, <3>6 DEF LabelsOK
      <4>2. QED
        BY <3>4, <3>6, <4>1
    <3>7. QED
      BY <3>1, <3>5, <3>6 DEF Effect
  <2>3. QED
    BY <1>5, <2>1, <2>2 DEF LabelsOK
<1>10. RecordedIsTrue' /\ RecordedIsCurrent'
  BY <1>0, <1>3 DEF RecordedIsTrue, RecordedIsCurrent
<1>11. QED
  BY <1>0, <1>3, <1>7, <1>9, <1>10 DEF RecorderInv

LEMMA DealStreetKeeps ==
  ASSUME RecorderInv, HandInv', DealStreet
  PROVE  RecorderInv'
<1>0. HandInv /\ PastOK /\ LabelsOK /\ RecordedIsTrue /\ lastVisible \in [Seats -> LabelSet]
  BY DEF RecorderInv
<1>1. /\ AcceptsDeal(hand) /\ hand' = AppliedDeal(hand, Button) /\ start' = start /\ ante' = ante
      /\ labels' = labels /\ stale' = Seats /\ past' = past \cup {hand'} /\ ~current'
      /\ recorded' = recorded /\ lastVisible' = lastVisible
  BY DEF DealStreet, Deal, recorder
<1>2. Step(hand, hand')
  BY <1>1 DEF Step, Deals
<1>3. PastOK'
  BY <1>0, <1>1, <1>2, PastGrows
<1>4. LabelsOK'
  BY <1>0, <1>1 DEF LabelsOK
<1>5. RecordedIsTrue' /\ RecordedIsCurrent'
  BY <1>0, <1>1 DEF RecordedIsTrue, RecordedIsCurrent
<1>6. QED
  BY <1>0, <1>1, <1>3, <1>4, <1>5 DEF RecorderInv

LEMMA ObserveKeeps ==
  ASSUME RecorderInv, HandInv', NEW snap \in Snapshots, Observe(snap)
  PROVE  RecorderInv'
<1>0. HandInv /\ PastOK /\ LabelsOK /\ RecordedIsTrue
  BY DEF RecorderInv
<1>1. PICK q \in Probe(snap) :
           /\ recorded' = q /\ lastVisible' = snap.visible /\ current' = (snap.actionOn # NoSeat)
  BY DEF Observe
<1>2. UNCHANGED table
  BY DEF Observe
<1>3. PastOK' /\ LabelsOK' /\ past' = past /\ hand' = hand
  BY <1>0, <1>2 DEF PastOK, LabelsOK, table
<1>4. q \in past /\ Matches(q, snap)
  <2>1. CASE recorded = NoHistory
    <3>1. q \in InitialHistory(snap)
      BY <1>1, <2>1 DEF Probe
    <3>2. q \in past
      BY <1>0, <3>1, InitialIsTrue
    <3>3. Matches(q, snap)
      BY <3>1 DEF InitialHistory
    <3>4. QED
      BY <3>2, <3>3
  <2>2. CASE recorded # NoHistory
    <3>1. recorded \in past
      BY <1>0, <2>2 DEF RecordedIsTrue
    <3>2. \/ q = recorded /\ Matches(q, snap)
          \/ q \in Advance(recorded, snap)
      BY <1>1, <2>2 DEF Probe
    <3>3. CASE q \in Advance(recorded, snap)
      <4>1. q \in past
        BY <1>0, <3>1, <3>3, AdvanceIsTrue
      <4>2. Matches(q, snap)
        BY <3>3 DEF Advance
      <4>3. QED
        BY <4>1, <4>2
    <3>4. QED
      BY <3>1, <3>2, <3>3
  <2>3. QED
    BY <2>1, <2>2
<1>5. snap.actionOn # NoSeat => q = hand
  BY <1>0, <1>4, MatchedIsCurrent
<1>6. RecordedIsTrue' /\ RecordedIsCurrent'
  BY <1>1, <1>3, <1>4, <1>5 DEF RecordedIsTrue, RecordedIsCurrent
<1>7. lastVisible' \in [Seats -> LabelSet]
  <2>1. PICK on, visible : snap = Snapshot(hand, on, visible) /\ visible \in [Seats -> LabelSet]
    BY <1>0, ShownFacts
  <2>2. snap.visible = visible
    BY <2>1, SnapshotFacts
  <2>3. QED
    BY <1>1, <2>1, <2>2
<1>8. QED
  BY <1>3, <1>6, <1>7 DEF RecorderInv

LEMMA RecorderNext == RecorderInv /\ [Next]_vars => RecorderInv'
<1> SUFFICES ASSUME RecorderInv, [Next]_vars PROVE RecorderInv'
  OBVIOUS
<1>1. HandInv'
  BY HandNext DEF RecorderInv
<1>2. ASSUME NEW kind \in {"FOLD", "CHECK"}, Play(kind, NoAmount) PROVE RecorderInv'
  BY <1>1, <1>2, PlayKeeps DEF Kinds
<1>3. ASSUME NEW kind \in Wagers, NEW to \in Amounts, Play(kind, to) PROVE RecorderInv'
  <2>1. to \in Nat
    BY StacksFacts DEF Amounts
  <2>2. QED
    BY <1>1, <1>3, <2>1, PlayKeeps DEF Kinds
<1>4. ASSUME DealStreet PROVE RecorderInv'
  BY <1>1, <1>4, DealStreetKeeps
<1>5. ASSUME NEW snap \in Snapshots, Observe(snap) PROVE RecorderInv'
  BY <1>1, <1>5, ObserveKeeps
<1>6. CASE UNCHANGED vars
  BY <1>1, <1>6 DEF vars, table, recorder, RecorderInv, PastOK, LabelsOK, RecordedIsTrue,
                    RecordedIsCurrent
<1>7. QED
  BY <1>2, <1>3, <1>4, <1>5, <1>6 DEF Next

THEOREM RecorderInvariant == Spec => []RecorderInv
BY RecorderInit, RecorderNext, PTL DEF Spec

(* The recorder never invents a course of the hand, however many actions   *)
(* and frames it missed.                                                   *)
THEOREM RecorderIsTrue == Spec => []RecordedIsTrue
<1>1. RecorderInv => RecordedIsTrue
  BY DEF RecorderInv
<1>2. QED
  BY <1>1, RecorderInvariant, PTL

(* A frame that shows who is to act, once accepted, leaves nothing behind. *)
THEOREM RecorderIsCurrent == Spec => []RecordedIsCurrent
<1>1. RecorderInv => RecordedIsCurrent
  BY DEF RecorderInv
<1>2. QED
  BY <1>1, RecorderInvariant, PTL

-----------------------------------------------------------------------------
(* What the next frame of an up-to-date recorder proves.                   *)

\* A frame that shows nothing wrong agrees with the state it shows.
LEMMA ShownMatches ==
  ASSUME NEW stacks, NEW h, HandOK(h, stacks), Sound(h), NEW visible
  PROVE  Matches(h, Snapshot(h, Actor(h), visible))
<1> DEFINE snap == Snapshot(h, Actor(h), visible)
<1>1. /\ snap.street = h.street /\ snap.stack = h.remaining /\ snap.bet = h.streetPaid
      /\ snap.pot = Total(h.totalPaid) /\ snap.actionOn = Actor(h)
      /\ \A s \in Seats : /\ snap.status[s] = "FOLDED" <=> s \in h.folded
                          /\ s \in h.allIn /\ s \notin h.folded => snap.status[s] = "ALL_IN"
                          /\ snap.status[s] = "ALL_IN" => s \in h.allIn
  BY SnapshotFacts
<1> HIDE DEF snap
<1>2. \A s \in Seats : s \in h.allIn <=> snap.status[s] = "ALL_IN"
  BY <1>1 DEF Sound
<1>3. Matches(h, snap)
  BY <1>1, <1>2 DEF Matches
<1>4. QED
  BY <1>3 DEF snap

\* A wager read as another kind is the same wager: of the kinds that fit the
\* frame the recorder infers one the engine accepts, with the same chips.
LEMMA WagerIsAccepted ==
  ASSUME NEW stacks, NEW h, HandOK(h, stacks), NEW e, NEW g, Acts(h, e, g), e.kind \in Wagers,
         NEW snap, NEW f,
         f = [kind |-> WagerKind(h, snap, e.seat, e.to), seat |-> e.seat, to |-> e.to],
         e.kind = "ALL_IN_TO" <=> snap.visible[e.seat] = "ALL_IN",
         snap.stack[e.seat] = g.remaining[e.seat],
         snap.status[e.seat] = "ALL_IN" => g.remaining[e.seat] = 0
  PROVE  f.kind \in Wagers /\ Acts(h, f, Applied(h, f))
<1> DEFINE seat == e.seat
<1>1. /\ HandOK(g, stacks) /\ Effect(h, e, g) /\ ~h.closed /\ ~h.terminal
      /\ seat = Actor(h) /\ seat \in Seats /\ e.to \in Nat \cup {NoAmount}
      /\ h \in HandType /\ h.highest \in Nat
      /\ \A s \in Seats : h.streetPaid[s] \in Nat
  BY ActFacts
<1>2. g.remaining[seat] = MaxTarget(h, seat) - e.to
  BY <1>1 DEF Effect
<1>3. /\ e.to \in Nat /\ e.to > h.streetPaid[seat] /\ e.to <= MaxTarget(h, seat)
      /\ MaxTarget(h, seat) \in Nat
      /\ e.to <= h.highest => e.to = h.highest \/ e.to = MaxTarget(h, seat)
      /\ e.kind = "ALL_IN_TO" => e.to = MaxTarget(h, seat)
      /\ e.kind = "CALL" => e.to <= h.highest
      /\ e.kind = "BET_TO" => e.to > h.highest /\ h.highest = 0 /\ e.to - h.highest >= BigBlind
      /\ e.kind = "RAISE_TO" => e.to > h.highest /\ h.highest > 0 /\ e.to - h.highest >= h.lastFullRaise
      /\ e.to > h.highest => MayRaise(h, seat)
  <2>1. Accepts(h, e)
    BY DEF Acts
  <2>2. QED
    BY <1>1, <2>1, WagerFacts
<1>4. h.streetPaid[seat] \in Nat
  BY <1>1
<1>5. f.seat = seat /\ f.to = e.to /\ f.kind = WagerKind(h, snap, seat, e.to)
  OBVIOUS
<1>6. PICK allIn \in BOOLEAN :
        allIn <=> snap.status[seat] = "ALL_IN" \/ snap.stack[seat] = 0
                  \/ snap.visible[seat] = "ALL_IN"
  OBVIOUS
<1>7. f.kind = IF allIn THEN "ALL_IN_TO"
               ELSE IF e.to <= h.highest THEN "CALL"
               ELSE IF h.highest = 0 THEN "BET_TO" ELSE "RAISE_TO"
  BY <1>5, <1>6 DEF WagerKind
<1>8. f.kind \in Wagers
  BY <1>7 DEF Wagers
<1>9. CASE allIn
  <2>1. e.to = MaxTarget(h, seat)
    BY <1>2, <1>3, <1>6, <1>9
  <2>2. Accepts(h, f)
    BY <1>1, <1>3, <1>5, <1>7, <1>9, <2>1 DEF Accepts
  <2>3. QED
    BY <1>1, <1>3, <1>5, <1>8, <2>2 DEF Acts, HandEvents, Kinds
<1>10. CASE ~allIn /\ e.to <= h.highest
  <2>1. f.kind = "CALL"
    BY <1>7, <1>10
  <2>2. Facing(h, seat) > 0 /\ e.to = CallTarget(h, seat)
    BY <1>1, <1>3, <1>4, <1>10 DEF Facing, CallTarget, Lesser
  <2>3. Accepts(h, f)
    BY <1>1, <1>5, <2>1, <2>2 DEF Accepts
  <2>4. QED
    BY <1>1, <1>3, <1>5, <1>8, <2>3 DEF Acts, HandEvents, Kinds
<1>11. CASE ~allIn /\ ~(e.to <= h.highest)
  <2>1. e.kind # "ALL_IN_TO" /\ e.kind # "CALL"
    BY <1>3, <1>6, <1>11
  <2>2. e.kind = "BET_TO" \/ e.kind = "RAISE_TO"
    BY <2>1 DEF Wagers
  <2>3. f.kind = e.kind
    BY <1>1, <1>3, <1>7, <1>11, <2>2
  <2>4. e = [kind |-> e.kind, seat |-> e.seat, to |-> e.to]
    BY DEF Acts, HandEvents
  <2>5. f = e
    BY <1>5, <2>3, <2>4
  <2>6. QED
    BY <1>8, <2>5 DEF Acts
<1>12. QED
  BY <1>9, <1>10, <1>11

\* The states a frame's action may lead to.
Outcomes(h, snap, advanced) ==
  {Applied(h, e) : e \in {f \in InferAction(h, snap, advanced) : Accepts(h, f)}}

\* A frame of the state after one action, or after the deal that follows it,
\* proves that action and no other.
LEMMA ActionIsProved ==
  ASSUME NEW stacks, NEW h, HandOK(h, stacks), Sound(h), NEW e, NEW g, Acts(h, e, g),
         NEW snap, NEW advanced \in BOOLEAN, snap.visible[e.seat] = Label(e.kind),
         snap.stack[e.seat] = g.remaining[e.seat],
         advanced \/ snap.bet[e.seat] = g.streetPaid[e.seat],
         snap.status[e.seat] = "FOLDED" <=> e.seat \in g.folded,
         snap.status[e.seat] = "ALL_IN" => g.remaining[e.seat] = 0
  PROVE  Outcomes(h, snap, advanced) = {g}
<1> DEFINE seat == e.seat
           paid == h.remaining[seat] - snap.stack[seat]
           passive(kind) == [kind |-> kind, seat |-> seat, to |-> NoAmount]
           wager(t) == [kind |-> WagerKind(h, snap, seat, t), seat |-> seat, to |-> t]
           targets == WagerTarget(h, snap, seat, advanced)
<1>1. /\ HandOK(g, stacks) /\ Effect(h, e, g) /\ ~h.closed /\ ~h.terminal
      /\ seat = Actor(h) /\ seat \in Seats /\ seat \in Eligible(h)
      /\ e.kind \in Kinds /\ e.to \in Nat \cup {NoAmount}
      /\ \A s \in Seats : h.streetPaid[s] \in Nat /\ h.remaining[s] \in Nat
  BY ActFacts
<1>2. /\ seat # NoSeat /\ h.streetPaid[seat] \in Nat /\ h.remaining[seat] \in Nat
      /\ MaxTarget(h, seat) = h.streetPaid[seat] + h.remaining[seat]
      /\ seat \notin h.folded
  BY <1>1, SeatsFinite DEF MaxTarget, Eligible, Live
<1>3. e = [kind |-> e.kind, seat |-> seat, to |-> e.to] /\ Accepts(h, e) /\ g = Applied(h, e)
  BY DEF Acts, HandEvents
<1>4. ASSUME NEW f, InferAction(h, snap, advanced) = {f}, Acts(h, f, g)
      PROVE  Outcomes(h, snap, advanced) = {g}
  BY <1>4 DEF Acts, Outcomes
<1>5. ShowsFold(snap, seat) <=> e.kind = "FOLD"
  <2>1. Label(e.kind) = "FOLD" <=> e.kind = "FOLD"
    BY <1>1, LabelFacts
  <2>2. seat \in g.folded => e.kind = "FOLD"
    BY <1>1, <1>2 DEF Effect
  <2>3. QED
    BY <2>1, <2>2 DEF ShowsFold
<1>6. CASE e.kind = "FOLD"
  <2>1. e.to = NoAmount
    BY <1>3, <1>6 DEF Accepts, Wagers
  <2>2. e = passive("FOLD")
    BY <1>3, <1>6, <2>1
  <2>3. InferAction(h, snap, advanced) = {e}
    BY <1>1, <1>2, <1>5, <1>6, <2>2 DEF InferAction
  <2>4. QED
    BY <1>4, <2>3
<1>7. ASSUME e.kind # "FOLD"
      PROVE  InferAction(h, snap, advanced) =
               {wager(t) : t \in {x \in targets : x > h.streetPaid[seat]}}
                 \cup {passive("CHECK") : t \in {x \in targets : /\ x = h.streetPaid[seat]
                                                                 /\ ShowsCheck(h, snap, seat)}}
  BY <1>1, <1>2, <1>5, <1>7 DEF InferAction
<1>8. CASE e.kind = "CHECK"
  <2>1. /\ g.remaining[seat] = h.remaining[seat] /\ g.streetPaid[seat] = h.streetPaid[seat]
    BY <1>1, <1>8 DEF Effect, Wagers
  <2>2. paid = 0
    BY <1>2, <2>1
  <2>3. targets = {h.streetPaid[seat]}
    BY <1>2, <2>1, <2>2 DEF WagerTarget
  <2>4. e.to = NoAmount /\ Facing(h, seat) = 0
    BY <1>1, <1>3, <1>8 DEF Accepts, Wagers
  <2>5. ShowsCheck(h, snap, seat)
    <3>1. Label(e.kind) = "CHECK"
      BY <1>1, <1>8, LabelFacts
    <3>2. Facing(h, seat) <= 0
      BY <2>4
    <3>3. QED
      BY <3>1, <3>2 DEF ShowsCheck
  <2>6. e = passive("CHECK")
    BY <1>3, <1>8, <2>4
  <2>7. ~(h.streetPaid[seat] > h.streetPaid[seat])
    BY <1>2
  <2> HIDE DEF targets, wager
  <2>8. InferAction(h, snap, advanced) = {e}
    BY <1>7, <1>8, <2>3, <2>5, <2>6, <2>7
  <2>9. QED
    BY <1>4, <2>8
<1>9. CASE e.kind \in Wagers
  <2>1. /\ e.to \in Nat /\ e.to > h.streetPaid[seat] /\ g.streetPaid[seat] = e.to
        /\ g.remaining[seat] = MaxTarget(h, seat) - e.to
        /\ g.totalPaid[seat] = h.totalPaid[seat] + (e.to - h.streetPaid[seat])
    BY <1>1, <1>9 DEF Effect
  <2>2. paid = e.to - h.streetPaid[seat] /\ paid >= 0 /\ h.streetPaid[seat] + paid = e.to
    BY <1>2, <2>1
  <2>3. targets = {e.to}
    BY <2>1, <2>2 DEF WagerTarget
  <2>4. e.kind # "FOLD" /\ ~(e.to = h.streetPaid[seat])
    BY <1>2, <1>9, <2>1 DEF Wagers
  <2>5. PICK f : f = wager(e.to)
    OBVIOUS
  <2>6. InferAction(h, snap, advanced) = {f}
    <3> HIDE DEF targets, wager
    <3>1. QED
      BY <1>7, <2>1, <2>3, <2>4, <2>5
  <2>7. PICK k : k = Applied(h, f)
    OBVIOUS
  <2>8. f.kind \in Wagers /\ Acts(h, f, k)
    <3>1. e.kind = "ALL_IN_TO" <=> snap.visible[seat] = "ALL_IN"
      <4>1. Label(e.kind) = "ALL_IN" <=> e.kind = "ALL_IN_TO"
        BY <1>1, LabelFacts
      <4>2. QED
        BY <4>1
    <3>2. QED
      BY <1>9, <2>5, <2>7, <3>1, WagerIsAccepted
  <2>9. Effect(h, f, k) /\ f.seat = seat /\ f.to = e.to
    BY <2>5, <2>8, ActFacts
  <2>10. k.totalPaid[seat] = h.totalPaid[seat] + (e.to - h.streetPaid[seat])
    BY <2>8, <2>9 DEF Effect
  <2>11. g = k
    BY <2>1, <2>8, <2>10, SameAct
  <2>12. QED
    BY <1>4, <2>6, <2>8, <2>11
<1>10. QED
  BY <1>1, <1>6, <1>8, <1>9 DEF Kinds

\* A recorded hand is a hand.
LEMMA RecordedHand ==
  ASSUME NEW stacks, HandOK(hand, stacks), recorded = hand, NEW snap,
         ~Matches(hand, snap) \/ NewExplicitAction(hand, snap)
  PROVE  Probe(snap) = Advance(hand, snap)
<1>1. recorded # NoHistory
  <2>1. hand.street # 0
    BY DEF HandOK, HandType
  <2>2. QED
    BY <2>1 DEF NoHistory
<1>2. ~(Matches(recorded, snap) /\ ~NewExplicitAction(recorded, snap))
  OBVIOUS
<1>3. QED
  BY <1>1, <1>2 DEF Probe

\* The frame after a deal.
LEMMA DealIsProved ==
  ASSUME NEW stacks, HandOK(hand, stacks), Sound(hand), recorded = hand, NEW m, Deals(hand, m),
         NEW visible
  PROVE  Probe(Snapshot(m, Actor(m), visible)) = {m}
<1> DEFINE snap == Snapshot(m, Actor(m), visible)
<1>1. HandOK(m, stacks) /\ hand.closed /\ hand.street \in 1..4 /\ m.street = hand.street + 1
  BY StreetFacts
<1>2. Sound(m)
  <2>1. Step(hand, m)
    BY DEF Step
  <2>2. QED
    BY <2>1, StepKeeps
<1>3. Matches(m, snap) /\ snap.street = m.street
  BY <1>1, <1>2, ShownMatches, SnapshotFacts
<1> HIDE DEF snap
<1>4. ~Matches(hand, snap)
  BY <1>1, <1>3 DEF Matches
<1>5. Explained(hand, snap) = {m}
  <2>1. snap.street = hand.street + 1
    BY <1>1, <1>3
  <2>2. AcceptsDeal(hand) /\ m = AppliedDeal(hand, Button)
    BY DEF Deals
  <2>3. QED
    BY <1>1, <2>1, <2>2 DEF Explained
<1>6. Advance(hand, snap) = {m}
  BY <1>3, <1>5 DEF Advance
<1>7. Probe(snap) = {m}
  BY <1>4, <1>6, RecordedHand
<1>8. QED
  BY <1>7 DEF snap

\* The action the recorder inferred, and the deal if the street moved.
LEMMA ExplainedFacts ==
  ASSUME NEW r, ~r.closed, NEW snap
  PROVE  \E advanced \in BOOLEAN :
           /\ advanced <=> snap.street = r.street + 1
           /\ Explained(r, snap) =
                IF advanced
                THEN {AppliedDeal(q, Button) :
                        q \in {p \in Outcomes(r, snap, advanced) : AcceptsDeal(p)}}
                ELSE {q \in Outcomes(r, snap, advanced) : snap.street = r.street}
<1>1. PICK b : b = (snap.street = r.street + 1)
  OBVIOUS
<1>2. Explained(r, snap) =
        IF b THEN {AppliedDeal(q, Button) : q \in {p \in Outcomes(r, snap, b) : AcceptsDeal(p)}}
        ELSE {q \in Outcomes(r, snap, b) : snap.street = r.street}
  BY <1>1 DEF Explained, Outcomes
<1>3. b \in BOOLEAN /\ (b <=> snap.street = r.street + 1)
  BY <1>1
<1>4. QED
  BY <1>2, <1>3

\* The frame after an action.
LEMMA ActIsProved ==
  ASSUME NEW stacks, HandOK(hand, stacks), Sound(hand), recorded = hand,
         NEW e, NEW g, Acts(hand, e, g), NEW visible, visible[e.seat] = Label(e.kind),
         e.kind # "CHECK" \/ lastVisible[e.seat] # "CHECK"
  PROVE  Probe(Snapshot(g, Actor(g), visible)) = {g}
<1> DEFINE snap == Snapshot(g, Actor(g), visible)
           seat == e.seat
<1>1. /\ HandOK(g, stacks) /\ Effect(hand, e, g) /\ ~hand.closed /\ g.street = hand.street
      /\ hand.street \in Nat /\ seat = Actor(hand) /\ seat \in Seats /\ seat \in Eligible(hand)
      /\ e.kind \in Kinds /\ \A s \in Seats : hand.streetPaid[s] \in Nat
  BY ActFacts
<1>2. Sound(g)
  <2>1. Step(hand, g)
    BY DEF Step
  <2>2. QED
    BY <2>1, StepKeeps
<1>3. Matches(g, snap)
  BY <1>1, <1>2, ShownMatches
<1>4. /\ snap.street = g.street /\ snap.stack = g.remaining /\ snap.bet = g.streetPaid
      /\ snap.visible = visible
      /\ \A s \in Seats : /\ snap.status[s] = "FOLDED" <=> s \in g.folded
                          /\ snap.status[s] = "ALL_IN" => s \in g.allIn
  BY SnapshotFacts
<1> HIDE DEF snap
<1>5. snap.status[seat] = "ALL_IN" => g.remaining[seat] = 0
  BY <1>1, <1>4 DEF HandOK, ChipsOK
<1>6. PICK advanced \in BOOLEAN :
        /\ advanced <=> snap.street = hand.street + 1
        /\ Explained(hand, snap) =
             IF advanced
             THEN {AppliedDeal(q, Button) :
                     q \in {p \in Outcomes(hand, snap, advanced) : AcceptsDeal(p)}}
             ELSE {q \in Outcomes(hand, snap, advanced) : snap.street = hand.street}
  BY <1>1, ExplainedFacts
<1>7. ~advanced /\ snap.street = hand.street
  BY <1>1, <1>4, <1>6
<1>8. Explained(hand, snap) = {g}
  <2>1. /\ snap.visible[e.seat] = Label(e.kind) /\ snap.stack[e.seat] = g.remaining[e.seat]
        /\ advanced \/ snap.bet[e.seat] = g.streetPaid[e.seat]
        /\ snap.status[e.seat] = "FOLDED" <=> e.seat \in g.folded
        /\ snap.status[e.seat] = "ALL_IN" => g.remaining[e.seat] = 0
    BY <1>1, <1>4, <1>5
  <2>2. Outcomes(hand, snap, advanced) = {g}
    BY <2>1, ActionIsProved
  <2>3. QED
    BY <1>6, <1>7, <2>2
<1>9. Advance(hand, snap) = {g}
  BY <1>3, <1>8 DEF Advance
<1>10. ~Matches(hand, snap) \/ NewExplicitAction(hand, snap)
  <2>1. CASE e.kind = "FOLD"
    <3>1. seat \in g.folded /\ seat \notin hand.folded
      BY <1>1, <2>1 DEF Effect, Eligible, Live
    <3>2. QED
      BY <1>1, <1>4, <3>1 DEF Matches
  <2>2. CASE e.kind = "CHECK"
    <3>1. Label(e.kind) = "CHECK"
      BY <1>1, <2>2, LabelFacts
    <3>2. snap.visible[seat] = "CHECK" /\ lastVisible[seat] # "CHECK" /\ seat # NoSeat
      BY <1>1, <1>4, <2>2, <3>1, SeatsFinite
    <3>3. QED
      BY <1>1, <3>2 DEF NewExplicitAction
  <2>3. CASE e.kind \in Wagers
    <3>1. e.to \in Nat /\ e.to > hand.streetPaid[seat] /\ g.streetPaid[seat] = e.to
      BY <1>1, <2>3 DEF Effect
    <3>2. g.streetPaid # hand.streetPaid
      BY <1>1, <3>1
    <3>3. QED
      BY <1>4, <3>2 DEF Matches
  <2>4. QED
    BY <1>1, <2>1, <2>2, <2>3 DEF Kinds
<1>11. Probe(snap) = {g}
  BY <1>9, <1>10, RecordedHand
<1>12. QED
  BY <1>11 DEF snap

\* The frame after an action and the deal it allows.
LEMMA ActAndDealAreProved ==
  ASSUME NEW stacks, HandOK(hand, stacks), Sound(hand), recorded = hand,
         NEW e, NEW g, Acts(hand, e, g), NEW visible, visible[e.seat] = Label(e.kind),
         NEW m, Deals(g, m)
  PROVE  Probe(Snapshot(m, Actor(m), visible)) = {m}
<1> DEFINE snap == Snapshot(m, Actor(m), visible)
           seat == e.seat
<1>1. /\ HandOK(g, stacks) /\ ~hand.closed /\ g.street = hand.street
      /\ hand.street \in Nat /\ seat \in Seats
  BY ActFacts
<1>2. /\ HandOK(m, stacks) /\ m.street = g.street + 1 /\ m.remaining = g.remaining
      /\ m.folded = g.folded /\ m.allIn = g.allIn
  BY <1>1, StreetFacts
<1>3. Sound(m)
  <2>1. Step(hand, g) /\ Step(g, m)
    BY DEF Step
  <2>2. Sound(g)
    BY <2>1, StepKeeps
  <2>3. QED
    BY <1>1, <2>1, <2>2, StepKeeps
<1>4. Matches(m, snap)
  BY <1>2, <1>3, ShownMatches
<1>5. /\ snap.street = m.street /\ snap.stack = m.remaining /\ snap.visible = visible
      /\ \A s \in Seats : /\ snap.status[s] = "FOLDED" <=> s \in m.folded
                          /\ snap.status[s] = "ALL_IN" => s \in m.allIn
  BY SnapshotFacts
<1> HIDE DEF snap
<1>6. snap.status[seat] = "ALL_IN" => g.remaining[seat] = 0
  BY <1>1, <1>2, <1>5 DEF HandOK, ChipsOK
<1>7. PICK advanced \in BOOLEAN :
        /\ advanced <=> snap.street = hand.street + 1
        /\ Explained(hand, snap) =
             IF advanced
             THEN {AppliedDeal(q, Button) :
                     q \in {p \in Outcomes(hand, snap, advanced) : AcceptsDeal(p)}}
             ELSE {q \in Outcomes(hand, snap, advanced) : snap.street = hand.street}
  BY <1>1, ExplainedFacts
<1>8. advanced /\ ~(snap.street = hand.street)
  BY <1>1, <1>2, <1>5, <1>7
<1>9. Explained(hand, snap) = {m}
  <2>1. /\ snap.visible[e.seat] = Label(e.kind) /\ snap.stack[e.seat] = g.remaining[e.seat]
        /\ advanced \/ snap.bet[e.seat] = g.streetPaid[e.seat]
        /\ snap.status[e.seat] = "FOLDED" <=> e.seat \in g.folded
        /\ snap.status[e.seat] = "ALL_IN" => g.remaining[e.seat] = 0
    BY <1>1, <1>2, <1>5, <1>6, <1>8
  <2>2. Outcomes(hand, snap, advanced) = {g}
    BY <2>1, ActionIsProved
  <2>3. AcceptsDeal(g) /\ m = AppliedDeal(g, Button)
    BY DEF Deals
  <2>4. Explained(hand, snap) = {AppliedDeal(g, Button)}
    BY <1>7, <1>8, <2>2, <2>3
  <2>5. QED
    BY <2>3, <2>4
<1>10. Advance(hand, snap) = {m}
  BY <1>4, <1>9 DEF Advance
<1>11. ~Matches(hand, snap)
  BY <1>8 DEF Matches
<1>12. Probe(snap) = {m}
  BY <1>10, <1>11, RecordedHand
<1>13. QED
  BY <1>12 DEF snap

Proved(next, visible) == Probe(Snapshot(next, Actor(next), visible)) = {next}
ProvedDeal(closed, visible) ==
  AcceptsDeal(closed) => Proved(AppliedDeal(closed, Button), visible)

\* The three frames that may come next.
LEMMA NextFrameFacts ==
  ASSUME NEW stacks, HandOK(hand, stacks), Sound(hand), recorded = hand,
         labels \in [Seats -> LabelSet]
  PROVE  /\ ProvedDeal(hand, labels)
         /\ \A e \in HandEvents : Accepts(hand, e) =>
              LET visible == [labels EXCEPT ![e.seat] = Label(e.kind)]
              IN  /\ e.kind # "CHECK" \/ lastVisible[e.seat] # "CHECK" =>
                       Proved(Applied(hand, e), visible)
                  /\ ProvedDeal(Applied(hand, e), visible)
<1>1. ProvedDeal(hand, labels)
  <2> SUFFICES ASSUME AcceptsDeal(hand) PROVE Proved(AppliedDeal(hand, Button), labels)
    BY DEF ProvedDeal
  <2>1. PICK m : m = AppliedDeal(hand, Button)
    OBVIOUS
  <2>2. Deals(hand, m)
    BY <2>1 DEF Deals
  <2>3. Proved(m, labels)
    BY <2>2, DealIsProved DEF Proved
  <2>4. QED
    BY <2>1, <2>3
<1>2. ASSUME NEW e \in HandEvents, Accepts(hand, e)
      PROVE  LET visible == [labels EXCEPT ![e.seat] = Label(e.kind)]
             IN  /\ e.kind # "CHECK" \/ lastVisible[e.seat] # "CHECK" =>
                      Proved(Applied(hand, e), visible)
                 /\ ProvedDeal(Applied(hand, e), visible)
  <2>1. PICK visible : visible = [labels EXCEPT ![e.seat] = Label(e.kind)]
    OBVIOUS
  <2>2. PICK g : g = Applied(hand, e)
    OBVIOUS
  <2>3. PICK m : m = AppliedDeal(g, Button)
    OBVIOUS
  <2>4. Acts(hand, e, g) /\ e.seat \in Seats
    BY <1>2, <2>2 DEF Acts, HandEvents
  <2>5. visible[e.seat] = Label(e.kind)
    BY <2>1, <2>4
  <2>6. e.kind # "CHECK" \/ lastVisible[e.seat] # "CHECK" => Proved(g, visible)
    BY <2>4, <2>5, ActIsProved DEF Proved
  <2>7. ASSUME AcceptsDeal(g) PROVE Proved(m, visible)
    <3>1. Deals(g, m)
      BY <2>3, <2>7 DEF Deals
    <3>2. QED
      BY <2>4, <2>5, <3>1, ActAndDealAreProved DEF Proved
  <2>8. ProvedDeal(g, visible)
    BY <2>3, <2>7 DEF ProvedDeal
  <2>9. QED
    BY <2>1, <2>2, <2>6, <2>8
<1>3. QED
  BY <1>1, <1>2

(* A recorder that is up to date is never lost by one event: it takes the  *)
(* next full frame for the state it shows, and for no other.               *)
THEOREM RecorderProvesNextFrame == Spec => []NextFrameIsProved
<1>1. ASSUME RecorderInv PROVE NextFrameIsProved
  <2>0. recorded # hand => NextFrameIsProved
    BY DEF NextFrameIsProved
  <2> SUFFICES ASSUME recorded = hand PROVE NextFrameIsProved
    BY <2>0
  <2> DEFINE events == {[kind |-> kind, seat |-> Actor(hand), to |-> to] :
                          kind \in Kinds, to \in Amounts \cup {NoAmount}}
             frame(e) == [labels EXCEPT ![e.seat] = Label(e.kind)]
  <2>1. HandOK(hand, start) /\ Sound(hand) /\ labels \in [Seats -> LabelSet]
    BY <1>1 DEF RecorderInv, PastOK, LabelsOK
  <2>2. ASSUME NEW e \in events, Accepts(hand, e) PROVE e \in HandEvents
    <3>1. ~hand.closed /\ e.seat = Actor(hand)
      BY <2>2 DEF Accepts
    <3>2. Actor(hand) \in Seats
      BY <2>1, <3>1, ActorFacts
    <3>3. Amounts \subseteq Nat
      BY StacksFacts DEF Amounts
    <3>4. QED
      BY <3>2, <3>3 DEF HandEvents
  <2>3. /\ ProvedDeal(hand, labels)
        /\ \A e \in events : Accepts(hand, e) =>
             /\ e.kind # "CHECK" \/ lastVisible[e.seat] # "CHECK" =>
                  Proved(Applied(hand, e), frame(e))
             /\ ProvedDeal(Applied(hand, e), frame(e))
    BY <2>1, <2>2, NextFrameFacts
  <2>4. QED
    BY <2>3 DEF NextFrameIsProved, Proved, ProvedDeal, Kinds
<1>2. QED
  BY <1>1, RecorderInvariant, PTL
=============================================================================
