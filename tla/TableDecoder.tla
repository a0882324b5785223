---------------------------- MODULE TableDecoder ----------------------------
(***************************************************************************)
(* Which hand a frame belongs to (continuous_public_history_decoder.py,    *)
(* class ContinuousPublicHistoryDecoder).  No frame names its hand: the    *)
(* decoder compares what a frame shows with the last observation it made,  *)
(* and gives a new identifier only to a proven new hand.                   *)
(*                                                                         *)
(* The table plays on by itself, and which of its moments are decoded is   *)
(* left to chance.  The analysis of a frame may fail, miss Hero's cards or *)
(* take an untouched hand for a touched one; what it does read is right.   *)
(* Hero's cards are the hand they were dealt in.  The dealer moves after   *)
(* every hand.                                                             *)
(***************************************************************************)
EXTENDS Naturals

CONSTANTS
  DealerSeats,   \* seats that may have the dealer button
  Live,          \* players dealt in
  LastStreet,    \* bound: streets after the deal
  LastHand       \* bound: hands played

DecoderAssumption ==
  DealerSeats # {} /\ Live \in Nat /\ Live > 1 /\ LastStreet \in Nat /\ LastHand \in Nat \ {0}

VARIABLES
  play,          \* the hand being played
  previous,      \* _previous_evidence
  ordinal,       \* _hand_ordinal, which also stands for _active_hand_id
  result,        \* what the latest decode returned
  \* History: the hands with a decoded frame, and the identifiers that the
  \* coordinator cut off when a gap was returned.
  decoded, gapped

vars == <<play, previous, ordinal, result, decoded, gapped>>

NoCards == 0
Nothing == [hand |-> 0]
Untouched(hand, dealer) ==
  [hand |-> hand, dealer |-> dealer, street |-> 0, live |-> Live, untouched |-> TRUE]

-----------------------------------------------------------------------------
(* The table.                                                              *)

Act ==
  /\ play.live > 1
  /\ \E live \in {play.live, play.live - 1} :
       play' = [play EXCEPT !.untouched = FALSE, !.live = live]
  /\ UNCHANGED <<previous, ordinal, result, decoded, gapped>>

DealStreet ==
  /\ play.live > 1 /\ play.street < LastStreet /\ ~play.untouched
  /\ play' = [play EXCEPT !.street = @ + 1]
  /\ UNCHANGED <<previous, ordinal, result, decoded, gapped>>

DealHand ==
  /\ play.live = 1 \/ play.street = LastStreet
  /\ play.hand < LastHand
  /\ \E dealer \in DealerSeats \ {play.dealer} : play' = Untouched(play.hand + 1, dealer)
  /\ UNCHANGED <<previous, ordinal, result, decoded, gapped>>

-----------------------------------------------------------------------------
(* _hand_evidence() and _boundary().                                       *)

Evidence(cardsRead, anchorRead) ==
  [hand |-> play.hand, dealer |-> play.dealer, street |-> play.street, live |-> play.live,
   cards |-> IF cardsRead THEN play.hand ELSE NoCards, anchor |-> anchorRead /\ play.untouched]

DealerMoved(e) == e.dealer # previous.dealer
Terminal(e) == e.live <= 1
Regressed(e) == e.street = 0 /\ (previous.street > 0 \/ Terminal(previous))
BoardRolledBack(e) == previous.street > 0 /\ e.street = 0

StartsNewHand(e) ==
  IF previous = Nothing THEN e.anchor ELSE DealerMoved(e) /\ Regressed(e) /\ e.anchor

ResemblesBoundaryInPlay(e) ==
  BoardRolledBack(e) \/ Regressed(e) \/ (e.anchor /\ ~previous.anchor)

ResemblesBoundary(e) ==
  DealerMoved(e) \/ BoardRolledBack(e) \/ Regressed(e) \/ (e.anchor /\ ~previous.anchor)

HeroCardsChanged(e) ==
  previous.cards # NoCards /\ e.cards # NoCards /\ previous.cards # e.cards

\* Neither a proven new hand nor plainly more of the same one.
Ambiguous(e) ==
  /\ ~StartsNewHand(e)
  /\ previous = Nothing \/ ResemblesBoundary(e) \/ HeroCardsChanged(e)

-----------------------------------------------------------------------------
(* decode().                                                               *)

\* A frame of a burst tells nothing and costs no analysis.
Transient ==
  /\ result' = [kind |-> "transient"]
  /\ UNCHANGED <<play, previous, ordinal, decoded, gapped>>

\* The worker passes a gap to the coordinator, which cuts the hand off.
Gap ==
  /\ result' = [kind |-> "gap"]
  /\ decoded' = decoded \cup {play.hand}
  /\ gapped' = gapped \cup {ordinal}
  /\ UNCHANGED <<play, previous, ordinal>>

Observe(e) ==
  LET id == IF StartsNewHand(e) THEN ordinal + 1 ELSE ordinal
  IN  /\ ~Ambiguous(e)
      /\ ordinal' = id
      /\ result' = [kind |-> "observation", id |-> id, hand |-> e.hand, new |-> StartsNewHand(e),
                    after |-> previous.hand,
                    compared |-> previous # Nothing /\ NoCards \notin {previous.cards, e.cards}]
      /\ previous' = e
      /\ decoded' = decoded \cup {e.hand}
      /\ UNCHANGED <<play, gapped>>

\* An analysis that fails or times out, or a snapshot that does not validate,
\* is a gap whatever it shows, and leaves the evidence as it was.
Decode ==
  \E cardsRead, anchorRead, valid \in BOOLEAN :
    LET e == Evidence(cardsRead, anchorRead)
    IN  IF valid /\ ~Ambiguous(e) THEN Observe(e) ELSE Gap

-----------------------------------------------------------------------------
Init ==
  /\ \E dealer \in DealerSeats : play = Untouched(1, dealer)
  /\ previous = Nothing /\ ordinal = 0
  /\ result = [kind |-> "none"]
  /\ decoded = {} /\ gapped = {}

Next == Act \/ DealStreet \/ DealHand \/ Transient \/ Decode

Spec == Init /\ [][Next]_vars

-----------------------------------------------------------------------------
(* Consecutive observations share an identifier if they are of one hand,   *)
(* and only then, as long as no gap was declared in it.  A mix takes a     *)
(* whole hand without a decoded frame, and Hero's cards missing before or  *)
(* after it.                                                               *)
IdentityIsOfOneHand ==
  result.kind = "observation" /\ result.id \notin gapped =>
    \/ result.new <=> result.after # result.hand
    \/ /\ \E hand \in result.after + 1 .. result.hand - 1 : hand \notin decoded
       /\ ~result.compared
=============================================================================
