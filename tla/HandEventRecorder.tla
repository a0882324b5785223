------------------------- MODULE HandEventRecorder -------------------------
(***************************************************************************)
(* The recorder (gto_event_collector.py, class PublicHandEventRecorder):   *)
(* it rebuilds the transcript of a hand from table observations, inferring *)
(* at most one action and one deal from each.                              *)
(*                                                                         *)
(* A true hand is played by the rules of HandReplay.  Observations show it *)
(* at any moments, so that whole actions may fall between two of them.     *)
(* Amounts are read exactly: the reading tolerance is not modelled.        *)
(***************************************************************************)
EXTENDS HandReplay

VARIABLES
  ante,           \* configured, as the table takes it
  labels,         \* the label of each seat's last action, "" if there is none
  stale,          \* the seats whose label is of an earlier street
  past,           \* history: the states the true hand has been in
  recorded,       \* the replayed state of `history', or NoHistory
  lastVisible,    \* the labels of last_snapshot
  current         \* history: the last accepted observation showed who is to act
                  \* and the true hand has not moved since

NoHistory == [street |-> 0]

table == <<start, hand, ante, labels, stale, past>>
recorder == <<recorded, lastVisible>>
vars == <<table, recorder, current>>

-----------------------------------------------------------------------------
(* What a frame shows of the true hand.                                    *)

Status(h, seat) ==
  IF seat \in h.folded THEN "FOLDED"
  ELSE IF seat \in h.allIn THEN "ALL_IN" ELSE "ACTIVE"

Snapshot(h, actionOn, visible) ==
  [street |-> h.street, stack |-> h.remaining, bet |-> h.streetPaid,
   status |-> [s \in Seats |-> Status(h, s)], pot |-> Total(h.totalPaid),
   actionOn |-> actionOn, visible |-> visible]

\* The marker of the seat to act and the labels may be missing: all of them, or
\* in a frame without the marker those of an earlier street, which the recorder
\* could take for an action.
Visible(hidden) == [s \in Seats |-> IF s \in hidden THEN "" ELSE labels[s]]
Snapshots ==
  {Snapshot(hand, Actor(hand), Visible(hidden)) : hidden \in {{}, Seats}}
    \cup {Snapshot(hand, NoSeat, Visible(stale \cup hidden)) : hidden \in {{}, Seats}}

Label(kind) ==
  CASE kind = "BET_TO" -> "BET" [] kind = "RAISE_TO" -> "RAISE"
    [] kind = "ALL_IN_TO" -> "ALL_IN" [] OTHER -> kind

-----------------------------------------------------------------------------
(* _matches(): nothing a frame shows contradicts the replayed state.       *)

MatchesAnyActor(r, snap) ==
  /\ r.street = snap.street
  /\ r.remaining = snap.stack /\ r.streetPaid = snap.bet
  /\ \A s \in Seats : (s \in r.folded) <=> (snap.status[s] = "FOLDED")
  /\ \A s \in Seats : (s \in r.allIn) <=> (snap.status[s] = "ALL_IN")
  /\ Total(r.totalPaid) = snap.pot

Matches(r, snap) ==
  /\ r.street = snap.street
  /\ snap.actionOn # NoSeat => Actor(r) = snap.actionOn
  /\ r.remaining = snap.stack /\ r.streetPaid = snap.bet
  /\ \A s \in Seats : (s \in r.folded) <=> (snap.status[s] = "FOLDED")
  /\ \A s \in Seats : (s \in r.allIn) <=> (snap.status[s] = "ALL_IN")
  /\ Total(r.totalPaid) = snap.pot

NewExplicitAction(r, snap) ==
  LET seat == Actor(r)
  IN  seat # NoSeat /\ snap.visible[seat] \notin {"", lastVisible[seat]}

-----------------------------------------------------------------------------
(* _infer_action(): the action of the seat to act that the frame proves;   *)
(* the empty set where the code raises.                                    *)

WagerKind(r, snap, seat, target) ==
  LET allIn == snap.status[seat] = "ALL_IN" \/ snap.stack[seat] = 0
               \/ snap.visible[seat] = "ALL_IN"
  IN  IF allIn THEN "ALL_IN_TO"
      ELSE IF target <= r.highest THEN "CALL"
      ELSE IF r.highest = 0 THEN "BET_TO" ELSE "RAISE_TO"

ShowsFold(snap, seat) == snap.status[seat] = "FOLDED" \/ snap.visible[seat] = "FOLD"

WagerTargetFromBet(r, snap, seat, streetAdvanced) ==
  {target \in {snap.bet[seat]} : target - r.streetPaid[seat] = r.remaining[seat] - snap.stack[seat]}

\* What the seat has put in, if its stack and its bet agree; the bet says
\* nothing once it was gathered in by a deal.
WagerTarget(r, snap, seat, streetAdvanced) ==
  LET paid == r.remaining[seat] - snap.stack[seat]
  IN  {target \in {r.streetPaid[seat] + paid} :
         paid >= 0 /\ (streetAdvanced \/ snap.bet[seat] = target)}

ShowsCheck(r, snap, seat) ==
  /\ Facing(r, seat) <= 0
  /\ \/ snap.visible[seat] \in {"CHECK", "CALL"}
     \/ snap.actionOn \notin {NoSeat, seat}

InferAction(r, snap, streetAdvanced) ==
  LET seat == Actor(r)
      passive(kind) == [kind |-> kind, seat |-> seat, to |-> NoAmount]
      wager(target) == [kind |-> WagerKind(r, snap, seat, target), seat |-> seat, to |-> target]
      targets == WagerTarget(r, snap, seat, streetAdvanced)
  IN  IF seat = NoSeat THEN {}
      ELSE IF ShowsFold(snap, seat) THEN {passive("FOLD")}
      ELSE {wager(target) : target \in {t \in targets : t > r.streetPaid[seat]}}
             \cup {passive("CHECK") : target \in {t \in targets : /\ t = r.streetPaid[seat]
                                                                 /\ ShowsCheck(r, snap, seat)}}

\* _advance(): at most one legal action, then the deal if the street moved.
Explained(r, snap) ==
  LET streetAdvanced == snap.street = r.street + 1
      acted == IF r.closed
               THEN {q \in {r} : streetAdvanced}
               ELSE {Applied(r, e) :
                       e \in {f \in InferAction(r, snap, streetAdvanced) : Accepts(r, f)}}
  IN  IF streetAdvanced
      THEN {AppliedDeal(q, Button) : q \in {p \in acted : AcceptsDeal(p)}}
      ELSE {q \in acted : snap.street = r.street}

AdvanceUnchecked(r, snap) == Explained(r, snap)

\* ... and the result must reproduce the frame.
Advance(r, snap) == {q \in Explained(r, snap) : Matches(q, snap)}

\* _initial_history(): the untouched forced bets, or nothing.
InitialHistory(snap) ==
  LET seats == [s \in Seats |-> snap.stack[s] + snap.bet[s] + ante]
      forced == Dealt(Button, seats, ante)
  IN  {q \in {forced} : /\ snap.street = 1
                        /\ \A s \in Seats : snap.visible[s] = ""
                        /\ Matches(q, snap)}

\* probe(): the replayed state of the proposed transcript, none if rejected.
Probe(snap) ==
  IF recorded = NoHistory THEN InitialHistory(snap)
  ELSE IF Matches(recorded, snap) /\ ~NewExplicitAction(recorded, snap) THEN {recorded}
  ELSE Advance(recorded, snap)

-----------------------------------------------------------------------------
Init ==
  /\ start \in [Seats -> Stacks]
  /\ ante \in Antes
  /\ hand = Dealt(Button, start, ante)
  /\ labels = [s \in Seats |-> ""]
  /\ stale = {}
  /\ past = {hand}
  /\ recorded = NoHistory
  /\ lastVisible = [s \in Seats |-> ""]
  /\ current = FALSE

Play(kind, to) ==
  /\ Act(kind, to)
  /\ labels' = [labels EXCEPT ![Actor(hand)] = Label(kind)]
  /\ stale' = stale \ {Actor(hand)}
  /\ past' = past \cup {hand'}
  /\ current' = FALSE
  /\ UNCHANGED <<ante, recorder>>

DealStreet ==
  /\ Deal
  /\ stale' = Seats
  /\ past' = past \cup {hand'}
  /\ current' = FALSE
  /\ UNCHANGED <<ante, labels, recorder>>

\* A rejected probe changes nothing.
Observe(snap) ==
  /\ \E history \in Probe(snap) :
       /\ recorded' = history
       /\ lastVisible' = snap.visible
       /\ current' = (snap.actionOn # NoSeat)
  /\ UNCHANGED table

Next ==
  \/ \E kind \in {"FOLD", "CHECK"} : Play(kind, NoAmount)
  \/ \E kind \in Wagers, to \in Amounts : Play(kind, to)
  \/ DealStreet
  \/ \E snap \in Snapshots : Observe(snap)

Spec == Init /\ [][Next]_vars

-----------------------------------------------------------------------------
(* The recorder never invents a course of the hand: whatever it recorded   *)
(* is a state the true hand was in, with everything a frame cannot show -  *)
(* who has acted, who may still raise and by how much.                     *)
RecordedIsTrue == recorded # NoHistory => recorded \in past

(* An accepted observation that shows who is to act leaves the recorder at *)
(* the true state, never one or more actions behind.                       *)
RecordedIsCurrent == current => recorded = hand

(* A recorder that is up to date understands the next full frame: after    *)
(* one deal, one action, or an action and the deal it allows.  Only a      *)
(* check under the same label as before may pass unseen, until the deal.   *)
NextFrameIsProved ==
  LET events == {[kind |-> kind, seat |-> Actor(hand), to |-> to] :
                   kind \in {"FOLD", "CHECK"} \cup Wagers,
                   to \in Amounts \cup {NoAmount}}
      proved(next, visible) == Probe(Snapshot(next, Actor(next), visible)) = {next}
      provedDeal(closed, visible) ==
        AcceptsDeal(closed) => proved(AppliedDeal(closed, Button), visible)
  IN  recorded = hand =>
        /\ provedDeal(hand, labels)
        /\ \A e \in {f \in events : Accepts(hand, f)} :
             LET next == Applied(hand, e)
                 visible == [labels EXCEPT ![e.seat] = Label(e.kind)]
             IN  /\ e.kind # "CHECK" \/ lastVisible[e.seat] # "CHECK" => proved(next, visible)
                 /\ provedDeal(next, visible)
=============================================================================
