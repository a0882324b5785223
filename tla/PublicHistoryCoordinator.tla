---------------------- MODULE PublicHistoryCoordinator ----------------------
(***************************************************************************)
(* Orders decoded observations of the table by capture frame and exposes   *)
(* only a proven contiguous transcript of one hand                         *)
(* (public_history_pipeline.py, class PublicHistoryCoordinator).           *)
(*                                                                         *)
(* Every method runs under one reentrant lock, so the whole object is one  *)
(* record and every method is a function of it, which the worker's module  *)
(* reuses.  The recorder behind it (gto_event_collector.py) is abstracted  *)
(* to what the coordinator can tell apart: an observation shows a hand and *)
(* a position in that hand's public action, position 0 being the untouched *)
(* forced-bet state; a transcript accepts the same position again or the   *)
(* next one, and nothing else.                                             *)
(***************************************************************************)
EXTENDS Naturals

CONSTANTS
  Hands,        \* hand identifiers
  NoHand,       \* the empty identifier
  MaxPos,       \* bound of the model: last position of a hand
  MaxFrame      \* bound of the model: largest frame identifier

CoordinatorAssumption ==
  /\ NoHand \notin Hands
  /\ MaxPos \in Nat
  /\ MaxFrame \in Nat

Frames == 1..MaxFrame
NoFrame == 0
HandIds == Hands \cup {NoHand}

Snapshots == [hand : HandIds, pos : 0..MaxPos]

\* anchor: the frame whose observation started the transcript
Histories == [hand : Hands, pos : 0..MaxPos, anchor : Frames]
NoHistory == [hand |-> NoHand, pos |-> 0, anchor |-> NoFrame]

Recorders == [history : Histories \cup {NoHistory}, error : BOOLEAN]
NewRecorder == [history |-> NoHistory, error |-> FALSE]
Complete(recorder) == recorder.history # NoHistory /\ ~recorder.error

Bundles == [frame : Frames, snapshot : Snapshots, history : Histories]
NoBundle == [frame |-> NoFrame]

Waiting == "waiting_for_anchor"
Tracking == "tracking"
Gapped == "gapped"

-----------------------------------------------------------------------------
(* PublicHandEventRecorder.probe() and commit().                           *)

ReplacesHand(recorder, snapshot) ==
  /\ snapshot.hand # NoHand
  /\ recorder.history # NoHistory
  /\ snapshot.hand # recorder.history.hand

ProbeAccepted(recorder, snapshot) ==
  /\ snapshot.hand # NoHand
  /\ recorder.error => ReplacesHand(recorder, snapshot)
  /\ IF recorder.history = NoHistory \/ ReplacesHand(recorder, snapshot)
     THEN snapshot.pos = 0
     ELSE snapshot.pos \in {recorder.history.pos, recorder.history.pos + 1}

\* The transcript an accepted probe proposes.
ProbeHistory(recorder, frame, snapshot) ==
  IF recorder.history = NoHistory \/ ReplacesHand(recorder, snapshot)
  THEN [hand |-> snapshot.hand, pos |-> 0, anchor |-> frame]
  ELSE [recorder.history EXCEPT !.pos = snapshot.pos]

Commit(recorder, frame, snapshot) ==
  [history |-> ProbeHistory(recorder, frame, snapshot), error |-> FALSE]

-----------------------------------------------------------------------------
\* The coordinator's fields, and two history fields: the hands that were
\* active when their transcript was cut off, and the candidates processed
\* without being accepted since a transcript was last accepted or replaced.
NewCoordinator ==
  [status |-> Waiting, recorder |-> NewRecorder,
   active |-> NoHand, expected |-> NoHand,
   watermark |-> NoFrame, proven |-> NoFrame, lastProcessed |-> NoFrame,
   pending |-> <<>>, gapFrame |-> NoFrame, gappedHands |-> {},
   unknownHandBeforeGap |-> FALSE, unresolved |-> {}, retired |-> {},
   accepted |-> NoBundle, closed |-> {}, seen |-> {}]

Blocked(c) == IF c.active # NoHand THEN c.active ELSE c.expected

Without(hands) == hands \ {NoHand}

ReplaceWithWaitingRecorder(c, expectedHand) ==
  [c EXCEPT !.recorder = NewRecorder, !.status = Waiting,
            !.active = NoHand, !.expected = expectedHand,
            !.proven = NoFrame, !.gapFrame = NoFrame,
            !.gappedHands = {}, !.unknownHandBeforeGap = FALSE,
            !.unresolved = {}, !.accepted = NoBundle, !.seen = {}]

AcceptWithoutRetiring(c, recorder, frame, snapshot, retiring) ==
  LET committed == Commit(recorder, frame, snapshot)
      hand == committed.history.hand
  IN  [c EXCEPT !.recorder = committed, !.status = Tracking,
                !.active = hand, !.expected = hand,
                !.proven = frame, !.gapFrame = NoFrame,
                !.gappedHands = {}, !.unknownHandBeforeGap = FALSE,
                !.unresolved = {},
                !.accepted = [frame |-> frame, snapshot |-> snapshot,
                              history |-> committed.history],
                !.closed = @ \cup ({c.active} \ {hand, NoHand}), !.seen = {}]

\* Commit the observation to `recorder' and expose it; `retiring' is the set
\* of hands that this ends.
Accept(c, recorder, frame, snapshot, retiring) ==
  LET committed == Commit(recorder, frame, snapshot)
      hand == committed.history.hand
  IN  [c EXCEPT !.recorder = committed, !.status = Tracking,
                !.active = hand, !.expected = hand,
                !.proven = frame, !.gapFrame = NoFrame,
                !.gappedHands = {}, !.unknownHandBeforeGap = FALSE,
                !.unresolved = {}, !.retired = @ \cup Without(retiring),
                !.accepted = [frame |-> frame, snapshot |-> snapshot,
                              history |-> committed.history],
                !.closed = @ \cup ({c.active} \ {hand, NoHand}),
                !.seen = {}]

Result(disposition, c) == [disposition |-> disposition, coord |-> c]
AcceptedResult(c) == Result("accepted", c)
RejectedResult(c) == Result("rejected", c)
IgnoredResult(c) == Result("ignored_gapped_hand", c)

ProcessWaiting(c, frame, snapshot) ==
  IF snapshot.hand \in c.retired
  THEN RejectedResult(c)
  ELSE IF ProbeAccepted(c.recorder, snapshot)
  THEN AcceptedResult(Accept(c, c.recorder, frame, snapshot, {}))
  ELSE RejectedResult(
         [c EXCEPT !.expected = IF snapshot.hand # NoHand THEN snapshot.hand ELSE @])

\* An unprovable view of another hand still ends the tracked one.
ProcessTracking(c, frame, snapshot) ==
  LET otherHand == snapshot.hand \notin {NoHand, c.active}
  IN  IF otherHand /\ snapshot.hand \in c.retired
      THEN RejectedResult(c)
      ELSE IF ProbeAccepted(c.recorder, snapshot)
      THEN AcceptedResult(Accept(c, c.recorder, frame, snapshot,
                                 IF otherHand THEN {c.active} ELSE {}))
      ELSE IF otherHand
      THEN RejectedResult(
             [ReplaceWithWaitingRecorder(c, snapshot.hand) EXCEPT
                !.retired = @ \cup Without({c.active}),
                !.closed = @ \cup Without({c.active})])
      ELSE RejectedResult(c)

\* Only a hand that provably began after the loss may be anchored.
ProcessGapped(c, frame, snapshot) ==
  LET beforeLoss == frame <= c.gapFrame
      marked ==
        [c EXCEPT !.gappedHands = IF beforeLoss THEN @ \cup Without({snapshot.hand}) ELSE @,
                  !.unknownHandBeforeGap = @ \/ (beforeLoss /\ snapshot.hand = NoHand)]
  IN  IF \/ marked.unknownHandBeforeGap
         \/ snapshot.hand = NoHand
         \/ snapshot.hand \in marked.gappedHands \cup marked.retired
         \/ beforeLoss
      THEN IgnoredResult(marked)
      ELSE IF ProbeAccepted(NewRecorder, snapshot)
      THEN AcceptedResult(Accept(marked, NewRecorder, frame, snapshot, {Blocked(c)}))
      ELSE RejectedResult(marked)

ProcessCandidate(c, frame, snapshot) ==
  CASE c.status = Waiting -> ProcessWaiting(c, frame, snapshot)
    [] c.status = Tracking -> ProcessTracking(c, frame, snapshot)
    [] c.status = Gapped -> ProcessGapped(c, frame, snapshot)

Rejection(frame, snapshot) == [frame |-> frame, hand |-> snapshot.hand]

\* A candidate that came after the loss known when it was processed.
AfterKnownLoss(c, frame) == c.status = Gapped /\ frame > c.gapFrame
Sighting(c, frame, snapshot) ==
  [frame |-> frame, hand |-> snapshot.hand, afterLoss |-> AfterKnownLoss(c, frame)]

\* One turn of advance_decoder_watermark()'s loop.
ConsumeCandidate(c, frame) ==
  LET snapshot == c.pending[frame]
      result == ProcessCandidate(c, frame, snapshot)
      d == result.coord
  IN  [d EXCEPT
        !.pending = [f \in DOMAIN c.pending \ {frame} |-> c.pending[f]],
        !.unresolved =
          CASE result.disposition = "rejected" -> @ \cup {Rejection(frame, snapshot)}
            [] result.disposition = "accepted" -> {r \in @ : r.frame > frame}
            [] OTHER -> @,
        !.lastProcessed = frame,
        !.seen = IF result.disposition = "accepted" THEN @
                 ELSE @ \cup {Sighting(c, frame, snapshot)}]

CanSubmit(c, frame) ==
  /\ frame > c.watermark
  /\ frame > c.lastProcessed
  /\ frame \notin DOMAIN c.pending

Submitted(c, frame, snapshot) ==
  [c EXCEPT !.pending = [f \in DOMAIN @ \cup {frame} |->
                           IF f = frame THEN snapshot ELSE c.pending[f]]]

\* The candidates up to `through', one after the other in frame order.
Consumed(c, through) ==
  LET after[n \in 0..MaxFrame] ==
        IF n = 0 THEN c
        ELSE IF n \in DOMAIN c.pending THEN ConsumeCandidate(after[n - 1], n)
        ELSE after[n - 1]
  IN  after[through]

Advanced(c, through) == [Consumed(c, through) EXCEPT !.watermark = through]

InvalidatedForgetsRejections(c, frame) ==
  [c EXCEPT !.recorder.error = TRUE, !.status = Gapped,
            !.gapFrame = IF frame > @ THEN frame ELSE @,
            !.unknownHandBeforeGap = @ \/ frame = NoFrame,
            !.gappedHands = @ \cup Without({Blocked(c)}),
            !.accepted = NoBundle,
            !.closed = @ \cup Without({c.active})]

\* invalidate_gap(); NoFrame is a loss without an ordering coordinate.
Invalidated(c, frame) ==
  LET boundary == IF frame > c.gapFrame THEN frame ELSE c.gapFrame
      lostRejections ==
        {r \in c.unresolved : boundary = NoFrame \/ r.frame <= boundary}
  IN  [c EXCEPT !.recorder.error = TRUE, !.status = Gapped,
                !.gapFrame = boundary,
                !.unknownHandBeforeGap =
                   \/ @
                   \/ frame = NoFrame
                   \/ \E r \in lostRejections : r.hand = NoHand,
                !.gappedHands =
                   @ \cup Without({Blocked(c)} \cup {r.hand : r \in lostRejections}),
                !.accepted = NoBundle,
                !.closed = @ \cup Without({c.active})]

-----------------------------------------------------------------------------
(* What callers may read.                                                  *)

AcceptedBehindWatermark(c) ==
  /\ c.status = Tracking
  /\ c.accepted # NoBundle
  /\ Complete(c.recorder)
  /\ c.pending = <<>>
  /\ c.accepted.frame = c.proven
  /\ c.accepted.history = c.recorder.history

AcceptedIsCurrent(c) ==
  /\ c.status = Tracking
  /\ c.accepted # NoBundle
  /\ Complete(c.recorder)
  /\ c.pending = <<>>
  /\ c.accepted.frame = c.proven
  /\ c.watermark = c.proven
  /\ c.accepted.history = c.recorder.history

\* latest_accepted_frame() and view().accepted_frame
LatestAccepted(c) == IF AcceptedIsCurrent(c) THEN c.accepted ELSE NoBundle

\* readiness(hand, frame): a second, frame-exact path to the same bundle
IsReady(c, hand, frame) ==
  /\ c.status = Tracking
  /\ c.active = hand
  /\ c.watermark = frame
  /\ c.proven = frame
  /\ Complete(c.recorder)
  /\ c.accepted # NoBundle
  /\ c.accepted.frame = frame
  /\ c.accepted.history = c.recorder.history
  /\ c.pending = <<>>

-----------------------------------------------------------------------------
(* The coordinator alone: a decoder that finishes frames in any order, and *)
(* losses reported at any time with or without a frame.                    *)
VARIABLE coord

Init == coord = NewCoordinator

SubmitCandidate(frame, snapshot) ==
  /\ CanSubmit(coord, frame)
  /\ coord' = Submitted(coord, frame, snapshot)

AdvanceDecoderWatermark(through) ==
  /\ through >= coord.watermark
  /\ coord' = Advanced(coord, through)

InvalidateGap(frame) == coord' = Invalidated(coord, frame)

Next ==
  \/ \E frame \in Frames, snapshot \in Snapshots : SubmitCandidate(frame, snapshot)
  \/ \E through \in Frames : AdvanceDecoderWatermark(through)
  \/ \E frame \in Frames \cup {NoFrame} : InvalidateGap(frame)

Spec == Init /\ [][Next]_coord

-----------------------------------------------------------------------------
Rejections == [frame : Frames, hand : HandIds]
Sightings == [frame : Frames, hand : HandIds, afterLoss : BOOLEAN]
Candidates == UNION {[frames -> Snapshots] : frames \in SUBSET Frames}

Coordinators ==
  [status : {Waiting, Tracking, Gapped}, recorder : Recorders,
   active : HandIds, expected : HandIds,
   watermark : 0..MaxFrame, proven : 0..MaxFrame, lastProcessed : 0..MaxFrame,
   pending : Candidates, gapFrame : 0..MaxFrame, gappedHands : SUBSET Hands,
   unknownHandBeforeGap : BOOLEAN, unresolved : SUBSET Rejections, retired : SUBSET Hands,
   accepted : Bundles \cup {NoBundle}, closed : SUBSET Hands, seen : SUBSET Sightings]

(* The record has the fields of the class, each of its type.               *)
TypeOK == coord \in Coordinators

(* Once the transcript of an active hand was cut off, by a loss or by the  *)
(* next hand, no later observation brings that hand back to a reader.      *)
ClosedHandNeverExposed ==
  LatestAccepted(coord) # NoBundle =>
    LatestAccepted(coord).history.hand \notin coord.closed

(* A bundle is exposed only while it is the newest decision: nothing is    *)
(* buffered, nothing was processed after it, and the decoder has not       *)
(* advanced past it; a rejected or lost later frame hides it.  readiness() *)
(* and latest_accepted_frame() are separate chains of tests, which never   *)
(* disagree about which frame of which hand may be used.                   *)
ExposedIsNewestDecision ==
  LET latest == LatestAccepted(coord)
  IN  /\ latest # NoBundle =>
           /\ coord.seen = {} /\ coord.pending = <<>>
           /\ latest.frame = coord.watermark
           /\ latest.snapshot.hand = coord.active
           /\ latest.snapshot.pos = coord.recorder.history.pos
      /\ \A hand \in Hands, frame \in Frames :
           IsReady(coord, hand, frame) <=>
             /\ AcceptedIsCurrent(coord)
             /\ coord.accepted.frame = frame
             /\ coord.accepted.history.hand = hand

\* Whatever observation comes next, it ends the loss only if `Fresh' holds of
\* its hand and of every candidate seen at or before the loss.
RecoversOnlyIf(Fresh(_, _)) ==
  coord.status = Gapped =>
    \A frame \in coord.lastProcessed + 1 .. MaxFrame, snapshot \in Snapshots :
      ProcessGapped(coord, frame, snapshot).disposition = "accepted" =>
        /\ frame > coord.gapFrame
        /\ \A r \in coord.seen : r.frame <= coord.gapFrame => Fresh(snapshot.hand, r)

(* A transcript resumes after a loss only from a frame after it, and only  *)
(* for a hand that no candidate at or before the loss showed; a candidate  *)
(* that showed no hand blocks every hand, if it was already in the past of *)
(* the loss known when it was processed or was rejected before any loss.   *)
RecoveryIsFresh ==
  RecoversOnlyIf(LAMBDA hand, r :
    r.hand # hand /\ (r.hand = NoHand => r.afterLoss))

=============================================================================
