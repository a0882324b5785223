------------------- MODULE PublicHistoryCoordinatorProofs -------------------
(***************************************************************************)
(* Proofs about PublicHistoryCoordinator for every set of hands, every     *)
(* length of a hand and every number of frames: what a reader gets is the  *)
(* newest decision about a hand that was never cut off, and a loss is      *)
(* overcome only by a hand that began after it.                            *)
(***************************************************************************)
EXTENDS PublicHistoryCoordinator, WellFoundedInduction, TLAPS

(* Frames are processed in order: what is buffered comes after what was    *)
(* processed, and an accepted frame before what was refused after it.      *)
OrderOK(c) ==
  /\ \A p \in DOMAIN c.pending : p > c.lastProcessed
  /\ \A s \in c.seen : s.frame <= c.lastProcessed
  /\ c.status = Tracking =>
       c.proven <= c.lastProcessed /\ \A s \in c.seen : s.frame > c.proven

WatermarkOK(c) ==
  /\ c.lastProcessed <= c.watermark
  /\ \A p \in DOMAIN c.pending : p > c.watermark

(* The bundle, the recorder and the active hand are about one transcript.  *)
TrackedOK(c) ==
  /\ c.status = Tracking =>
       /\ c.accepted # NoBundle /\ c.accepted.frame = c.proven
       /\ c.recorder.history # NoHistory /\ ~c.recorder.error
       /\ c.accepted.history = c.recorder.history
       /\ c.active \in Hands /\ c.recorder.history.hand = c.active
       /\ c.accepted.snapshot.hand = c.active
       /\ c.accepted.snapshot.pos = c.recorder.history.pos
  /\ c.status = Waiting => c.recorder = NewRecorder /\ c.active = NoHand

(* A hand that was cut off is retired, but for the one a loss cut off last,*)
(* which stays barred as a gapped hand until the next one is accepted.     *)
ClosedOK(c) ==
  /\ \A hand \in c.closed : hand \in c.retired \/ (c.status = Gapped /\ hand = c.active)
  /\ c.status = Gapped /\ c.active # NoHand => c.active \in c.gappedHands
  /\ c.status = Tracking => c.active \notin c.closed

(* What was seen and not accepted either bars its hand from recovery, or   *)
(* is still an unresolved rejection after the loss.                        *)
Bars(c, s) ==
  \/ c.unknownHandBeforeGap
  \/ s.hand \in c.gappedHands \cup c.retired
  \/ s.hand = NoHand /\ s.afterLoss

Outstanding(c, s) ==
  /\ [frame |-> s.frame, hand |-> s.hand] \in c.unresolved
  /\ c.status = Gapped => s.frame > c.gapFrame

SeenOK(c) == \A s \in c.seen : (c.status = Gapped /\ Bars(c, s)) \/ Outstanding(c, s)

CandidateOK(c) == c \in Coordinators /\ OrderOK(c) /\ TrackedOK(c) /\ ClosedOK(c) /\ SeenOK(c)

IInv == CandidateOK(coord) /\ WatermarkOK(coord)

-----------------------------------------------------------------------------
(* What each method does to the record.                                    *)
LEMMA InitialFacts ==
  ASSUME CoordinatorAssumption PROVE CandidateOK(NewCoordinator) /\ WatermarkOK(NewCoordinator)
<1> DEFINE c == NewCoordinator
<1>1. c.pending \in Candidates /\ DOMAIN c.pending = {}
  <2>1. <<>> \in [{} -> Snapshots]
    OBVIOUS
  <2>2. QED
    BY <2>1 DEF NewCoordinator, Candidates
<1>2. c.recorder \in Recorders
  BY Zenon DEF NewCoordinator, NewRecorder, Recorders
<1>3. c \in Coordinators
  <2>1. c.unknownHandBeforeGap \in BOOLEAN
    BY Zenon DEF NewCoordinator
  <2>2. QED
    BY <1>1, <1>2, <2>1
      DEF CoordinatorAssumption, NewCoordinator, Coordinators, HandIds, NoFrame, Waiting
<1>4. OrderOK(c) /\ WatermarkOK(c) /\ TrackedOK(c) /\ ClosedOK(c) /\ SeenOK(c)
  BY <1>1
    DEF NewCoordinator, OrderOK, WatermarkOK, TrackedOK, ClosedOK, SeenOK, NoFrame, Waiting,
        Tracking, Gapped
<1>5. QED
  BY <1>3, <1>4 DEF CandidateOK

(* A commit yields a transcript of the hand that was shown, at the shown   *)
(* position, anchored at the frame if it is a new one.                     *)
AnchoredAt(committed, recorder, frame) ==
  \/ committed.history.anchor = frame
  \/ recorder.history # NoHistory /\ committed.history.anchor = recorder.history.anchor

LEMMA CommitFacts ==
  ASSUME CoordinatorAssumption, NEW recorder \in Recorders, NEW frame \in Frames,
         NEW snapshot \in Snapshots, ProbeAccepted(recorder, snapshot)
  PROVE  /\ Commit(recorder, frame, snapshot).history \in Histories
         /\ Commit(recorder, frame, snapshot) \in Recorders
         /\ ~Commit(recorder, frame, snapshot).error
         /\ Commit(recorder, frame, snapshot).history # NoHistory
         /\ Commit(recorder, frame, snapshot).history.hand = snapshot.hand
         /\ Commit(recorder, frame, snapshot).history.pos = snapshot.pos
         /\ snapshot.hand \in Hands
         /\ AnchoredAt(Commit(recorder, frame, snapshot), recorder, frame)
<1> DEFINE h == ProbeHistory(recorder, frame, snapshot)
<1>1. snapshot.hand \in Hands
  BY DEF ProbeAccepted, Snapshots, HandIds
<1>2. h \in Histories /\ h.hand = snapshot.hand /\ h.pos = snapshot.pos
  <2>1. CASE recorder.history = NoHistory \/ ReplacesHand(recorder, snapshot)
    BY <1>1, <2>1 DEF CoordinatorAssumption, ProbeAccepted, ProbeHistory, Histories
  <2>2. CASE ~(recorder.history = NoHistory \/ ReplacesHand(recorder, snapshot))
    <3>1. recorder.history \in Histories /\ recorder.history.hand = snapshot.hand
      BY <1>1, <2>2 DEF CoordinatorAssumption, Recorders, ReplacesHand
    <3>2. snapshot.pos \in 0..MaxPos
      BY DEF Snapshots
    <3>3. QED
      BY <2>2, <3>1, <3>2 DEF ProbeHistory, Histories
  <2>3. QED
    BY <2>1, <2>2
<1>3. h # NoHistory
  BY <1>1, <1>2 DEF CoordinatorAssumption, NoHistory
<1>4. Commit(recorder, frame, snapshot) = [history |-> h, error |-> FALSE]
  BY DEF Commit
<1> HIDE DEF h
<1>5. Commit(recorder, frame, snapshot) \in Recorders
  BY <1>2, <1>4 DEF Recorders
<1>6. Commit(recorder, frame, snapshot).history = h /\ ~Commit(recorder, frame, snapshot).error
  BY <1>4
<1>7. h.anchor = frame \/ (recorder.history # NoHistory /\ h.anchor = recorder.history.anchor)
  <2>1. CASE recorder.history = NoHistory \/ ReplacesHand(recorder, snapshot)
    BY <2>1 DEF ProbeHistory, h
  <2>2. CASE ~(recorder.history = NoHistory \/ ReplacesHand(recorder, snapshot))
    <3>1. recorder.history \in Histories
      BY <2>2 DEF Recorders
    <3>2. QED
      BY <2>2, <3>1 DEF ProbeHistory, Histories, h
  <2>3. QED
    BY <2>1, <2>2
<1>8. QED
  BY <1>1, <1>2, <1>3, <1>5, <1>6, <1>7 DEF AnchoredAt

LEMMA AcceptFacts ==
  ASSUME CoordinatorAssumption, NEW c \in Coordinators, NEW recorder \in Recorders,
         NEW frame \in Frames, NEW snapshot \in Snapshots, ProbeAccepted(recorder, snapshot),
         NEW retiring \in SUBSET HandIds
  PROVE  LET d == Accept(c, recorder, frame, snapshot, retiring)
             committed == Commit(recorder, frame, snapshot)
         IN  /\ d \in Coordinators
             /\ d.status = Tracking /\ d.recorder = committed
             /\ d.active = snapshot.hand /\ d.proven = frame
             /\ d.accepted = [frame |-> frame, snapshot |-> snapshot, history |-> committed.history]
             /\ d.retired = c.retired \cup (retiring \ {NoHand})
             /\ d.closed = c.closed \cup ({c.active} \ {snapshot.hand, NoHand})
             /\ d.seen = {} /\ d.unresolved = {}
             /\ d.pending = c.pending /\ d.watermark = c.watermark
             /\ d.lastProcessed = c.lastProcessed
<1> DEFINE committed == Commit(recorder, frame, snapshot)
           d == Accept(c, recorder, frame, snapshot, retiring)
           bundle == [frame |-> frame, snapshot |-> snapshot, history |-> committed.history]
<1>1. /\ committed \in Recorders /\ committed.history \in Histories
      /\ committed.history.hand = snapshot.hand /\ snapshot.hand \in Hands
  BY CommitFacts
<1>2. bundle \in Bundles
  BY <1>1 DEF Bundles
<1>3. d = [c EXCEPT !.recorder = committed, !.status = Tracking,
                    !.active = snapshot.hand, !.expected = snapshot.hand,
                    !.proven = frame, !.gapFrame = NoFrame,
                    !.gappedHands = {}, !.unknownHandBeforeGap = FALSE,
                    !.unresolved = {}, !.retired = @ \cup Without(retiring),
                    !.accepted = bundle,
                    !.closed = @ \cup ({c.active} \ {snapshot.hand, NoHand}),
                    !.seen = {}]
  BY <1>1 DEF Accept
<1> HIDE DEF committed, d, bundle
<1>4. Without(retiring) \in SUBSET Hands /\ {c.active} \ {snapshot.hand, NoHand} \in SUBSET Hands
  BY DEF Without, HandIds, Coordinators
<1>5. frame \in 0..MaxFrame /\ NoFrame \in 0..MaxFrame
  BY DEF CoordinatorAssumption, Frames, NoFrame
<1>6. d \in Coordinators
  BY <1>1, <1>2, <1>3, <1>4, <1>5 DEF Coordinators, HandIds
<1>7. QED
  BY <1>3, <1>6 DEF Coordinators, Without, bundle, d, committed

LEMMA InvalidatedFacts ==
  ASSUME CoordinatorAssumption, NEW c \in Coordinators, NEW frame \in 0..MaxFrame
  PROVE  LET d == Invalidated(c, frame)
             boundary == IF frame > c.gapFrame THEN frame ELSE c.gapFrame
         IN  /\ d \in Coordinators
             /\ d.status = Gapped /\ d.gapFrame = boundary
             /\ d.active = c.active /\ d.retired = c.retired /\ d.seen = c.seen
             /\ d.unresolved = c.unresolved /\ d.pending = c.pending
             /\ d.watermark = c.watermark /\ d.lastProcessed = c.lastProcessed
             /\ d.accepted = NoBundle
             /\ d.closed = c.closed \cup ({c.active} \ {NoHand})
             /\ c.gappedHands \subseteq d.gappedHands
             /\ c.active # NoHand => c.active \in d.gappedHands
             /\ c.unknownHandBeforeGap \/ frame = NoFrame => d.unknownHandBeforeGap
             /\ \A r \in c.unresolved :
                  r.frame <= boundary => d.unknownHandBeforeGap \/ r.hand \in d.gappedHands
<1> DEFINE boundary == IF frame > c.gapFrame THEN frame ELSE c.gapFrame
           lost == {r \in c.unresolved : boundary = NoFrame \/ r.frame <= boundary}
           barred == Without({Blocked(c)} \cup {r.hand : r \in lost})
           unknown == c.unknownHandBeforeGap \/ frame = NoFrame \/ \E r \in lost : r.hand = NoHand
           d == Invalidated(c, frame)
<1>1. d = [c EXCEPT !.recorder.error = TRUE, !.status = Gapped, !.gapFrame = boundary,
                    !.unknownHandBeforeGap = unknown, !.gappedHands = @ \cup barred,
                    !.accepted = NoBundle, !.closed = @ \cup Without({c.active})]
  BY DEF Invalidated
<1>2. barred \in SUBSET Hands
  BY DEF Without, HandIds, Coordinators, Blocked, Rejections
<1>3. Without({c.active}) \in SUBSET Hands
  BY DEF Without, HandIds, Coordinators
<1>4. boundary \in 0..MaxFrame /\ unknown \in BOOLEAN
  BY DEF Coordinators
<1>5. [c.recorder EXCEPT !.error = TRUE] \in Recorders
  BY DEF Coordinators, Recorders
<1>6. /\ c.active # NoHand => c.active \in barred
      /\ \A r \in c.unresolved : r.frame <= boundary => unknown \/ r.hand \in barred
      /\ c.unknownHandBeforeGap \/ frame = NoFrame => unknown
  BY DEF Without, Blocked
<1> HIDE DEF boundary, barred, unknown, d
<1>7. d \in Coordinators
  BY <1>1, <1>2, <1>3, <1>4, <1>5 DEF Coordinators
<1>8. /\ d.status = Gapped /\ d.gapFrame = boundary /\ d.unknownHandBeforeGap = unknown
      /\ d.gappedHands = c.gappedHands \cup barred /\ d.accepted = NoBundle
      /\ d.closed = c.closed \cup Without({c.active})
      /\ d.active = c.active /\ d.retired = c.retired /\ d.seen = c.seen
      /\ d.unresolved = c.unresolved /\ d.pending = c.pending
      /\ d.watermark = c.watermark /\ d.lastProcessed = c.lastProcessed
  BY <1>1 DEF Coordinators
<1>9. QED
  BY <1>6, <1>7, <1>8 DEF Without, boundary, d

-----------------------------------------------------------------------------
(* A candidate, in each status.                                            *)
Undecided(c, e) ==
  /\ e.seen = c.seen /\ e.unresolved = c.unresolved /\ e.status = c.status /\ e.proven = c.proven
  /\ e.gapFrame = c.gapFrame /\ c.gappedHands \subseteq e.gappedHands /\ e.retired = c.retired
  /\ c.unknownHandBeforeGap => e.unknownHandBeforeGap

\* A transcript is anchored anew or goes on; after a loss it begins anew, later.
Follows(c, frame, e) ==
  /\ \/ e.recorder.history.anchor = frame
     \/ c.status = Tracking /\ e.recorder.history.anchor = c.recorder.history.anchor
  /\ c.status = Gapped => frame > c.gapFrame /\ ~c.unknownHandBeforeGap

\* What a decision about a candidate must establish.
DecisionOK(c, frame, snapshot, result) ==
  LET e == result.coord
  IN  /\ e \in Coordinators /\ TrackedOK(e) /\ ClosedOK(e)
      /\ e.pending = c.pending /\ e.watermark = c.watermark /\ e.lastProcessed = c.lastProcessed
      /\ \/ /\ result.disposition = "accepted"
            /\ e.status = Tracking /\ e.proven = frame /\ e.seen = {} /\ e.unresolved = {}
            /\ Follows(c, frame, e)
         \/ /\ result.disposition = "rejected"
            /\ \/ Undecided(c, e)
               \/ e.status = Waiting /\ e.seen = {} /\ e.unresolved = {} /\ c.status # Gapped
            /\ e.status = Gapped => frame > e.gapFrame
         \/ /\ result.disposition = "ignored_gapped_hand"
            /\ Undecided(c, e) /\ c.status = Gapped
            /\ Bars(e, Sighting(c, frame, snapshot))

LEMMA WaitingDecision ==
  ASSUME CoordinatorAssumption, NEW c, CandidateOK(c), c.status = Waiting,
         NEW frame \in Frames, NEW snapshot \in Snapshots
  PROVE  DecisionOK(c, frame, snapshot, ProcessWaiting(c, frame, snapshot))
<1> USE DEF CandidateOK
<1>0. Waiting # Tracking /\ Waiting # Gapped /\ Tracking # Gapped
  BY DEF Waiting, Tracking, Gapped
<1>1. CASE snapshot.hand \in c.retired
  BY <1>0, <1>1 DEF ProcessWaiting, RejectedResult, Result, DecisionOK, Undecided
<1>2. CASE snapshot.hand \notin c.retired /\ ProbeAccepted(c.recorder, snapshot)
  <2> DEFINE retiring == {}
             d == Accept(c, c.recorder, frame, snapshot, retiring)
             committed == Commit(c.recorder, frame, snapshot)
  <2>1. c.recorder \in Recorders
    BY DEF Coordinators
  <2>2. /\ d \in Coordinators /\ d.status = Tracking /\ d.recorder = committed
        /\ d.active = snapshot.hand /\ d.proven = frame
        /\ d.accepted = [frame |-> frame, snapshot |-> snapshot, history |-> committed.history]
        /\ d.retired = c.retired \cup (retiring \ {NoHand})
        /\ d.closed = c.closed \cup ({c.active} \ {snapshot.hand, NoHand})
        /\ d.seen = {} /\ d.unresolved = {}
        /\ d.pending = c.pending /\ d.watermark = c.watermark
        /\ d.lastProcessed = c.lastProcessed
    <3>1. retiring \in SUBSET HandIds
      OBVIOUS
    <3> HIDE DEF retiring
    <3>2. QED
      BY <1>2, <2>1, <3>1, AcceptFacts
  <2>3. /\ ~committed.error /\ committed.history # NoHistory
        /\ committed.history.hand = snapshot.hand /\ committed.history.pos = snapshot.pos
        /\ snapshot.hand \in Hands /\ AnchoredAt(committed, c.recorder, frame)
    BY <1>2, <2>1, CommitFacts
  <2>4. ProcessWaiting(c, frame, snapshot) = [disposition |-> "accepted", coord |-> d]
    BY <1>2 DEF ProcessWaiting, AcceptedResult, Result
  <2> HIDE DEF d, committed
  <2>5. d.accepted # NoBundle
    BY <2>2 DEF NoBundle, NoFrame, Frames
  <2>6. TrackedOK(d)
    BY <1>0, <2>2, <2>3, <2>5 DEF TrackedOK
  <2>7. ClosedOK(d)
    <3>1. c.active = NoHand /\ \A hand \in c.closed : hand \in c.retired
      BY <1>0 DEF TrackedOK, ClosedOK
    <3>2. QED
      BY <1>0, <1>2, <2>2, <3>1 DEF ClosedOK
  <2>8. Follows(c, frame, d)
    BY <1>0, <2>2, <2>3 DEF Follows, AnchoredAt, TrackedOK, NewRecorder
  <2>9. QED
    BY <2>2, <2>4, <2>6, <2>7, <2>8 DEF DecisionOK
<1>3. CASE snapshot.hand \notin c.retired /\ ~ProbeAccepted(c.recorder, snapshot)
  <2> DEFINE hand == IF snapshot.hand # NoHand THEN snapshot.hand ELSE c.expected
             d == [c EXCEPT !.expected = hand]
  <2>1. hand \in HandIds
    BY DEF Snapshots, Coordinators
  <2>2. ProcessWaiting(c, frame, snapshot) = [disposition |-> "rejected", coord |-> d]
    BY <1>3 DEF ProcessWaiting, RejectedResult, Result
  <2> HIDE DEF hand
  <2>3. d \in Coordinators /\ d.status = Waiting /\ Undecided(c, d)
        /\ d.pending = c.pending /\ d.watermark = c.watermark /\ d.lastProcessed = c.lastProcessed
        /\ d.recorder = c.recorder /\ d.active = c.active /\ d.closed = c.closed
    BY <2>1 DEF Coordinators, Undecided
  <2> HIDE DEF d
  <2>4. TrackedOK(d) /\ ClosedOK(d)
    BY <1>0, <2>3 DEF TrackedOK, ClosedOK, Undecided
  <2>5. QED
    BY <1>0, <2>2, <2>3, <2>4 DEF DecisionOK
<1>4. QED
  BY <1>1, <1>2, <1>3

LEMMA TrackingDecision ==
  ASSUME CoordinatorAssumption, NEW c, CandidateOK(c), c.status = Tracking,
         NEW frame \in Frames, NEW snapshot \in Snapshots
  PROVE  DecisionOK(c, frame, snapshot, ProcessTracking(c, frame, snapshot))
<1> DEFINE otherHand == snapshot.hand \notin {NoHand, c.active}
           retiring == IF otherHand THEN {c.active} ELSE {}
           d == Accept(c, c.recorder, frame, snapshot, retiring)
           committed == Commit(c.recorder, frame, snapshot)
           w == ReplaceWithWaitingRecorder(c, snapshot.hand)
           e == [w EXCEPT
                   !.retired = @ \cup Without({c.active}), !.closed = @ \cup Without({c.active})]
<1> USE DEF CandidateOK
<1>0. Waiting # Tracking /\ Waiting # Gapped /\ Tracking # Gapped
  BY DEF Waiting, Tracking, Gapped
<1>1. c.recorder \in Recorders /\ c.active \in Hands /\ c.active \notin c.closed
      /\ \A hand \in c.closed : hand \in c.retired
  BY <1>0 DEF Coordinators, TrackedOK, ClosedOK
<1>2. ASSUME ProbeAccepted(c.recorder, snapshot), otherHand => snapshot.hand \notin c.retired
      PROVE  DecisionOK(c, frame, snapshot, [disposition |-> "accepted", coord |-> d])
  <2>1. retiring \in SUBSET HandIds
    BY <1>1 DEF HandIds
  <2> HIDE DEF retiring
  <2>2. /\ d \in Coordinators /\ d.status = Tracking /\ d.recorder = committed
        /\ d.active = snapshot.hand /\ d.proven = frame
        /\ d.accepted = [frame |-> frame, snapshot |-> snapshot, history |-> committed.history]
        /\ d.retired = c.retired \cup (retiring \ {NoHand})
        /\ d.closed = c.closed \cup ({c.active} \ {snapshot.hand, NoHand})
        /\ d.seen = {} /\ d.unresolved = {}
        /\ d.pending = c.pending /\ d.watermark = c.watermark
        /\ d.lastProcessed = c.lastProcessed
    BY <1>1, <1>2, <2>1, AcceptFacts
  <2>3. /\ ~committed.error /\ committed.history # NoHistory
        /\ committed.history.hand = snapshot.hand /\ committed.history.pos = snapshot.pos
        /\ snapshot.hand \in Hands /\ AnchoredAt(committed, c.recorder, frame)
    BY <1>1, <1>2, CommitFacts
  <2> HIDE DEF d, committed
  <2>4. d.accepted # NoBundle
    BY <2>2 DEF NoBundle, NoFrame, Frames
  <2>5. TrackedOK(d)
    BY <1>0, <2>2, <2>3, <2>4 DEF TrackedOK
  <2>6. ClosedOK(d)
    <3>1. NoHand \notin Hands
      BY DEF CoordinatorAssumption
    <3>2. CASE otherHand
      BY <1>0, <1>1, <1>2, <2>2, <2>3, <3>1, <3>2 DEF ClosedOK, retiring
    <3>3. CASE ~otherHand
      BY <1>0, <1>1, <1>2, <2>2, <2>3, <3>1, <3>3 DEF ClosedOK
    <3>4. QED
      BY <3>2, <3>3
  <2>7. Follows(c, frame, d)
    BY <1>0, <2>2, <2>3 DEF Follows, AnchoredAt
  <2>8. QED
    BY <2>2, <2>5, <2>6, <2>7 DEF DecisionOK
<1>3. ASSUME otherHand
      PROVE  DecisionOK(c, frame, snapshot, [disposition |-> "rejected", coord |-> e])
  <2>1. /\ NewRecorder \in Recorders /\ FALSE \in BOOLEAN /\ NoFrame \in 0..MaxFrame
    <3>1. NewRecorder \in Recorders
      BY Zenon DEF NewRecorder, Recorders
    <3>2. QED
      BY <3>1 DEF CoordinatorAssumption, NoFrame
  <2>2. Without({c.active}) = {c.active} /\ Without({c.active}) \in SUBSET Hands
        /\ snapshot.hand \in HandIds
    BY <1>1 DEF Without, CoordinatorAssumption, Snapshots
  <2>3. /\ w \in Coordinators /\ w.status = Waiting /\ w.seen = {} /\ w.unresolved = {}
        /\ w.recorder = NewRecorder /\ w.active = NoHand /\ w.pending = c.pending
        /\ w.watermark = c.watermark /\ w.lastProcessed = c.lastProcessed
        /\ w.retired = c.retired /\ w.closed = c.closed
    BY <2>1, <2>2 DEF ReplaceWithWaitingRecorder, Coordinators, HandIds
  <2> HIDE DEF w
  <2>4. /\ e \in Coordinators /\ e.status = Waiting /\ e.seen = {} /\ e.unresolved = {}
        /\ e.recorder = NewRecorder /\ e.active = NoHand /\ e.pending = c.pending
        /\ e.watermark = c.watermark /\ e.lastProcessed = c.lastProcessed
        /\ e.retired = c.retired \cup {c.active} /\ e.closed = c.closed \cup {c.active}
    BY <2>2, <2>3 DEF Coordinators
  <2> HIDE DEF e
  <2>5. TrackedOK(e) /\ ClosedOK(e)
    BY <1>0, <1>1, <2>4 DEF TrackedOK, ClosedOK
  <2>6. QED
    BY <1>0, <2>4, <2>5 DEF DecisionOK
<1>4. DecisionOK(c, frame, snapshot, [disposition |-> "rejected", coord |-> c])
  BY <1>0 DEF DecisionOK, Undecided
<1>5. ProcessTracking(c, frame, snapshot) \in
        {[disposition |-> "rejected", coord |-> c]}
          \cup {x \in {[disposition |-> "accepted", coord |-> d]} :
                  ProbeAccepted(c.recorder, snapshot) /\ (otherHand => snapshot.hand \notin c.retired)}
          \cup {x \in {[disposition |-> "rejected", coord |-> e]} : otherHand}
  BY DEF ProcessTracking, RejectedResult, AcceptedResult, Result
<1>6. QED
  BY <1>2, <1>3, <1>4, <1>5

LEMMA GappedDecision ==
  ASSUME CoordinatorAssumption, NEW c, CandidateOK(c), c.status = Gapped,
         NEW frame \in Frames, NEW snapshot \in Snapshots
  PROVE  DecisionOK(c, frame, snapshot, ProcessGapped(c, frame, snapshot))
<1> DEFINE beforeLoss == frame <= c.gapFrame
           barred == IF beforeLoss THEN c.gappedHands \cup Without({snapshot.hand}) ELSE c.gappedHands
           unknown == c.unknownHandBeforeGap \/ (beforeLoss /\ snapshot.hand = NoHand)
           m == [c EXCEPT !.gappedHands = barred, !.unknownHandBeforeGap = unknown]
           retiring == {Blocked(c)}
           d == Accept(m, NewRecorder, frame, snapshot, retiring)
           committed == Commit(NewRecorder, frame, snapshot)
<1> USE DEF CandidateOK
<1>0. Waiting # Tracking /\ Waiting # Gapped /\ Tracking # Gapped
  BY DEF Waiting, Tracking, Gapped
<1>1. Without({snapshot.hand}) \in SUBSET Hands
  BY DEF Without, Snapshots, HandIds
<1>2. m = [c EXCEPT !.gappedHands = barred, !.unknownHandBeforeGap = unknown]
  OBVIOUS
<1>3. barred \in SUBSET Hands /\ unknown \in BOOLEAN /\ c.gappedHands \subseteq barred
      /\ (c.unknownHandBeforeGap => unknown)
      /\ (beforeLoss => unknown \/ snapshot.hand \in barred)
  BY <1>1 DEF Coordinators, Without
<1> HIDE DEF barred, unknown, m
<1>4. /\ m \in Coordinators /\ m.status = Gapped /\ Undecided(c, m)
      /\ m.active = c.active /\ m.closed = c.closed /\ m.pending = c.pending
      /\ m.watermark = c.watermark /\ m.lastProcessed = c.lastProcessed
      /\ m.gappedHands = barred /\ m.unknownHandBeforeGap = unknown
  BY <1>2, <1>3 DEF Coordinators, Undecided
<1>5. TrackedOK(m) /\ ClosedOK(m)
  BY <1>0, <1>4 DEF TrackedOK, ClosedOK, Undecided
<1>6. CASE unknown \/ snapshot.hand = NoHand \/ snapshot.hand \in barred \cup m.retired \/ beforeLoss
  <2>1. ProcessGapped(c, frame, snapshot)
          = [disposition |-> "ignored_gapped_hand", coord |-> m]
    BY <1>4, <1>6 DEF ProcessGapped, IgnoredResult, Result, m, unknown, barred
  <2>2. Bars(m, Sighting(c, frame, snapshot))
    <3> DEFINE s == Sighting(c, frame, snapshot)
    <3>1. s.hand = snapshot.hand
      BY DEF Sighting
    <3>2. ~beforeLoss => s.afterLoss
      <4>1. ~beforeLoss => AfterKnownLoss(c, frame)
        BY DEF AfterKnownLoss, Frames, Coordinators, CoordinatorAssumption
      <4>2. s.afterLoss = AfterKnownLoss(c, frame)
        BY Zenon DEF Sighting
      <4>3. QED
        BY <4>1, <4>2
    <3> HIDE DEF s
    <3>3. QED
      BY <1>3, <1>4, <1>6, <3>1, <3>2 DEF Bars, s
  <2>3. QED
    BY <1>4, <1>5, <2>1, <2>2 DEF DecisionOK
<1>7. CASE /\ ~(unknown \/ snapshot.hand = NoHand \/ snapshot.hand \in barred \cup m.retired
                 \/ beforeLoss)
           /\ ProbeAccepted(NewRecorder, snapshot)
  <2>1. NewRecorder \in Recorders
    BY Zenon DEF NewRecorder, Recorders
  <2>2. retiring \in SUBSET HandIds /\ (c.active # NoHand => c.active \in retiring)
    BY DEF Blocked, Coordinators
  <2>3. ProcessGapped(c, frame, snapshot) = [disposition |-> "accepted", coord |-> d]
    BY <1>4, <1>7 DEF ProcessGapped, AcceptedResult, Result, m, unknown, barred
  <2> HIDE DEF retiring
  <2>4. /\ d \in Coordinators /\ d.status = Tracking /\ d.recorder = committed
        /\ d.active = snapshot.hand /\ d.proven = frame
        /\ d.accepted = [frame |-> frame, snapshot |-> snapshot, history |-> committed.history]
        /\ d.retired = m.retired \cup (retiring \ {NoHand})
        /\ d.closed = m.closed \cup ({m.active} \ {snapshot.hand, NoHand})
        /\ d.seen = {} /\ d.unresolved = {}
        /\ d.pending = m.pending /\ d.watermark = m.watermark
        /\ d.lastProcessed = m.lastProcessed
    BY <1>4, <1>7, <2>1, <2>2, AcceptFacts
  <2>5. /\ ~committed.error /\ committed.history # NoHistory
        /\ committed.history.hand = snapshot.hand /\ committed.history.pos = snapshot.pos
        /\ snapshot.hand \in Hands /\ AnchoredAt(committed, NewRecorder, frame)
    BY <1>7, <2>1, CommitFacts
  <2> HIDE DEF d, committed
  <2>6. d.accepted # NoBundle
    BY <2>4 DEF NoBundle, NoFrame, Frames
  <2>7. TrackedOK(d)
    BY <1>0, <2>4, <2>5, <2>6 DEF TrackedOK
  <2>8. ClosedOK(d)
    <3>1. /\ m.active # NoHand => m.active \in barred /\ m.active \in d.retired
          /\ \A hand \in m.closed : hand \in m.retired \/ hand = m.active
          /\ NoHand \notin Hands /\ m.closed \subseteq Hands
      BY <1>4, <1>5, <2>2, <2>4 DEF ClosedOK, CoordinatorAssumption, Coordinators
    <3>2. snapshot.hand \notin d.closed
      BY <1>7, <2>4, <3>1
    <3>3. \A hand \in d.closed : hand \in d.retired
      BY <2>4, <3>1
    <3>4. QED
      BY <1>0, <2>4, <3>2, <3>3 DEF ClosedOK
  <2>9. Follows(c, frame, d)
    <3>1. d.recorder.history.anchor = frame
      BY <2>4, <2>5 DEF AnchoredAt, NewRecorder
    <3>2. frame > c.gapFrame /\ ~c.unknownHandBeforeGap
      BY <1>3, <1>7 DEF Frames, Coordinators, CoordinatorAssumption, beforeLoss
    <3>3. QED
      BY <3>1, <3>2 DEF Follows
  <2>10. QED
    BY <1>4, <2>3, <2>4, <2>7, <2>8, <2>9 DEF DecisionOK
<1>8. CASE /\ ~(unknown \/ snapshot.hand = NoHand \/ snapshot.hand \in barred \cup m.retired
                 \/ beforeLoss)
           /\ ~ProbeAccepted(NewRecorder, snapshot)
  <2>1. ProcessGapped(c, frame, snapshot) = [disposition |-> "rejected", coord |-> m]
    BY <1>4, <1>8 DEF ProcessGapped, RejectedResult, Result, m, unknown, barred
  <2>2. frame > m.gapFrame
    BY <1>4, <1>8 DEF Undecided, Frames, Coordinators, CoordinatorAssumption
  <2>3. QED
    BY <1>4, <1>5, <2>1, <2>2 DEF DecisionOK
<1>9. QED
  BY <1>6, <1>7, <1>8

LEMMA CandidateDecision ==
  ASSUME CoordinatorAssumption, NEW c, CandidateOK(c),
         NEW frame \in Frames, NEW snapshot \in Snapshots
  PROVE  DecisionOK(c, frame, snapshot, ProcessCandidate(c, frame, snapshot))
<1>1. c.status \in {Waiting, Tracking, Gapped}
  BY DEF CandidateOK, Coordinators
<1>2. Waiting # Tracking /\ Waiting # Gapped /\ Tracking # Gapped
  BY DEF Waiting, Tracking, Gapped
<1>3. CASE c.status = Waiting
  <2>1. ProcessCandidate(c, frame, snapshot) = ProcessWaiting(c, frame, snapshot)
    BY <1>2, <1>3, Zenon DEF ProcessCandidate
  <2>2. QED
    BY <1>3, <2>1, WaitingDecision
<1>4. CASE c.status = Tracking
  <2>1. ProcessCandidate(c, frame, snapshot) = ProcessTracking(c, frame, snapshot)
    BY <1>2, <1>4, Zenon DEF ProcessCandidate
  <2>2. QED
    BY <1>4, <2>1, TrackingDecision
<1>5. CASE c.status = Gapped
  <2>1. ProcessCandidate(c, frame, snapshot) = ProcessGapped(c, frame, snapshot)
    BY <1>2, <1>5, Zenon DEF ProcessCandidate
  <2>2. QED
    BY <1>5, <2>1, GappedDecision
<1>6. QED
  BY <1>1, <1>3, <1>4, <1>5

-----------------------------------------------------------------------------
(* One turn of the loop, on the first candidate buffered.                  *)
Decided(d, e) ==
  /\ d.status = e.status /\ d.recorder = e.recorder /\ d.proven = e.proven
  /\ d.gapFrame = e.gapFrame /\ d.unknownHandBeforeGap = e.unknownHandBeforeGap

LEMMA ConsumeFacts ==
  ASSUME CoordinatorAssumption, NEW c, CandidateOK(c), NEW frame \in DOMAIN c.pending,
         \A p \in DOMAIN c.pending : p >= frame
  PROVE  LET d == ConsumeCandidate(c, frame)
         IN  /\ CandidateOK(d)
             /\ d.watermark = c.watermark /\ d.lastProcessed = frame
             /\ DOMAIN d.pending = DOMAIN c.pending \ {frame}
             /\ Decided(d, ProcessCandidate(c, frame, c.pending[frame]).coord)
<1> DEFINE snapshot == c.pending[frame]
           result == ProcessCandidate(c, frame, snapshot)
           e == result.coord
           left == [f \in DOMAIN c.pending \ {frame} |-> c.pending[f]]
           rejection == Rejection(frame, snapshot)
           sighting == Sighting(c, frame, snapshot)
           unresolved == CASE result.disposition = "rejected" -> e.unresolved \cup {rejection}
                           [] result.disposition = "accepted" -> {r \in e.unresolved : r.frame > frame}
                           [] OTHER -> e.unresolved
           seen == IF result.disposition = "accepted" THEN e.seen ELSE e.seen \cup {sighting}
           d == ConsumeCandidate(c, frame)
<1>1. /\ c \in Coordinators /\ OrderOK(c) /\ TrackedOK(c) /\ ClosedOK(c) /\ SeenOK(c)
  BY DEF CandidateOK
<1>2. /\ DOMAIN c.pending \in SUBSET Frames /\ \A f \in DOMAIN c.pending : c.pending[f] \in Snapshots
  BY <1>1 DEF Coordinators, Candidates
<1>3. frame \in Frames /\ snapshot \in Snapshots
  BY <1>2
<1>4. DecisionOK(c, frame, snapshot, result)
  BY <1>3, CandidateDecision
<1>5. d = [e EXCEPT !.pending = left, !.unresolved = unresolved, !.lastProcessed = frame, !.seen = seen]
  BY Zenon DEF ConsumeCandidate
<1>6. left \in Candidates /\ DOMAIN left = DOMAIN c.pending \ {frame}
  <2>1. left \in [DOMAIN c.pending \ {frame} -> Snapshots]
    BY <1>2
  <2>2. DOMAIN c.pending \ {frame} \in SUBSET Frames
    BY <1>2
  <2>3. QED
    BY <2>1, <2>2 DEF Candidates
<1>7. rejection \in Rejections /\ rejection = [frame |-> frame, hand |-> snapshot.hand]
  BY <1>3 DEF Rejection, Rejections, Snapshots
<1>8. /\ sighting \in Sightings /\ sighting.frame = frame /\ sighting.hand = snapshot.hand
  <2>1. AfterKnownLoss(c, frame) \in BOOLEAN
    BY DEF AfterKnownLoss
  <2>2. QED
    BY <1>3, <2>1 DEF Sighting, Sightings, Snapshots
<1>9. /\ result.disposition = "rejected" => unresolved = e.unresolved \cup {rejection}
      /\ result.disposition = "accepted" => unresolved = {r \in e.unresolved : r.frame > frame}
      /\ result.disposition = "ignored_gapped_hand" => unresolved = e.unresolved
  <2>1. result.disposition = "rejected" => unresolved = e.unresolved \cup {rejection}
    BY Zenon
  <2>2. "accepted" # "rejected" /\ "ignored_gapped_hand" # "rejected"
        /\ "ignored_gapped_hand" # "accepted"
    OBVIOUS
  <2>3. result.disposition = "accepted" => unresolved = {r \in e.unresolved : r.frame > frame}
    BY <2>2, Zenon
  <2>4. result.disposition = "ignored_gapped_hand" => unresolved = e.unresolved
    BY <2>2, Zenon
  <2>5. QED
    BY <2>1, <2>3, <2>4
<1>10. /\ e \in Coordinators /\ TrackedOK(e) /\ ClosedOK(e)
       /\ e.pending = c.pending /\ e.watermark = c.watermark /\ e.lastProcessed = c.lastProcessed
       /\ \/ /\ result.disposition = "accepted"
             /\ e.status = Tracking /\ e.proven = frame /\ e.seen = {} /\ e.unresolved = {}
          \/ /\ result.disposition = "rejected"
             /\ \/ Undecided(c, e)
                \/ e.status = Waiting /\ e.seen = {} /\ e.unresolved = {} /\ c.status # Gapped
             /\ e.status = Gapped => frame > e.gapFrame
          \/ /\ result.disposition = "ignored_gapped_hand"
             /\ Undecided(c, e) /\ c.status = Gapped
             /\ Bars(e, sighting)
  BY <1>4 DEF DecisionOK
<1> HIDE DEF result, left, rejection, sighting, unresolved, d, e, snapshot
<1>11. unresolved \in SUBSET Rejections /\ seen \in SUBSET Sightings
  BY <1>7, <1>8, <1>9, <1>10 DEF Coordinators
<1>12. seen = IF result.disposition = "accepted" THEN e.seen ELSE e.seen \cup {sighting}
  OBVIOUS
<1> HIDE DEF seen
<1>13. /\ d \in Coordinators /\ d.pending = left /\ d.unresolved = unresolved
       /\ d.lastProcessed = frame /\ d.seen = seen
       /\ d.status = e.status /\ d.recorder = e.recorder /\ d.active = e.active
       /\ d.watermark = e.watermark /\ d.proven = e.proven /\ d.gapFrame = e.gapFrame
       /\ d.gappedHands = e.gappedHands /\ d.unknownHandBeforeGap = e.unknownHandBeforeGap
       /\ d.retired = e.retired /\ d.accepted = e.accepted /\ d.closed = e.closed
  <2>1. frame \in 0..MaxFrame
    BY <1>3 DEF Frames, CoordinatorAssumption
  <2>2. QED
    BY <1>5, <1>6, <1>10, <1>11, <2>1 DEF Coordinators
<1>14. TrackedOK(d) /\ ClosedOK(d)
  BY <1>10, <1>13 DEF TrackedOK, ClosedOK
<1>15. OrderOK(d)
  <2>1. /\ c.lastProcessed < frame /\ frame \in Nat /\ c.lastProcessed \in Nat
        /\ \A s \in c.seen : s.frame \in Nat /\ s.frame <= c.lastProcessed
        /\ c.proven \in Nat
    BY <1>1, <1>3 DEF OrderOK, Frames, Coordinators, CoordinatorAssumption, Sightings
  <2>2. \A p \in DOMAIN d.pending : p > d.lastProcessed
    BY <1>2, <1>3, <1>6, <1>13 DEF Frames, CoordinatorAssumption
  <2>3. seen \subseteq c.seen \cup {sighting}
    BY <1>10, <1>12 DEF Undecided
  <2>4. \A s \in d.seen : s.frame <= d.lastProcessed
    BY <1>8, <1>13, <2>1, <2>3
  <2>5. d.status = Tracking =>
          d.proven <= d.lastProcessed /\ \A s \in d.seen : s.frame > d.proven
    <3>1. CASE result.disposition = "accepted"
      BY <1>10, <1>12, <1>13, <2>1, <3>1
    <3>2. CASE result.disposition # "accepted" /\ e.status = Tracking
      <4>1. c.status = Tracking /\ e.proven = c.proven
        BY <1>10, <3>2 DEF Undecided, Waiting, Tracking
      <4>2. c.proven <= c.lastProcessed /\ \A s \in c.seen : s.frame > c.proven
        BY <1>1, <4>1 DEF OrderOK
      <4>3. QED
        BY <1>8, <1>13, <2>1, <2>3, <4>1, <4>2
    <3>3. QED
      BY <1>13, <3>1, <3>2
  <2>6. QED
    BY <2>2, <2>4, <2>5 DEF OrderOK
<1>16. SeenOK(d)
  <2>1. CASE result.disposition = "accepted"
    BY <1>10, <1>12, <1>13, <2>1 DEF SeenOK
  <2>2. CASE result.disposition # "accepted"
    <3> SUFFICES ASSUME NEW s \in d.seen
                 PROVE  (d.status = Gapped /\ Bars(d, s)) \/ Outstanding(d, s)
      BY DEF SeenOK
    <3>1. CASE s = sighting
      <4>1. CASE result.disposition = "rejected"
        BY <1>7, <1>8, <1>9, <1>10, <1>13, <3>1, <4>1 DEF Outstanding
      <4>2. CASE result.disposition = "ignored_gapped_hand"
        BY <1>10, <1>13, <3>1, <4>2 DEF Bars, Undecided
      <4>3. QED
        BY <1>10, <2>2, <4>1, <4>2
    <3>2. CASE s # sighting
      <4>1. s \in e.seen /\ Undecided(c, e) /\ s \in c.seen /\ e.unresolved \subseteq unresolved
        BY <1>9, <1>10, <1>12, <1>13, <2>2, <3>2 DEF Undecided
      <4>2. (c.status = Gapped /\ Bars(c, s)) \/ Outstanding(c, s)
        BY <1>1, <4>1 DEF SeenOK
      <4>3. QED
        BY <1>13, <4>1, <4>2 DEF Bars, Outstanding, Undecided
    <3>3. QED
      BY <3>1, <3>2
  <2>3. QED
    BY <2>1, <2>2
<1>17. Decided(d, ProcessCandidate(c, frame, c.pending[frame]).coord)
  BY <1>13 DEF Decided, e, result, snapshot
<1>18. QED
  BY <1>6, <1>10, <1>13, <1>14, <1>15, <1>16, <1>17 DEF CandidateOK, d

-----------------------------------------------------------------------------
(* The loop of advance_decoder_watermark().  Its recursive definition has  *)
(* a solution, built from one frame to the next.                           *)
LEMMA LeastMember ==
  ASSUME NEW S \in SUBSET Nat, S # {} PROVE \E x \in S : \A y \in S : x <= y
<1> DEFINE R == {pair \in Nat \X Nat : pair[1] < pair[2]}
<1>1. R = OpToRel(<, Nat)
  BY DEF OpToRel
<1> HIDE DEF R
<1>2. PICK x \in S : \A y \in S : ~(<<y, x>> \in R)
  BY <1>1, NatLessThanWellFounded, WFMin
<1>3. \A y \in Nat : y < x => <<y, x>> \in R
  BY DEF R
<1>4. ASSUME NEW y \in S PROVE x <= y
  <2>1. x \in Nat /\ y \in Nat
    OBVIOUS
  <2>2. ~(y < x)
    BY <1>2, <1>3, <2>1
  <2>3. QED
    BY <2>1, <2>2
<1>5. QED
  BY <1>4

\* The function that the loop computes, on the frames up to `last'.
IsLoop(after, c, last) ==
  after = [n \in 0..last |->
             IF n = 0 THEN c
             ELSE IF n \in DOMAIN c.pending THEN ConsumeCandidate(after[n - 1], n)
             ELSE after[n - 1]]

LEMMA LoopExists ==
  ASSUME NEW c, NEW last \in Nat PROVE \E after : IsLoop(after, c, last)
<1> DEFINE bad == {k \in Nat : ~\E after : IsLoop(after, c, k)}
<1>1. SUFFICES ASSUME bad # {} PROVE FALSE
  OBVIOUS
<1>2. PICK k \in bad : \A j \in bad : k <= j
  BY <1>1, LeastMember
<1>3. CASE k = 0
  <2> DEFINE g == [n \in 0..0 |-> c]
  <2>1. IsLoop(g, c, 0)
    BY DEF IsLoop
  <2>2. QED
    BY <1>3, <2>1
<1>4. CASE k # 0
  <2>1. k - 1 \in Nat /\ k \in Nat /\ k > 0
    BY <1>4
  <2>2. k - 1 \notin bad
    BY <1>2, <2>1
  <2>3. PICK g : IsLoop(g, c, k - 1)
    BY <2>1, <2>2
  <2> DEFINE body == IF k \in DOMAIN c.pending THEN ConsumeCandidate(g[k - 1], k) ELSE g[k - 1]
             h == [n \in 0..k |-> IF n = k THEN body ELSE g[n]]
  <2>4. \A n \in 0..k : h[n] = IF n = k THEN body ELSE g[n]
    OBVIOUS
  <2>5. \A n \in 0..k - 1 : g[n] = IF n = 0 THEN c
                                   ELSE IF n \in DOMAIN c.pending THEN ConsumeCandidate(g[n - 1], n)
                                   ELSE g[n - 1]
    BY <2>3 DEF IsLoop
  <2> HIDE DEF body
  <2>6. \A n \in 0..k : n # 0 => h[n - 1] = g[n - 1]
    BY <2>1, <2>4
  <2>7. \A n \in 0..k : h[n] = IF n = 0 THEN c
                               ELSE IF n \in DOMAIN c.pending THEN ConsumeCandidate(h[n - 1], n)
                               ELSE h[n - 1]
    <3> TAKE n \in 0..k
    <3>1. CASE n = k
      BY <2>1, <2>4, <2>6, <3>1 DEF body
    <3>2. CASE n # k
      <4>1. n \in 0..k - 1
        BY <2>1, <3>2
      <4>2. QED
        BY <2>4, <2>5, <2>6, <3>2, <4>1
    <3>3. QED
      BY <3>1, <3>2
  <2>8. h = [n \in 0..k |-> h[n]]
    OBVIOUS
  <2> HIDE DEF h
  <2>9. IsLoop(h, c, k)
    BY <2>7, <2>8 DEF IsLoop
  <2>10. QED
    BY <2>9
<1>5. QED
  BY <1>3, <1>4

LEMMA ConsumedIsLoop ==
  ASSUME CoordinatorAssumption, NEW c, NEW through \in 0..MaxFrame
  PROVE  \E after : IsLoop(after, c, MaxFrame) /\ Consumed(c, through) = after[through]
<1> DEFINE after == CHOOSE g : IsLoop(g, c, MaxFrame)
<1>1. IsLoop(after, c, MaxFrame)
  BY LoopExists DEF CoordinatorAssumption
<1>2. Consumed(c, through) = after[through]
  BY DEF Consumed, IsLoop
<1>3. QED
  BY <1>1, <1>2

(* Each turn keeps the invariant, since what is left comes after it.       *)
LEMMA AdvancedFacts ==
  ASSUME CoordinatorAssumption, NEW c, CandidateOK(c), WatermarkOK(c),
         NEW through \in Frames, through >= c.watermark
  PROVE  /\ CandidateOK(Advanced(c, through)) /\ WatermarkOK(Advanced(c, through))
         /\ Advanced(c, through).watermark = through
<1>1. PICK after : IsLoop(after, c, MaxFrame) /\ Consumed(c, through) = after[through]
  BY ConsumedIsLoop DEF Frames
<1>2. /\ MaxFrame \in Nat /\ c \in Coordinators /\ DOMAIN c.pending \in SUBSET Frames
  BY DEF CoordinatorAssumption, CandidateOK, Coordinators, Candidates
<1>3. after[0] = c
  BY <1>1, <1>2 DEF IsLoop
<1>4. \A n \in Frames : after[n] = IF n \in DOMAIN c.pending THEN ConsumeCandidate(after[n - 1], n)
                                  ELSE after[n - 1]
  BY <1>1, <1>2 DEF IsLoop, Frames
<1> DEFINE Good(n) ==
             /\ CandidateOK(after[n]) /\ after[n].watermark = c.watermark
             /\ DOMAIN after[n].pending = {p \in DOMAIN c.pending : p > n}
             /\ after[n].lastProcessed <= c.watermark \/ after[n].lastProcessed <= n
           bad == {n \in 0..MaxFrame : ~Good(n)}
<1>5. Good(0)
  BY <1>2, <1>3 DEF WatermarkOK, Frames
<1>6. ASSUME NEW n \in Frames, Good(n - 1) PROVE Good(n)
  <2> DEFINE d == after[n - 1]
  <2>1. /\ CandidateOK(d) /\ d.watermark = c.watermark
        /\ DOMAIN d.pending = {p \in DOMAIN c.pending : p > n - 1}
        /\ d.lastProcessed <= c.watermark \/ d.lastProcessed <= n - 1
        /\ d.lastProcessed \in Nat
    BY <1>2, <1>6 DEF CandidateOK, Coordinators
  <2> HIDE DEF d
  <2>2. n \in Nat /\ n > 0 /\ \A p \in DOMAIN c.pending : p \in Nat
    BY <1>2 DEF Frames
  <2>3. CASE n \in DOMAIN c.pending
    <3>1. after[n] = ConsumeCandidate(d, n)
      BY <1>4, <2>3 DEF d
    <3>2. n \in DOMAIN d.pending /\ \A p \in DOMAIN d.pending : p >= n
      BY <2>1, <2>2, <2>3
    <3>3. /\ CandidateOK(after[n]) /\ after[n].watermark = d.watermark /\ after[n].lastProcessed = n
          /\ DOMAIN after[n].pending = DOMAIN d.pending \ {n}
      BY <2>1, <3>1, <3>2, ConsumeFacts
    <3>4. DOMAIN d.pending \ {n} = {p \in DOMAIN c.pending : p > n}
      BY <2>1, <2>2
    <3>5. QED
      BY <2>1, <2>2, <3>3, <3>4
  <2>4. CASE n \notin DOMAIN c.pending
    <3>1. after[n] = d
      BY <1>4, <2>4 DEF d
    <3>2. {p \in DOMAIN c.pending : p > n - 1} = {p \in DOMAIN c.pending : p > n}
      BY <2>2, <2>4
    <3>3. d.lastProcessed <= n - 1 => d.lastProcessed <= n
      BY <2>1, <2>2
    <3>4. QED
      BY <2>1, <3>1, <3>2, <3>3
  <2>5. QED
    BY <2>3, <2>4
<1> HIDE DEF Good
<1>7. bad = {}
  <2>1. SUFFICES ASSUME bad # {} PROVE FALSE
    OBVIOUS
  <2>2. PICK n \in bad : \A j \in bad : n <= j
    <3>1. bad \in SUBSET Nat
      BY <1>2
    <3> HIDE DEF bad
    <3>2. QED
      BY <2>1, <3>1, LeastMember
  <2>3. n \in Frames /\ n - 1 \in 0..MaxFrame
    BY <1>2, <1>5 DEF Frames
  <2>4. n - 1 \notin bad
    BY <1>2, <2>2, <2>3 DEF Frames
  <2>5. QED
    BY <1>6, <2>3, <2>4
<1> DEFINE e == after[through]
           d == [e EXCEPT !.watermark = through]
<1>8. Good(through) /\ through \in 0..MaxFrame /\ through \in Nat
  BY <1>2, <1>7 DEF Frames
<1>9. /\ CandidateOK(e) /\ DOMAIN e.pending = {p \in DOMAIN c.pending : p > through}
      /\ e.lastProcessed <= through
  <2>1. c.watermark \in Nat /\ e.lastProcessed \in Nat
    BY <1>2, <1>8 DEF Good, CandidateOK, Coordinators
  <2>2. QED
    BY <1>8, <2>1 DEF Good
<1>10. Advanced(c, through) = d
  BY <1>1 DEF Advanced
<1> HIDE DEF d, e
<1>11. /\ d \in Coordinators /\ d.watermark = through
       /\ d.status = e.status /\ d.recorder = e.recorder /\ d.active = e.active
       /\ d.proven = e.proven /\ d.lastProcessed = e.lastProcessed /\ d.pending = e.pending
       /\ d.gapFrame = e.gapFrame /\ d.gappedHands = e.gappedHands
       /\ d.unknownHandBeforeGap = e.unknownHandBeforeGap /\ d.unresolved = e.unresolved
       /\ d.retired = e.retired /\ d.accepted = e.accepted /\ d.closed = e.closed
       /\ d.seen = e.seen
  BY <1>8, <1>9 DEF CandidateOK, Coordinators, d
<1>12. OrderOK(d) /\ TrackedOK(d) /\ ClosedOK(d)
  BY <1>9, <1>11 DEF CandidateOK, OrderOK, TrackedOK, ClosedOK
<1>13. SeenOK(d)
  BY <1>9, <1>11 DEF CandidateOK, SeenOK, Bars, Outstanding
<1>14. WatermarkOK(d)
  BY <1>9, <1>11 DEF WatermarkOK
<1>15. QED
  BY <1>10, <1>11, <1>12, <1>13, <1>14 DEF CandidateOK

-----------------------------------------------------------------------------
(* A loss keeps the invariant: the rejections that it reaches are barred.  *)
LEMMA InvalidatedPreserves ==
  ASSUME CoordinatorAssumption, NEW c, CandidateOK(c), WatermarkOK(c), NEW frame \in 0..MaxFrame
  PROVE  CandidateOK(Invalidated(c, frame)) /\ WatermarkOK(Invalidated(c, frame))
<1> DEFINE d == Invalidated(c, frame)
           boundary == IF frame > c.gapFrame THEN frame ELSE c.gapFrame
<1>0. Waiting # Tracking /\ Waiting # Gapped /\ Tracking # Gapped
  BY DEF Waiting, Tracking, Gapped
<1>1. c \in Coordinators /\ OrderOK(c) /\ TrackedOK(c) /\ ClosedOK(c) /\ SeenOK(c)
  BY DEF CandidateOK
<1>2. /\ d \in Coordinators
      /\ d.status = Gapped /\ d.gapFrame = boundary
      /\ d.active = c.active /\ d.retired = c.retired /\ d.seen = c.seen
      /\ d.unresolved = c.unresolved /\ d.pending = c.pending
      /\ d.watermark = c.watermark /\ d.lastProcessed = c.lastProcessed
      /\ d.accepted = NoBundle
      /\ d.closed = c.closed \cup ({c.active} \ {NoHand})
      /\ c.gappedHands \subseteq d.gappedHands
      /\ c.active # NoHand => c.active \in d.gappedHands
      /\ c.unknownHandBeforeGap \/ frame = NoFrame => d.unknownHandBeforeGap
      /\ \A r \in c.unresolved :
           r.frame <= boundary => d.unknownHandBeforeGap \/ r.hand \in d.gappedHands
  BY <1>1, InvalidatedFacts
<1>3. boundary \in Nat /\ c.gapFrame <= boundary /\ c.gapFrame \in Nat
      /\ \A r \in c.unresolved : r.frame \in Nat
  BY <1>1 DEF Coordinators, Rejections, Frames, CoordinatorAssumption
<1> HIDE DEF boundary, d
<1>4. OrderOK(d) /\ TrackedOK(d) /\ WatermarkOK(d)
  BY <1>0, <1>1, <1>2 DEF OrderOK, TrackedOK, WatermarkOK
<1>5. ClosedOK(d)
  BY <1>0, <1>1, <1>2 DEF ClosedOK
<1>6. SeenOK(d)
  <2> SUFFICES ASSUME NEW s \in d.seen PROVE Bars(d, s) \/ Outstanding(d, s)
    BY <1>2 DEF SeenOK
  <2>1. CASE c.status = Gapped /\ Bars(c, s)
    BY <1>2, <2>1 DEF Bars
  <2>2. CASE Outstanding(c, s)
    <3> DEFINE r == [frame |-> s.frame, hand |-> s.hand]
    <3>1. r \in c.unresolved /\ r.frame = s.frame /\ r.hand = s.hand
      BY <2>2 DEF Outstanding
    <3>2. s.frame \in Nat
      BY <1>3, <3>1
    <3>3. CASE s.frame <= boundary
      BY <1>2, <3>1, <3>3 DEF Bars
    <3>4. CASE s.frame > boundary
      BY <1>2, <3>1, <3>4 DEF Outstanding
    <3>5. QED
      BY <1>3, <3>2, <3>3, <3>4
  <2>3. QED
    BY <1>1, <1>2, <2>1, <2>2 DEF SeenOK
<1>7. QED
  BY <1>2, <1>4, <1>5, <1>6 DEF CandidateOK, d

(* Buffering a candidate that comes after the watermark.                   *)
LEMMA SubmittedPreserves ==
  ASSUME CoordinatorAssumption, NEW c, CandidateOK(c), WatermarkOK(c),
         NEW frame \in Frames, NEW snapshot \in Snapshots, CanSubmit(c, frame)
  PROVE  /\ CandidateOK(Submitted(c, frame, snapshot)) /\ WatermarkOK(Submitted(c, frame, snapshot))
<1> DEFINE p == [f \in DOMAIN c.pending \cup {frame} |-> IF f = frame THEN snapshot ELSE c.pending[f]]
           d == Submitted(c, frame, snapshot)
<1>1. c \in Coordinators /\ OrderOK(c) /\ TrackedOK(c) /\ ClosedOK(c) /\ SeenOK(c)
  BY DEF CandidateOK
<1>2. p \in Candidates /\ DOMAIN p = DOMAIN c.pending \cup {frame}
  <2>1. /\ DOMAIN c.pending \cup {frame} \in SUBSET Frames
        /\ \A f \in DOMAIN c.pending : c.pending[f] \in Snapshots
    BY <1>1 DEF Coordinators, Candidates
  <2>2. p \in [DOMAIN c.pending \cup {frame} -> Snapshots]
    BY <2>1
  <2>3. QED
    BY <2>1, <2>2 DEF Candidates
<1>3. d = [c EXCEPT !.pending = p]
  BY DEF Submitted
<1> HIDE DEF p, d
<1>4. /\ d \in Coordinators /\ d.pending = p /\ d.watermark = c.watermark
      /\ d.status = c.status /\ d.recorder = c.recorder /\ d.active = c.active
      /\ d.proven = c.proven /\ d.lastProcessed = c.lastProcessed
      /\ d.gapFrame = c.gapFrame /\ d.gappedHands = c.gappedHands
      /\ d.unknownHandBeforeGap = c.unknownHandBeforeGap /\ d.unresolved = c.unresolved
      /\ d.retired = c.retired /\ d.accepted = c.accepted /\ d.closed = c.closed
      /\ d.seen = c.seen
  BY <1>1, <1>2, <1>3 DEF Coordinators
<1>5. OrderOK(d) /\ TrackedOK(d) /\ ClosedOK(d) /\ WatermarkOK(d)
  BY <1>1, <1>2, <1>4 DEF OrderOK, TrackedOK, ClosedOK, WatermarkOK, CanSubmit
<1>6. SeenOK(d)
  BY <1>1, <1>4 DEF SeenOK, Bars, Outstanding
<1>7. QED
  BY <1>4, <1>5, <1>6 DEF CandidateOK, d

(* With nothing buffered, advancing only moves the watermark.              *)
LEMMA NothingConsumed ==
  ASSUME CoordinatorAssumption, NEW c, NEW after, IsLoop(after, c, MaxFrame),
         NEW through \in 0..MaxFrame, \A p \in DOMAIN c.pending : p > through,
         DOMAIN c.pending \in SUBSET Nat
  PROVE  after[through] = c
<1> DEFINE bad == {n \in 0..through : after[n] # c}
<1>1. SUFFICES ASSUME bad # {} PROVE FALSE
  BY DEF CoordinatorAssumption
<1>2. MaxFrame \in Nat /\ through \in Nat /\ bad \in SUBSET Nat
  BY DEF CoordinatorAssumption
<1>3. PICK n \in bad : \A j \in bad : n <= j
  <2> HIDE DEF bad
  <2>1. QED
    BY <1>1, <1>2, LeastMember
<1>4. n \in 1..MaxFrame /\ n <= through /\ n - 1 \in 0..through
  BY <1>2, <1>3 DEF IsLoop
<1>5. after[n] = after[n - 1]
  <2>1. n \notin DOMAIN c.pending
    BY <1>2, <1>4
  <2>2. QED
    BY <1>2, <1>4, <2>1 DEF IsLoop
<1>6. n - 1 \notin bad
  BY <1>2, <1>3, <1>4
<1>7. QED
  BY <1>3, <1>4, <1>5, <1>6

LEMMA IdleAdvance ==
  ASSUME CoordinatorAssumption, NEW c \in Coordinators, DOMAIN c.pending = {}, NEW frame \in Frames
  PROVE  Advanced(c, frame) = [c EXCEPT !.watermark = frame]
<1>1. PICK after : IsLoop(after, c, MaxFrame) /\ Consumed(c, frame) = after[frame]
  BY ConsumedIsLoop DEF Frames
<1>2. frame \in 0..MaxFrame
  BY DEF Frames, CoordinatorAssumption
<1>3. after[frame] = c
  BY <1>1, <1>2, NothingConsumed
<1>4. QED
  BY <1>1, <1>3 DEF Advanced

(* A frame decoded as a transient changes nothing else.                    *)
LEMMA TransientFacts ==
  ASSUME CoordinatorAssumption, NEW c, CandidateOK(c), WatermarkOK(c), DOMAIN c.pending = {},
         NEW frame \in Frames, frame >= c.watermark
  PROVE  LET d == Advanced(c, frame)
         IN  /\ CandidateOK(d) /\ WatermarkOK(d) /\ d.watermark = frame /\ d.pending = c.pending
             /\ Decided(d, c)
<1>1. c \in Coordinators
  BY DEF CandidateOK
<1>2. frame \in 0..MaxFrame
  BY DEF Frames, CoordinatorAssumption
<1>3. LET d == [c EXCEPT !.watermark = frame]
      IN  d.pending = c.pending /\ Decided(d, c)
  BY <1>1, <1>2 DEF Coordinators, Decided
<1>4. QED
  BY <1>1, <1>3, AdvancedFacts, IdleAdvance

(* What the status and the known loss of the record become.                *)
Unmoved(c, d) ==
  c.status = Gapped =>
    /\ d.status = Gapped /\ d.gapFrame = c.gapFrame
    /\ c.unknownHandBeforeGap => d.unknownHandBeforeGap

(* One frame submitted and decoded with nothing else buffered.             *)
LEMMA DecodedFacts ==
  ASSUME CoordinatorAssumption, NEW c, CandidateOK(c), WatermarkOK(c), DOMAIN c.pending = {},
         NEW frame \in Frames, NEW snapshot \in Snapshots, CanSubmit(c, frame)
  PROVE  LET submitted == Submitted(c, frame, snapshot)
             disposition == ProcessCandidate(submitted, frame, snapshot).disposition
             d == Advanced(submitted, frame)
         IN  /\ CandidateOK(d) /\ WatermarkOK(d) /\ d.watermark = frame /\ DOMAIN d.pending = {}
             /\ \/ /\ disposition = "accepted"
                   /\ d.status = Tracking /\ d.proven = frame /\ Follows(c, frame, d)
                \/ disposition = "rejected" /\ Unmoved(c, d)
                \/ disposition = "ignored_gapped_hand" /\ c.status = Gapped /\ Unmoved(c, d)
<1> DEFINE b == Submitted(c, frame, snapshot)
           result == ProcessCandidate(b, frame, snapshot)
           d == Advanced(b, frame)
<1>1. CandidateOK(b) /\ WatermarkOK(b) /\ b \in Coordinators
  BY SubmittedPreserves DEF CandidateOK
<1>2. /\ DOMAIN b.pending = {frame} /\ b.pending[frame] = snapshot /\ b.watermark = c.watermark
      /\ b.status = c.status /\ b.recorder = c.recorder /\ b.gapFrame = c.gapFrame
      /\ b.unknownHandBeforeGap = c.unknownHandBeforeGap
  <2> DEFINE p == [f \in DOMAIN c.pending \cup {frame} |-> IF f = frame THEN snapshot ELSE c.pending[f]]
  <2>1. DOMAIN p = {frame} /\ p[frame] = snapshot
    OBVIOUS
  <2>2. b = [c EXCEPT !.pending = p]
    BY DEF Submitted
  <2> HIDE DEF p, b
  <2>3. c \in Coordinators
    BY DEF CandidateOK
  <2>4. QED
    BY <2>1, <2>2, <2>3 DEF Coordinators
<1>3. frame \in Nat /\ frame > 0 /\ frame <= MaxFrame /\ MaxFrame \in Nat /\ c.watermark \in Nat
      /\ frame > c.watermark
  BY DEF Frames, CoordinatorAssumption, CandidateOK, Coordinators, CanSubmit
<1> HIDE DEF b
<1>4. PICK after : IsLoop(after, b, MaxFrame) /\ Consumed(b, frame) = after[frame]
  BY ConsumedIsLoop DEF Frames
<1>5. after[frame - 1] = b
  <2>1. frame - 1 \in 0..MaxFrame /\ (\A p \in DOMAIN b.pending : p > frame - 1)
        /\ DOMAIN b.pending \in SUBSET Nat
    BY <1>2, <1>3
  <2>2. QED
    BY <1>4, <2>1, NothingConsumed
<1> DEFINE e == ConsumeCandidate(b, frame)
<1>6. after[frame] = e
  BY <1>2, <1>3, <1>4, <1>5 DEF IsLoop
<1>7. /\ CandidateOK(e) /\ Decided(e, result.coord) /\ DOMAIN e.pending = {}
  <2>1. frame \in DOMAIN b.pending /\ \A p \in DOMAIN b.pending : p >= frame
    BY <1>2, <1>3
  <2>2. QED
    BY <1>1, <1>2, <2>1, ConsumeFacts
<1>8. CandidateOK(d) /\ WatermarkOK(d) /\ d.watermark = frame
  BY <1>1, <1>2, <1>3, AdvancedFacts
<1>9. DecisionOK(b, frame, snapshot, result)
  BY <1>1, CandidateDecision
<1>10. d = [e EXCEPT !.watermark = frame]
  BY <1>4, <1>6 DEF Advanced
<1> HIDE DEF d, e
<1>11. Decided(d, result.coord) /\ DOMAIN d.pending = {}
  BY <1>3, <1>7, <1>10 DEF CandidateOK, Coordinators, Decided
<1> HIDE DEF result
<1>12. \/ /\ result.disposition = "accepted"
          /\ d.status = Tracking /\ d.proven = frame /\ Follows(c, frame, d)
       \/ result.disposition = "rejected" /\ Unmoved(c, d)
       \/ result.disposition = "ignored_gapped_hand" /\ c.status = Gapped /\ Unmoved(c, d)
  <2>1. CASE result.disposition = "accepted"
    BY <1>2, <1>9, <1>11, <2>1 DEF DecisionOK, Decided, Follows
  <2>2. CASE result.disposition = "rejected"
    BY <1>2, <1>9, <1>11, <2>2 DEF DecisionOK, Decided, Undecided, Unmoved
  <2>3. CASE result.disposition = "ignored_gapped_hand"
    BY <1>2, <1>9, <1>11, <2>3 DEF DecisionOK, Decided, Undecided, Unmoved
  <2>4. QED
    BY <1>9, <2>1, <2>2, <2>3 DEF DecisionOK
<1>13. QED
  BY <1>8, <1>11, <1>12 DEF d, result, b

-----------------------------------------------------------------------------
LEMMA StepPreserves ==
  ASSUME CoordinatorAssumption PROVE IInv /\ [Next]_coord => IInv'
<1> SUFFICES ASSUME IInv, [Next]_coord PROVE IInv'
  OBVIOUS
<1> USE DEF IInv
<1>1. ASSUME NEW frame \in Frames, NEW snapshot \in Snapshots, SubmitCandidate(frame, snapshot)
      PROVE  IInv'
  BY <1>1, SubmittedPreserves DEF SubmitCandidate
<1>2. ASSUME NEW through \in Frames, AdvanceDecoderWatermark(through) PROVE IInv'
  BY <1>2, AdvancedFacts DEF AdvanceDecoderWatermark
<1>3. ASSUME NEW frame \in Frames \cup {NoFrame}, InvalidateGap(frame) PROVE IInv'
  <2>1. frame \in 0..MaxFrame
    BY DEF Frames, NoFrame, CoordinatorAssumption
  <2>2. QED
    BY <1>3, <2>1, InvalidatedPreserves DEF InvalidateGap
<1>4. CASE UNCHANGED coord
  BY <1>4
<1>5. QED
  BY <1>1, <1>2, <1>3, <1>4 DEF Next

(* The invariant holds under every order of calls.                         *)
THEOREM CoordinatorInvariant == ASSUME CoordinatorAssumption PROVE Spec => []IInv
<1>1. Init => IInv
  BY InitialFacts DEF Init, IInv
<1>2. IInv /\ [Next]_coord => IInv'
  BY StepPreserves
<1>3. QED
  BY <1>1, <1>2, PTL DEF Spec

(* The record keeps its fields, each of its type.                          *)
THEOREM CoordinatorTypeOK == ASSUME CoordinatorAssumption PROVE Spec => []TypeOK
<1>1. IInv => TypeOK
  BY DEF IInv, CandidateOK, TypeOK
<1>2. QED
  BY <1>1, CoordinatorInvariant, PTL

(* No order of candidates, watermarks and losses brings a hand back to     *)
(* latest_accepted_frame() after its transcript was cut off.               *)
THEOREM CoordinatorClosedHands ==
  ASSUME CoordinatorAssumption PROVE Spec => []ClosedHandNeverExposed
<1>1. IInv => ClosedHandNeverExposed
  BY DEF IInv, CandidateOK, TrackedOK, ClosedOK, ClosedHandNeverExposed, LatestAccepted,
         AcceptedIsCurrent
<1>2. QED
  BY <1>1, CoordinatorInvariant, PTL

(* What latest_accepted_frame() and readiness() give a reader is the       *)
(* newest decision, and they agree on it.                                  *)
THEOREM CoordinatorNewestDecision ==
  ASSUME CoordinatorAssumption PROVE Spec => []ExposedIsNewestDecision
<1>1. IInv => ExposedIsNewestDecision
  <2> SUFFICES ASSUME IInv PROVE ExposedIsNewestDecision
    OBVIOUS
  <2>1. ASSUME LatestAccepted(coord) # NoBundle
        PROVE  /\ coord.seen = {} /\ coord.pending = <<>>
               /\ LatestAccepted(coord).frame = coord.watermark
               /\ LatestAccepted(coord).snapshot.hand = coord.active
               /\ LatestAccepted(coord).snapshot.pos = coord.recorder.history.pos
    <3>1. AcceptedIsCurrent(coord) /\ LatestAccepted(coord) = coord.accepted
      BY <2>1 DEF LatestAccepted
    <3>2. coord.seen = {}
      <4>1. \A s \in coord.seen : s.frame > coord.proven /\ s.frame <= coord.proven
        <5>1. /\ coord.proven \in Nat /\ coord.lastProcessed \in Nat
              /\ \A s \in coord.seen : s.frame \in Nat
          BY DEF IInv, CandidateOK, Coordinators, Sightings, Frames
        <5>2. coord.lastProcessed <= coord.proven
          BY <3>1 DEF IInv, WatermarkOK, AcceptedIsCurrent
        <5>3. QED
          BY <3>1, <5>1, <5>2 DEF IInv, CandidateOK, OrderOK, AcceptedIsCurrent
      <4>2. \A s \in coord.seen : s.frame \in Nat
        BY DEF IInv, CandidateOK, Coordinators, Sightings, Frames
      <4>3. coord.proven \in Nat
        BY DEF IInv, CandidateOK, Coordinators
      <4>4. QED
        BY <4>1, <4>2, <4>3
    <3>3. QED
      BY <3>1, <3>2 DEF IInv, CandidateOK, TrackedOK, AcceptedIsCurrent
  <2>2. ASSUME NEW hand \in Hands, NEW frame \in Frames
        PROVE  IsReady(coord, hand, frame) <=>
                 /\ AcceptedIsCurrent(coord)
                 /\ coord.accepted.frame = frame
                 /\ coord.accepted.history.hand = hand
    BY DEF IInv, CandidateOK, TrackedOK, AcceptedIsCurrent, IsReady
  <2>3. QED
    BY <2>1, <2>2 DEF ExposedIsNewestDecision
<1>2. QED
  BY <1>1, CoordinatorInvariant, PTL

(* After a loss only a hand that nothing at or before it could belong to   *)
(* is accepted again.                                                      *)
THEOREM CoordinatorRecovery == ASSUME CoordinatorAssumption PROVE Spec => []RecoveryIsFresh
<1>1. IInv => RecoveryIsFresh
  <2> SUFFICES ASSUME IInv, coord.status = Gapped,
                      NEW frame \in coord.lastProcessed + 1 .. MaxFrame, NEW snapshot \in Snapshots,
                      ProcessGapped(coord, frame, snapshot).disposition = "accepted"
               PROVE  /\ frame > coord.gapFrame
                      /\ \A r \in coord.seen : r.frame <= coord.gapFrame =>
                           r.hand # snapshot.hand /\ (r.hand = NoHand => r.afterLoss)
    BY DEF RecoveryIsFresh, RecoversOnlyIf
  <2>1. /\ coord.gapFrame \in Nat /\ frame \in Nat
        /\ \A r \in coord.seen : r.frame \in Nat
    BY DEF IInv, CandidateOK, Coordinators, Sightings, Frames
  <2>2. /\ ~coord.unknownHandBeforeGap /\ snapshot.hand # NoHand
        /\ snapshot.hand \notin coord.gappedHands \cup coord.retired
        /\ ~(frame <= coord.gapFrame)
    <3> DEFINE barred == IF frame <= coord.gapFrame
                         THEN coord.gappedHands \cup Without({snapshot.hand}) ELSE coord.gappedHands
               unknown == coord.unknownHandBeforeGap
                            \/ (frame <= coord.gapFrame /\ snapshot.hand = NoHand)
               m == [coord EXCEPT !.gappedHands = barred, !.unknownHandBeforeGap = unknown]
    <3>1. m.gappedHands = barred /\ m.unknownHandBeforeGap = unknown /\ m.retired = coord.retired
      BY DEF IInv, CandidateOK, Coordinators
    <3>2. ~(m.unknownHandBeforeGap \/ snapshot.hand = NoHand
              \/ snapshot.hand \in m.gappedHands \cup m.retired \/ frame <= coord.gapFrame)
      <4>1. CASE \/ m.unknownHandBeforeGap \/ snapshot.hand = NoHand
                 \/ snapshot.hand \in m.gappedHands \cup m.retired \/ frame <= coord.gapFrame
        <5>1. ProcessGapped(coord, frame, snapshot) = IgnoredResult(m)
          BY <4>1 DEF ProcessGapped
        <5>2. IgnoredResult(m).disposition = "ignored_gapped_hand"
          BY DEF IgnoredResult, Result
        <5>3. QED
          BY <5>1, <5>2
      <4>2. QED
        BY <4>1
    <3> HIDE DEF m
    <3>3. QED
      BY <3>1, <3>2
  <2>3. ASSUME NEW r \in coord.seen, r.frame <= coord.gapFrame
        PROVE  r.hand # snapshot.hand /\ (r.hand = NoHand => r.afterLoss)
    <3>1. NoHand \notin coord.gappedHands \cup coord.retired
      BY DEF IInv, CandidateOK, Coordinators, CoordinatorAssumption
    <3>2. Bars(coord, r)
      <4>1. Bars(coord, r) \/ Outstanding(coord, r)
        BY DEF IInv, CandidateOK, SeenOK
      <4>2. r.frame \in Nat /\ ~(r.frame > coord.gapFrame)
        BY <2>1, <2>3
      <4>3. QED
        BY <4>1, <4>2 DEF Outstanding
    <3>3. QED
      BY <2>2, <3>1, <3>2 DEF Bars
  <2>4. QED
    BY <2>1, <2>2, <2>3
<1>2. QED
  BY <1>1, CoordinatorInvariant, PTL

=============================================================================
