---------------------- MODULE PublicHistoryWorkerProofs ----------------------
(***************************************************************************)
(* Proofs about PublicHistoryWorker for every capacity of the ring, every  *)
(* number of frames and hands and every interleaving of the capture        *)
(* thread, the worker and the shutdown: acknowledging loses nothing, no    *)
(* frame is decoded twice or late, and a caught-up reader sees a decoded   *)
(* history without a gap.                                                  *)
(***************************************************************************)
EXTENDS PublicHistoryWorker, SequenceTheorems, TLAPS

Proved == INSTANCE PublicHistoryCoordinatorProofs

(* The ring.  Both callers report a loss of one frame.                     *)
Lost(r) == gapEvents[r].last

RingOK ==
  /\ gapEvents \in Seq(Ring!CaptureGap)
  /\ \A r \in DOMAIN gapEvents : gapEvents[r].first = gapEvents[r].last
  /\ items \subseteq offered /\ offered \subseteq Frames
  /\ ackedThrough \in Nat /\ lastOffered \in Nat
  /\ \A f \in offered : f <= lastOffered
  /\ \A f \in items : f > ackedThrough
  /\ \A f \in offered : f > ackedThrough => f \in items \/ \E r \in DOMAIN gapEvents : Lost(r) = f

ProducerOK == captured \in 0..MaxFrame /\ held \subseteq Frames /\ toOffer \in Seq(Frames)

(* The worker's batch holds gaps past its cursor, and in its first part    *)
(* keyframes, all of them later than what was decoded.                     *)
GapOf(r) == GapItem([revision |-> r, gap |-> gapEvents[r]])
Batching == pc \in {"items", "lateGaps"}

CycleOK ==
  /\ consumed \in Nat /\ observed \in Nat /\ target \in Nat
  /\ observed <= Len(gapEvents)
  /\ InCycle => observed <= target /\ target <= Len(gapEvents)
  /\ pc \in {"ack", "late"} => observed = target
  /\ ~Batching => work = {}
  /\ \A item \in work :
       \/ \E r \in observed + 1 .. target : item = GapOf(r)
       \/ pc = "items" /\ \E f \in offered : item = KeyframeItem(f)
  /\ stopMode = "now" => runtime = "running"

DecodedOK ==
  /\ DOMAIN outcomes \subseteq offered
  /\ \A f \in DOMAIN outcomes : f <= consumed
  /\ \A item \in work : ~IsGap(item) => \A f \in DOMAIN outcomes : f < item.first

(* Nothing past the consumed cursor is forgotten while there is a batch.   *)
BatchOK ==
  pc = "items" =>
    \A f \in offered : f > consumed =>
      \/ KeyframeItem(f) \in work
      \/ \E r \in 1..target : Lost(r) = f
      \/ \A item \in work : ~IsGap(item) => item.first < f

(* The gaps applied to the coordinator.                                    *)
Processed == IF Batching THEN {r \in 1..target : GapOf(r) \notin work} ELSE 1..observed

(* Everything offered up to a cursor was decoded or is reached by a gap.   *)
Settled(through, revisions) ==
  /\ \A f \in offered :
       f <= through => f \in DOMAIN outcomes \/ \E r \in revisions : Lost(r) >= f
  /\ through = 0 \/ through \in DOMAIN outcomes \/ \E r \in revisions : Lost(r) = through

\* A stop without draining gave a batch up that had gaps left.
Abandoned == stopMode = "now" /\ ~InCycle /\ observed < Len(gapEvents)

CursorsOK ==
  /\ Abandoned \/ Settled(consumed, Processed)
  /\ ackedThrough <= consumed
  /\ Settled(ackedThrough, 1..observed)

AppliedOK ==
  \A r \in Processed :
    \/ coord.status = Coord!Gapped /\ coord.gapFrame >= Lost(r)
    \/ \E f \in DOMAIN outcomes : f > Lost(r) /\ outcomes[f] = "accepted"

(* The coordinator was given exactly what the worker decoded.              *)
Sound(c) == Proved!CandidateOK(c) /\ Proved!WatermarkOK(c) /\ DOMAIN c.pending = {}

TranscriptOK ==
  /\ Sound(coord)
  /\ coord.watermark = 0 \/ coord.watermark \in DOMAIN outcomes
  /\ coord.status # Coord!Gapped => \A f \in DOMAIN outcomes : f <= coord.watermark
  /\ coord.status = Coord!Tracking =>
       LET anchor == coord.recorder.history.anchor
       IN  /\ anchor \in DOMAIN outcomes
           /\ \A r \in Processed : Lost(r) < anchor
           /\ \A f \in DOMAIN outcomes : f >= anchor => outcomes[f] \in {"accepted", "transient"}

RevokedOK ==
  /\ poisoned => coord.status = Coord!Gapped
  /\ runtime \notin {"running", "revoking"} =>
       coord.status = Coord!Gapped /\ coord.unknownHandBeforeGap

IInv ==
  /\ RingOK /\ ProducerOK /\ CycleOK /\ DecodedOK /\ BatchOK /\ CursorsOK /\ AppliedOK
  /\ TranscriptOK /\ RevokedOK

-----------------------------------------------------------------------------
(* The coordinator's lemmas, carried over from PublicHistoryCoordinator-   *)
(* Proofs: the two instances define the same operators.                    *)
LEMMA Distinct == Proved!CoordinatorAssumption /\ MaxFrame \in Nat
BY WorkerAssumption DEF Coord!CoordinatorAssumption, Proved!CoordinatorAssumption

LEMMA SoundInit == Sound(Coord!NewCoordinator)
<1>1. Coord!NewCoordinator = Proved!NewCoordinator
  BY Zenon DEF Coord!NewCoordinator, Proved!NewCoordinator, Coord!NewRecorder,
     Proved!NewRecorder, Coord!NoHistory, Proved!NoHistory, Coord!NoFrame,
     Proved!NoFrame, Coord!NoBundle, Proved!NoBundle, Coord!Waiting,
     Proved!Waiting
<1>2. DOMAIN Proved!NewCoordinator.pending = {}
  BY DEF Proved!NewCoordinator
<1>3. QED
  BY <1>1, <1>2, Distinct, Proved!InitialFacts DEF Sound

LEMMA SoundFacts ==
  ASSUME NEW c, Sound(c) PROVE c.gapFrame \in Nat /\ c.watermark \in Nat
BY Distinct DEF Sound, Proved!CandidateOK, Proved!Coordinators

LEMMA LossFacts ==
  ASSUME NEW c, Sound(c), NEW frame \in 0..MaxFrame
  PROVE  LET d == Coord!Invalidated(c, frame)
         IN  /\ Sound(d) /\ d.status = Coord!Gapped /\ d.watermark = c.watermark
             /\ d.gapFrame >= c.gapFrame /\ d.gapFrame >= frame
             /\ c.unknownHandBeforeGap \/ frame = 0 => d.unknownHandBeforeGap
<1>1. Coord!Invalidated(c, frame) = Proved!Invalidated(c, frame)
  BY Zenon DEF Coord!Invalidated, Proved!Invalidated, Coord!Without,
     Proved!Without, Coord!Blocked, Proved!Blocked, Coord!NoFrame, Proved!NoFrame,
     Coord!NoBundle, Proved!NoBundle, Coord!Gapped, Proved!Gapped
<1>2. c \in Proved!Coordinators /\ c.gapFrame \in Nat /\ frame \in Nat
  BY Distinct, SoundFacts DEF Sound, Proved!CandidateOK
<1> DEFINE d == Proved!Invalidated(c, frame)
<1>3. Proved!CandidateOK(d) /\ Proved!WatermarkOK(d)
  BY Distinct, Proved!InvalidatedPreserves DEF Sound
<1>4. /\ d.status = Proved!Gapped /\ d.gapFrame = IF frame > c.gapFrame THEN frame ELSE c.gapFrame
      /\ d.pending = c.pending /\ d.watermark = c.watermark
      /\ c.unknownHandBeforeGap \/ frame = Proved!NoFrame => d.unknownHandBeforeGap
  BY <1>2, Distinct, Proved!InvalidatedFacts
<1> HIDE DEF d
<1>5. QED
  BY <1>1, <1>2, <1>3, <1>4 DEF Sound, d, Coord!Gapped, Proved!Gapped, Proved!NoFrame

LEMMA TransientFacts ==
  ASSUME NEW c, Sound(c), NEW frame \in Frames, frame >= c.watermark
  PROVE  LET d == Coord!Advanced(c, frame)
         IN  /\ Sound(d) /\ d.watermark = frame /\ d.status = c.status /\ d.recorder = c.recorder
             /\ d.gapFrame = c.gapFrame /\ d.unknownHandBeforeGap = c.unknownHandBeforeGap
<1>1. Coord!Advanced(c, frame) = Proved!Advanced(c, frame)
  BY Zenon DEF Coord!Frames, Proved!Frames, Coord!HandIds, Proved!HandIds,
     Coord!Snapshots, Proved!Snapshots, Coord!NoHistory, Proved!NoHistory,
     Coord!NoFrame, Proved!NoFrame, Coord!NewRecorder, Proved!NewRecorder,
     Coord!NoBundle, Proved!NoBundle, Coord!Waiting, Proved!Waiting,
     Coord!Tracking, Proved!Tracking, Coord!Gapped, Proved!Gapped,
     Coord!ReplacesHand, Proved!ReplacesHand, Coord!ProbeAccepted,
     Proved!ProbeAccepted, Coord!ProbeHistory, Proved!ProbeHistory, Coord!Commit,
     Proved!Commit, Coord!Blocked, Proved!Blocked, Coord!Without, Proved!Without,
     Coord!ReplaceWithWaitingRecorder, Proved!ReplaceWithWaitingRecorder,
     Coord!Accept, Proved!Accept, Coord!Result, Proved!Result,
     Coord!AcceptedResult, Proved!AcceptedResult, Coord!RejectedResult,
     Proved!RejectedResult, Coord!IgnoredResult, Proved!IgnoredResult,
     Coord!ProcessWaiting, Proved!ProcessWaiting, Coord!ProcessTracking,
     Proved!ProcessTracking, Coord!ProcessGapped, Proved!ProcessGapped,
     Coord!ProcessCandidate, Proved!ProcessCandidate, Coord!ConsumeCandidate,
     Proved!ConsumeCandidate, Coord!Rejection, Proved!Rejection, Coord!Sighting,
     Proved!Sighting, Coord!AfterKnownLoss, Proved!AfterKnownLoss, Coord!Consumed,
     Proved!Consumed, Coord!Advanced, Proved!Advanced
<1>2. frame \in Proved!Frames
  BY DEF Frames, Proved!Frames
<1> DEFINE d == Proved!Advanced(c, frame)
<1>3. /\ Proved!CandidateOK(d) /\ Proved!WatermarkOK(d) /\ d.watermark = frame
      /\ d.pending = c.pending /\ Proved!Decided(d, c)
  BY <1>2, Distinct, Proved!TransientFacts DEF Sound
<1> HIDE DEF d
<1>4. QED
  BY <1>1, <1>3 DEF Sound, Proved!Decided, d

(* What submitting a frame and advancing to it may come to.                *)
Unmoved(c, d) ==
  c.status = Coord!Gapped =>
    /\ d.status = Coord!Gapped /\ d.gapFrame = c.gapFrame
    /\ c.unknownHandBeforeGap => d.unknownHandBeforeGap

Begins(c, d, frame) ==
  /\ d.status = Coord!Tracking
  /\ \/ d.recorder.history.anchor = frame
     \/ c.status = Coord!Tracking /\ d.recorder.history.anchor = c.recorder.history.anchor
  /\ c.status = Coord!Gapped => frame > c.gapFrame /\ ~c.unknownHandBeforeGap

LEMMA DecodeFacts ==
  ASSUME NEW c, Sound(c), NEW frame \in Frames, NEW snapshot \in Coord!Snapshots,
         Coord!CanSubmit(c, frame)
  PROVE  LET submitted == Coord!Submitted(c, frame, snapshot)
             disposition == Coord!ProcessCandidate(submitted, frame, snapshot).disposition
             d == Coord!Advanced(submitted, frame)
         IN  /\ Sound(d) /\ d.watermark = frame
             /\ \/ disposition = "accepted" /\ Begins(c, d, frame)
                \/ disposition = "rejected" /\ Unmoved(c, d)
                \/ disposition = "ignored_gapped_hand" /\ c.status = Coord!Gapped /\ Unmoved(c, d)
<1>1. Coord!Submitted(c, frame, snapshot) = Proved!Submitted(c, frame, snapshot)
  BY Zenon DEF Coord!Submitted, Proved!Submitted
<1> DEFINE b == Proved!Submitted(c, frame, snapshot)
<1>2. Coord!Advanced(b, frame) = Proved!Advanced(b, frame)
  <2> HIDE DEF b
  <2>1. QED
    BY Zenon DEF Coord!Frames, Proved!Frames, Coord!HandIds, Proved!HandIds,
       Coord!Snapshots, Proved!Snapshots, Coord!NoHistory, Proved!NoHistory,
       Coord!NoFrame, Proved!NoFrame, Coord!NewRecorder, Proved!NewRecorder,
       Coord!NoBundle, Proved!NoBundle, Coord!Waiting, Proved!Waiting,
       Coord!Tracking, Proved!Tracking, Coord!Gapped, Proved!Gapped,
       Coord!ReplacesHand, Proved!ReplacesHand, Coord!ProbeAccepted,
       Proved!ProbeAccepted, Coord!ProbeHistory, Proved!ProbeHistory,
       Coord!Commit, Proved!Commit, Coord!Blocked, Proved!Blocked, Coord!Without,
       Proved!Without, Coord!ReplaceWithWaitingRecorder,
       Proved!ReplaceWithWaitingRecorder, Coord!Accept, Proved!Accept,
       Coord!Result, Proved!Result, Coord!AcceptedResult, Proved!AcceptedResult,
       Coord!RejectedResult, Proved!RejectedResult, Coord!IgnoredResult,
       Proved!IgnoredResult, Coord!ProcessWaiting, Proved!ProcessWaiting,
       Coord!ProcessTracking, Proved!ProcessTracking, Coord!ProcessGapped,
       Proved!ProcessGapped, Coord!ProcessCandidate, Proved!ProcessCandidate,
       Coord!ConsumeCandidate, Proved!ConsumeCandidate, Coord!Rejection,
       Proved!Rejection, Coord!Sighting, Proved!Sighting, Coord!AfterKnownLoss,
       Proved!AfterKnownLoss, Coord!Consumed, Proved!Consumed, Coord!Advanced,
       Proved!Advanced
<1>3. Coord!ProcessCandidate(b, frame, snapshot).disposition
        = Proved!ProcessCandidate(b, frame, snapshot).disposition
  <2> HIDE DEF b
  <2>1. QED
    BY Zenon DEF Coord!Frames, Proved!Frames, Coord!HandIds, Proved!HandIds,
       Coord!Snapshots, Proved!Snapshots, Coord!NoHistory, Proved!NoHistory,
       Coord!NoFrame, Proved!NoFrame, Coord!NewRecorder, Proved!NewRecorder,
       Coord!NoBundle, Proved!NoBundle, Coord!Waiting, Proved!Waiting,
       Coord!Tracking, Proved!Tracking, Coord!Gapped, Proved!Gapped,
       Coord!ReplacesHand, Proved!ReplacesHand, Coord!ProbeAccepted,
       Proved!ProbeAccepted, Coord!ProbeHistory, Proved!ProbeHistory,
       Coord!Commit, Proved!Commit, Coord!Blocked, Proved!Blocked, Coord!Without,
       Proved!Without, Coord!ReplaceWithWaitingRecorder,
       Proved!ReplaceWithWaitingRecorder, Coord!Accept, Proved!Accept,
       Coord!Result, Proved!Result, Coord!AcceptedResult, Proved!AcceptedResult,
       Coord!RejectedResult, Proved!RejectedResult, Coord!IgnoredResult,
       Proved!IgnoredResult, Coord!ProcessWaiting, Proved!ProcessWaiting,
       Coord!ProcessTracking, Proved!ProcessTracking, Coord!ProcessGapped,
       Proved!ProcessGapped, Coord!ProcessCandidate, Proved!ProcessCandidate
<1>4. frame \in Proved!Frames /\ snapshot \in Proved!Snapshots /\ Proved!CanSubmit(c, frame)
  BY DEF Frames, Proved!Frames, Coord!Snapshots, Proved!Snapshots, Coord!HandIds, Proved!HandIds,
     Coord!CanSubmit, Proved!CanSubmit
<1> DEFINE d == Proved!Advanced(b, frame)
           disposition == Proved!ProcessCandidate(b, frame, snapshot).disposition
<1>5. /\ Proved!CandidateOK(d) /\ Proved!WatermarkOK(d) /\ d.watermark = frame
      /\ DOMAIN d.pending = {}
      /\ \/ disposition = "accepted" /\ d.status = Proved!Tracking /\ Proved!Follows(c, frame, d)
         \/ disposition = "rejected" /\ Proved!Unmoved(c, d)
         \/ disposition = "ignored_gapped_hand" /\ c.status = Proved!Gapped /\ Proved!Unmoved(c, d)
  BY <1>4, Distinct, Proved!DecodedFacts DEF Sound
<1> HIDE DEF d, disposition, b
<1>6. Sound(d)
  BY <1>5 DEF Sound
<1>7. \/ disposition = "accepted" /\ Begins(c, d, frame)
      \/ disposition = "rejected" /\ Unmoved(c, d)
      \/ disposition = "ignored_gapped_hand" /\ c.status = Coord!Gapped /\ Unmoved(c, d)
  BY <1>5 DEF Begins, Unmoved, Proved!Follows, Proved!Unmoved, Coord!Gapped, Proved!Gapped,
     Coord!Tracking, Proved!Tracking
<1>8. QED
  BY <1>1, <1>2, <1>3, <1>5, <1>6, <1>7 DEF d, disposition, b

-----------------------------------------------------------------------------
(* Items of a batch are told apart by kind, revision and frame.            *)
LEMMA ItemFacts ==
  /\ \A r, q : GapOf(r) = GapOf(q) => r = q
  /\ \A r : IsGap(GapOf(r)) /\ GapOf(r).first = gapEvents[r].first /\ GapOf(r).last = Lost(r)
  /\ \A f : ~IsGap(KeyframeItem(f)) /\ KeyframeItem(f).first = f
BY DEF GapOf, GapItem, KeyframeItem, IsGap, Lost

(* Outside the loops over a batch every gap taken into account is applied, *)
(* and what the worker has observed is applied at any time.                *)
LEMMA ProcessedFacts ==
  ASSUME CycleOK
  PROVE  /\ Processed \subseteq 1..Len(gapEvents)
         /\ InCycle => 1..observed \subseteq Processed
         /\ ~Batching => Processed = 1..observed
<1>1. CASE ~Batching
  BY <1>1 DEF CycleOK, Processed
<1>2. CASE Batching
  <2>1. InCycle /\ observed <= target /\ target <= Len(gapEvents) /\ observed \in Nat /\ target \in Nat
    BY <1>2 DEF CycleOK, InCycle, Batching
  <2>2. ASSUME NEW r \in 1..observed PROVE GapOf(r) \notin work
    BY <2>1, ItemFacts DEF CycleOK
  <2>3. Processed = {r \in 1..target : GapOf(r) \notin work}
    BY <1>2 DEF Processed
  <2>4. Len(gapEvents) \in Nat
    BY <2>1 DEF CycleOK
  <2>5. QED
    BY <1>2, <2>1, <2>2, <2>3, <2>4
<1>3. QED
  BY <1>1, <1>2

LEMMA RingFacts ==
  ASSUME RingOK
  PROVE  /\ Len(gapEvents) \in Nat /\ DOMAIN gapEvents = 1..Len(gapEvents)
         /\ \A r \in 1..Len(gapEvents) :
              Lost(r) \in Nat /\ 1 <= Lost(r) /\ Lost(r) <= MaxFrame /\ gapEvents[r].first = Lost(r)
         /\ \A f \in offered : f \in Nat /\ 1 <= f /\ f <= MaxFrame
<1>1. Len(gapEvents) \in Nat /\ DOMAIN gapEvents = 1..Len(gapEvents)
  BY LenProperties DEF RingOK
<1>2. ASSUME NEW r \in 1..Len(gapEvents)
      PROVE  Lost(r) \in 1..MaxFrame /\ gapEvents[r].first = Lost(r)
  <2>1. gapEvents[r] \in Ring!CaptureGap
    BY <1>1, ElementOfSeq DEF RingOK
  <2>2. QED
    BY <1>1, <2>1 DEF RingOK, Ring!CaptureGap, Ring!Frames, Lost
<1>3. QED
  BY <1>1, <1>2, Distinct DEF RingOK, Frames

(* A step that neither reads a batch nor applies one: control moves, or a  *)
(* thread stops, and the worker does not enter a cycle.                    *)
Quiet ==
  /\ UNCHANGED <<ring, coord, consumed, observed, target, work, outcomes, poisoned>>
  /\ (pc' = "items") = (pc = "items") /\ (pc' = "lateGaps") = (pc = "lateGaps")
  /\ InCycle' = InCycle /\ (pc' \in {"ack", "late"} => pc \in {"ack", "late"})
  /\ stopMode = "now" => stopMode' = "now"

LEMMA QuietStep ==
  ASSUME IInv, Quiet, ProducerOK', (stopMode = "now" => runtime = "running")', RevokedOK'
  PROVE  IInv'
<1> USE DEF Quiet, ring
<1>1. /\ gapEvents' = gapEvents /\ work' = work /\ outcomes' = outcomes /\ coord' = coord
      /\ Batching' = Batching /\ InCycle' = InCycle /\ target' = target
      /\ consumed' = consumed /\ observed' = observed /\ offered' = offered
      /\ ackedThrough' = ackedThrough /\ lastOffered' = lastOffered /\ items' = items
  BY DEF Batching
<1>2. RingOK'
  BY <1>1 DEF IInv, RingOK, Lost
<1>3. CycleOK'
  BY <1>1 DEF IInv, CycleOK, GapOf
<1>4. DecodedOK'
  BY <1>1 DEF IInv, DecodedOK
<1>5. BatchOK'
  BY <1>1 DEF IInv, BatchOK, Lost
<1>6. Processed' = Processed
  BY <1>1 DEF Processed, GapOf
<1>7. CursorsOK'
  <2>1. Abandoned => Abandoned'
    BY <1>1 DEF Abandoned
  <2>2. QED
    BY <1>1, <1>6, <2>1 DEF IInv, CursorsOK, Settled, Lost
<1>8. AppliedOK'
  BY <1>1, <1>6 DEF IInv, AppliedOK, Lost
<1>9. TranscriptOK'
  BY <1>1, <1>6 DEF IInv, TranscriptOK, Lost
<1>10. QED
  BY <1>2, <1>3, <1>4, <1>5, <1>7, <1>8, <1>9 DEF IInv

(* A step of the capture thread: the ring takes a later keyframe or a gap. *)
Grows ==
  /\ UNCHANGED <<coord, pc, consumed, observed, target, work, outcomes, poisoned,
                 stopMode, runtime, ackedThrough>>
  /\ Len(gapEvents) <= Len(gapEvents')
  /\ \A r \in 1..Len(gapEvents) : gapEvents'[r] = gapEvents[r]
  /\ offered \subseteq offered'
  /\ \A f \in offered' \ offered : f > lastOffered

LEMMA GrowingStep ==
  ASSUME IInv, Grows, RingOK', ProducerOK' PROVE IInv'
<1> USE DEF Grows
<1>1. /\ work' = work /\ outcomes' = outcomes /\ coord' = coord /\ pc' = pc
      /\ Batching' = Batching /\ InCycle' = InCycle /\ target' = target
      /\ consumed' = consumed /\ observed' = observed /\ ackedThrough' = ackedThrough
      /\ stopMode' = stopMode /\ runtime' = runtime /\ poisoned' = poisoned
  BY DEF Batching, InCycle
<1> DEFINE N == Len(gapEvents)
<1>2. /\ N \in Nat /\ N' \in Nat /\ N <= N' /\ DOMAIN gapEvents = 1..N
      /\ \A r \in 1..N : Lost(r) \in Nat /\ Lost(r)' = Lost(r) /\ GapOf(r)' = GapOf(r)
  <2>1. RingOK
    BY DEF IInv
  <2>2. N \in Nat /\ DOMAIN gapEvents = 1..N /\ \A r \in 1..N : Lost(r) \in Nat
    BY <2>1, RingFacts
  <2>3. N' \in Nat
    BY LenProperties DEF RingOK
  <2>4. QED
    BY <2>2, <2>3 DEF Lost, GapOf
<1>3. Processed \subseteq 1..N /\ (InCycle => target <= N) /\ observed <= N
  BY ProcessedFacts DEF IInv, CycleOK
<1>4. Processed' = Processed
  <2>1. CASE Batching
    <3>1. Processed = {r \in 1..target : GapOf(r) \notin work}
      BY <2>1 DEF Processed
    <3>2. Processed' = {r \in 1..target : GapOf(r)' \notin work}
      BY <2>1, <1>1 DEF Processed
    <3>3. \A r \in 1..target : GapOf(r)' = GapOf(r)
      <4>1. InCycle /\ target \in Nat
        BY <2>1 DEF Batching, InCycle, IInv, CycleOK
      <4>2. QED
        BY <4>1, <1>2, <1>3
    <3>4. QED
      BY Zenon, <3>1, <3>2, <3>3
  <2>2. CASE ~Batching
    BY <2>2, <1>1 DEF Processed
  <2>3. QED
    BY <2>1, <2>2
<1>5. CycleOK'
  <2>1. \A item \in work' :
          \/ \E r \in observed' + 1 .. target' : item = GapOf(r)'
          \/ pc' = "items" /\ \E f \in offered' : item = KeyframeItem(f)
    <3> TAKE item \in work'
    <3>1. CASE \E r \in observed + 1 .. target : item = GapOf(r)
      <4>1. InCycle
        BY <1>1 DEF IInv, CycleOK, Batching, InCycle
      <4>2. \A r \in observed + 1 .. target : GapOf(r)' = GapOf(r)
        BY <4>1, <1>2, <1>3 DEF IInv, CycleOK
      <4>3. QED
        BY <3>1, <4>2, <1>1
    <3>2. CASE pc = "items" /\ \E f \in offered : item = KeyframeItem(f)
      BY <3>2, <1>1
    <3>3. QED
      BY <3>1, <3>2, <1>1 DEF IInv, CycleOK
  <2>2. QED
    BY <2>1, <1>1, <1>2 DEF IInv, CycleOK
<1>6. DecodedOK'
  BY <1>1 DEF IInv, DecodedOK
<1>7. ASSUME NEW f \in offered', f \notin offered
      PROVE  /\ f \in Nat /\ \A g \in offered : g \in Nat /\ g < f
             /\ \A g \in DOMAIN outcomes : g \in Nat /\ g < f
  BY <1>7 DEF IInv, RingOK, DecodedOK, Frames
<1>8. BatchOK'
  <2> SUFFICES ASSUME pc = "items", NEW f \in offered', f > consumed
               PROVE  \/ KeyframeItem(f) \in work
                      \/ \E r \in 1..target : Lost(r)' = f
                      \/ \A item \in work : ~IsGap(item) => item.first < f
    BY <1>1 DEF BatchOK
  <2>1. CASE f \in offered
    <3>1. InCycle /\ target \in Nat
      BY DEF InCycle, IInv, CycleOK
    <3>2. \A r \in 1..target : Lost(r)' = Lost(r)
      BY <3>1, <1>2, <1>3
    <3>3. QED
      BY <2>1, <3>2 DEF IInv, BatchOK
  <2>2. CASE f \notin offered
    <3>1. ASSUME NEW item \in work, ~IsGap(item) PROVE item.first < f
      BY <2>2, <3>1, <1>7, ItemFacts DEF IInv, CycleOK
    <3>2. QED
      BY <3>1
  <2>3. QED
    BY <2>1, <2>2
<1>9. ASSUME NEW through \in Nat, NEW S \in SUBSET (1..N), Settled(through, S)
      PROVE  Settled(through, S)'
  <2>1. \A r \in S : Lost(r)' = Lost(r) /\ Lost(r) \in Nat
    BY <1>2
  <2>2. ASSUME NEW f \in offered', f <= through
        PROVE  f \in DOMAIN outcomes \/ \E r \in S : Lost(r) >= f
    <3>1. CASE f \in offered
      BY <3>1, <2>2, <1>9 DEF Settled
    <3>2. CASE f \notin offered
      <4>1. f \in Nat /\ through # 0 /\ through \notin DOMAIN outcomes
        BY <3>2, <2>2, <1>7 DEF RingOK, Frames
      <4>2. PICK r \in S : Lost(r) = through
        BY <4>1, <1>9 DEF Settled
      <4>3. QED
        BY <4>1, <4>2, <2>1, <2>2
    <3>3. QED
      BY <3>1, <3>2
  <2>3. through = 0 \/ through \in DOMAIN outcomes \/ \E r \in S : Lost(r) = through
    BY <1>9 DEF Settled
  <2>4. QED
    BY <2>1, <2>2, <2>3, <1>1 DEF Settled
<1>10. CursorsOK'
  <2>1. Abandoned => Abandoned'
    BY <1>1, <1>2 DEF Abandoned, IInv, CycleOK
  <2>2. Settled(consumed, Processed) => Settled(consumed, Processed)'
    <3>1. Settled(consumed, Processed) =>
            \A S \in SUBSET (1..N) : S = Processed => Settled(consumed, S)'
      BY <1>9 DEF IInv, CycleOK
    <3>2. QED
      BY <3>1, <1>1, <1>3, <1>4 DEF Settled
  <2>3. Settled(ackedThrough, 1..observed)'
    <3>1. Settled(ackedThrough, 1..observed) => Settled(ackedThrough, 1..observed)'
      <4>1. 1..observed \in SUBSET (1..N) /\ ackedThrough \in Nat
        BY <1>2, <1>3 DEF IInv, CycleOK, RingOK
      <4>2. \A S \in SUBSET (1..N) :
              S = 1..observed /\ Settled(ackedThrough, S) => Settled(ackedThrough, S)'
        BY <1>9, <4>1
      <4>3. QED
        BY <4>1, <4>2, <1>1 DEF Settled
    <3>2. QED
      BY <3>1 DEF IInv, CursorsOK
  <2>4. QED
    BY <2>1, <2>2, <2>3, <1>1, <1>4 DEF IInv, CursorsOK, Settled
<1>11. AppliedOK'
  BY <1>1, <1>2, <1>3, <1>4 DEF IInv, AppliedOK
<1>12. TranscriptOK'
  BY <1>1, <1>2, <1>3, <1>4 DEF IInv, TranscriptOK
<1>13. RevokedOK'
  BY <1>1 DEF IInv, RevokedOK
<1>14. QED
  BY <1>5, <1>6, <1>8, <1>10, <1>11, <1>12, <1>13 DEF IInv

(* The ring's part of a step that leaves the ring alone.                   *)
LEMMA RingStays ==
  ASSUME UNCHANGED ring
  PROVE  /\ gapEvents' = gapEvents /\ offered' = offered /\ items' = items
         /\ ackedThrough' = ackedThrough /\ lastOffered' = lastOffered
         /\ \A r : Lost(r)' = Lost(r) /\ GapOf(r)' = GapOf(r)
         /\ RingOK => RingOK'
<1>1. /\ gapEvents' = gapEvents /\ offered' = offered /\ items' = items
      /\ ackedThrough' = ackedThrough /\ lastOffered' = lastOffered
  BY DEF ring
<1>2. \A r : Lost(r)' = Lost(r) /\ GapOf(r)' = GapOf(r)
  BY <1>1 DEF Lost, GapOf
<1>3. RingOK => RingOK'
  BY <1>1 DEF RingOK, Lost
<1>4. QED
  BY <1>1, <1>2, <1>3

(* The batch is read, and everything past the cursor is in it or declared. *)
LEMMA StartCycleStep == ASSUME IInv, StartCycle PROVE IInv'
<1> USE DEF StartCycle
<1>1. UNCHANGED ring /\ UNCHANGED <<coord, consumed, observed, outcomes, stopMode, runtime, poisoned>>
  BY DEF cursors, stops
<1>2. /\ gapEvents' = gapEvents /\ offered' = offered /\ ackedThrough' = ackedThrough
      /\ \A r : Lost(r)' = Lost(r) /\ GapOf(r)' = GapOf(r)
      /\ RingOK'
  BY <1>1, RingStays DEF IInv
<1> DEFINE N == Len(gapEvents)
<1>3. /\ N \in Nat /\ DOMAIN gapEvents = 1..N /\ observed \in Nat /\ observed <= N
      /\ consumed \in Nat /\ target' = N /\ pc = "loop" /\ pc' = "items" /\ stopMode # "now"
      /\ \A f \in offered : f \in Nat
  BY RingFacts DEF IInv, CycleOK, Ring!gapRevision
<1>4. work' = {GapOf(r) : r \in observed + 1 .. N} \cup {KeyframeItem(f) : f \in {g \in items : g > consumed}}
  <2>1. {GapItem(e) : e \in Ring!BatchGapEvents(observed)} = {GapOf(r) : r \in observed + 1 .. N}
    BY DEF Ring!BatchGapEvents, Ring!gapRevision, GapOf
  <2>2. QED
    BY <2>1 DEF BatchItems, Ring!BatchKeyframes, Ring!Unacked
<1>5. \A r \in 1..N : GapOf(r) \in work' <=> r > observed
  <2> TAKE r \in 1..N
  <2>1. GapOf(r) \in work' => \E q \in observed + 1 .. N : GapOf(r) = GapOf(q)
    BY <1>4, ItemFacts
  <2>2. r > observed => GapOf(r) \in work'
    BY <1>3, <1>4
  <2>3. QED
    BY <2>1, <2>2, <1>3, ItemFacts
<1>6. Processed = 1..observed /\ Processed' = Processed
  <2>1. Processed = 1..observed
    BY <1>3 DEF Processed, Batching
  <2>2. Processed' = {r \in 1..N : GapOf(r) \notin work'}
    BY <1>2, <1>3 DEF Processed, Batching
  <2>3. QED
    BY <2>1, <2>2, <1>3, <1>5
<1>7. CycleOK'
  <2>1. \A item \in work' :
          \/ \E r \in observed + 1 .. N : item = GapOf(r)
          \/ \E f \in offered : item = KeyframeItem(f)
    BY <1>4 DEF IInv, RingOK
  <2>2. \A item \in work' :
          \/ \E r \in observed' + 1 .. target' : item = GapOf(r)'
          \/ pc' = "items" /\ \E f \in offered' : item = KeyframeItem(f)
    BY <2>1, <1>1, <1>2, <1>3
  <2>3. QED
    BY <2>2, <1>1, <1>2, <1>3 DEF IInv, CycleOK, Batching, InCycle
<1>8. DecodedOK'
  <2>1. \A item \in work' : ~IsGap(item) => \A f \in DOMAIN outcomes : f < item.first
    <3> SUFFICES ASSUME NEW item \in work', ~IsGap(item), NEW f \in DOMAIN outcomes
                 PROVE  f < item.first
      OBVIOUS
    <3>1. PICK g \in items : g > consumed /\ item = KeyframeItem(g)
      BY <1>4, ItemFacts
    <3>2. g \in Nat /\ f \in Nat /\ f <= consumed /\ item.first = g
      BY <3>1, <1>3, ItemFacts DEF IInv, RingOK, DecodedOK
    <3>3. QED
      BY <3>1, <3>2, <1>3
  <2>2. QED
    BY <2>1, <1>1, <1>2 DEF IInv, DecodedOK
<1>9. BatchOK'
  <2>1. ASSUME NEW f \in offered, f > consumed
        PROVE  KeyframeItem(f) \in work' \/ \E r \in 1..N : Lost(r) = f
    <3>1. f > ackedThrough
      BY <2>1, <1>3 DEF IInv, CursorsOK, RingOK
    <3>2. QED
      BY <3>1, <2>1, <1>3, <1>4 DEF IInv, RingOK
  <2>2. QED
    BY <2>1, <1>1, <1>2, <1>3 DEF BatchOK
<1>10. CursorsOK'
  <2>1. ~Abandoned
    BY <1>3 DEF Abandoned
  <2>2. QED
    BY <2>1, <1>1, <1>2, <1>6 DEF IInv, CursorsOK, Settled
<1>11. AppliedOK'
  BY <1>1, <1>2, <1>6 DEF IInv, AppliedOK
<1>12. TranscriptOK'
  BY <1>1, <1>2, <1>6 DEF IInv, TranscriptOK
<1>13. RevokedOK'
  BY <1>1 DEF IInv, RevokedOK
<1>14. ProducerOK'
  BY DEF IInv, ProducerOK, producer
<1>15. QED
  BY <1>2, <1>7, <1>8, <1>9, <1>10, <1>11, <1>12, <1>13, <1>14 DEF IInv

(* A gap of the batch is applied: the coordinator knows of the loss, and   *)
(* the gap reaches whatever the cursor moved over.                         *)
LEMMA ApplyGapStep ==
  ASSUME IInv, Batching, NEW gap \in work, ApplyGap(gap) PROVE IInv'
<1> USE DEF ApplyGap
<1>1. /\ UNCHANGED ring
      /\ UNCHANGED <<observed, target, outcomes, stopMode, runtime, poisoned, pc>>
  BY DEF stops
<1>2. /\ gapEvents' = gapEvents /\ offered' = offered /\ ackedThrough' = ackedThrough
      /\ \A r : Lost(r)' = Lost(r) /\ GapOf(r)' = GapOf(r)
      /\ RingOK'
  BY <1>1, RingStays DEF IInv
<1> DEFINE N == Len(gapEvents)
<1>3. /\ N \in Nat /\ observed \in Nat /\ target \in Nat /\ observed <= target /\ target <= N
      /\ consumed \in Nat /\ ackedThrough \in Nat /\ InCycle
      /\ \A f \in offered : f \in Nat
      /\ \A r \in 1..N : Lost(r) \in Nat /\ Lost(r) \in 0..MaxFrame
  BY RingFacts, Distinct DEF IInv, CycleOK, RingOK, InCycle, Batching
<1>4. PICK q \in observed + 1 .. target : gap = GapOf(q)
  BY ItemFacts DEF IInv, CycleOK
<1>5. /\ q \in 1..target /\ q \in 1..N /\ gap.last = Lost(q)
      /\ Lost(q) \in Nat /\ Lost(q) \in 0..MaxFrame
  BY <1>3, <1>4, ItemFacts
<1>6. /\ work' = work \ {gap}
      /\ consumed' \in Nat /\ consumed' >= consumed /\ consumed' >= Lost(q)
      /\ consumed' \in {consumed, Lost(q)}
  BY <1>3, <1>5 DEF Larger
<1>7. Processed' = Processed \cup {q}
  <2>1. Processed = {r \in 1..target : GapOf(r) \notin work}
    BY DEF Processed
  <2>2. Processed' = {r \in 1..target : GapOf(r) \notin work \ {gap}}
    BY <1>1, <1>2, <1>6 DEF Processed, Batching
  <2>3. \A r \in 1..target : GapOf(r) \notin work \ {gap} <=> GapOf(r) \notin work \/ r = q
    BY <1>4, ItemFacts
  <2>4. QED
    BY Zenon, <2>1, <2>2, <2>3, <1>5
<1>8. /\ Sound(coord') /\ coord'.status = Coord!Gapped /\ coord'.watermark = coord.watermark
      /\ coord'.gapFrame >= coord.gapFrame /\ coord'.gapFrame >= Lost(q)
      /\ coord.unknownHandBeforeGap => coord'.unknownHandBeforeGap
      /\ coord'.gapFrame \in Nat /\ coord.gapFrame \in Nat
  <2>1. coord' = Coord!Invalidated(coord, Lost(q)) /\ Sound(coord)
    BY <1>5 DEF IInv, TranscriptOK
  <2>2. QED
    BY <2>1, <1>5, LossFacts, SoundFacts
<1>9. CycleOK'
  <2>1. \A item \in work' :
          \/ \E r \in observed' + 1 .. target' : item = GapOf(r)'
          \/ pc' = "items" /\ \E f \in offered' : item = KeyframeItem(f)
    BY <1>1, <1>2, <1>6 DEF IInv, CycleOK
  <2>2. QED
    BY <2>1, <1>1, <1>2, <1>3, <1>6 DEF IInv, CycleOK, Batching, InCycle
<1>10. DecodedOK'
  <2>1. \A f \in DOMAIN outcomes : f <= consumed'
    BY <1>3, <1>6 DEF IInv, DecodedOK
  <2>2. QED
    BY <2>1, <1>1, <1>2, <1>6 DEF IInv, DecodedOK
<1>11. BatchOK'
  <2> SUFFICES ASSUME pc = "items", NEW f \in offered, f > consumed'
               PROVE  \/ KeyframeItem(f) \in work'
                      \/ \E r \in 1..target : Lost(r) = f
                      \/ \A item \in work' : ~IsGap(item) => item.first < f
    BY <1>1, <1>2 DEF BatchOK
  <2>1. f > consumed /\ KeyframeItem(f) # gap
    BY <1>3, <1>4, <1>6, ItemFacts
  <2>2. QED
    BY <2>1, <1>6 DEF IInv, BatchOK
<1>12. CursorsOK'
  <2>1. Settled(consumed, Processed)
    BY <1>3 DEF Abandoned, IInv, CursorsOK
  <2>2. ASSUME NEW f \in offered, f <= consumed'
        PROVE  f \in DOMAIN outcomes \/ \E r \in Processed' : Lost(r) >= f
    <3>1. CASE f <= consumed
      BY <3>1, <2>1, <1>7 DEF Settled
    <3>2. CASE f <= Lost(q)
      BY <3>2, <1>3, <1>5, <1>7
    <3>3. QED
      BY <2>2, <3>1, <3>2, <1>6
  <2>3. consumed' = 0 \/ consumed' \in DOMAIN outcomes \/ \E r \in Processed' : Lost(r) = consumed'
    BY <2>1, <1>6, <1>7 DEF Settled
  <2>4. Settled(consumed, Processed)'
    BY <2>2, <2>3, <1>1, <1>2 DEF Settled
  <2>5. Settled(ackedThrough, 1..observed)'
    BY <1>1, <1>2 DEF IInv, CursorsOK, Settled
  <2>6. QED
    BY <2>4, <2>5, <1>2, <1>3, <1>6 DEF IInv, CursorsOK
<1>13. AppliedOK'
  <2> SUFFICES ASSUME NEW r \in Processed'
               PROVE  \/ coord'.status = Coord!Gapped /\ coord'.gapFrame >= Lost(r)
                      \/ \E f \in DOMAIN outcomes : f > Lost(r) /\ outcomes[f] = "accepted"
    BY <1>1, <1>2 DEF AppliedOK
  <2>1. CASE r = q
    BY <2>1, <1>8
  <2>2. CASE r \in Processed
    <3>1. Lost(r) \in Nat
      BY <2>2, <1>3, ProcessedFacts DEF IInv
    <3>2. QED
      BY <2>2, <3>1, <1>8 DEF IInv, AppliedOK
  <2>3. QED
    BY <2>1, <2>2, <1>7
<1>14. TranscriptOK'
  <2>1. Coord!Gapped # Coord!Tracking
    BY DEF Coord!Gapped, Coord!Tracking
  <2>2. QED
    BY <2>1, <1>1, <1>8 DEF IInv, TranscriptOK
<1>15. RevokedOK'
  BY <1>1, <1>8 DEF IInv, RevokedOK
<1>16. ProducerOK'
  BY DEF IInv, ProducerOK, producer
<1>17. QED
  BY <1>2, <1>9, <1>10, <1>11, <1>12, <1>13, <1>14, <1>15, <1>16 DEF IInv

(* What decoding the next frame of the batch does to the coordinator.      *)
Kept(c, d) ==
  c.status = Coord!Gapped =>
    /\ d.status = Coord!Gapped /\ d.gapFrame >= c.gapFrame
    /\ c.unknownHandBeforeGap => d.unknownHandBeforeGap

Decodes(frame) ==
  \/ ~poisoned /\ DecodeObservation(frame)
  \/ ~poisoned /\ DecodeTransient(frame)
  \/ DecodeFails(frame)

LEMMA DecodeStep ==
  ASSUME Sound(coord), NEW frame \in Frames, frame >= coord.watermark, Decodes(frame)
  PROVE  \E outcome :
           /\ outcomes' = Recorded(frame, outcome) /\ Sound(coord')
           /\ coord'.watermark \in {frame, coord.watermark}
           /\ coord'.status # Coord!Gapped => coord'.watermark = frame /\ ~poisoned'
           /\ \/ outcome = "accepted" /\ Begins(coord, coord', frame)
              \/ /\ outcome = "transient" /\ Kept(coord, coord')
                 /\ coord'.status = coord.status /\ coord'.recorder = coord.recorder
              \/ coord'.status = Coord!Gapped /\ Kept(coord, coord')
<1>1. frame \in 0..MaxFrame /\ frame \in Nat /\ coord.gapFrame \in Nat
  BY Distinct, SoundFacts DEF Frames
<1>2. CASE ~poisoned /\ DecodeObservation(frame)
  <2>1. PICK snapshot \in Coord!Snapshots :
          LET submitted == Coord!Submitted(coord, frame, snapshot)
              disposition == Coord!ProcessCandidate(submitted, frame, snapshot).disposition
              advanced == Coord!Advanced(submitted, frame)
          IN  /\ Coord!CanSubmit(coord, frame)
              /\ coord' = IF disposition = "rejected"
                          THEN Coord!Invalidated(advanced, frame) ELSE advanced
              /\ outcomes' = Recorded(frame, disposition)
              /\ UNCHANGED poisoned
    BY <1>2 DEF DecodeObservation
  <2> DEFINE submitted == Coord!Submitted(coord, frame, snapshot)
             disposition == Coord!ProcessCandidate(submitted, frame, snapshot).disposition
             advanced == Coord!Advanced(submitted, frame)
  <2>2. /\ Sound(advanced) /\ advanced.watermark = frame
        /\ \/ disposition = "accepted" /\ Begins(coord, advanced, frame)
           \/ disposition = "rejected" /\ Unmoved(coord, advanced)
           \/ /\ disposition = "ignored_gapped_hand" /\ coord.status = Coord!Gapped
              /\ Unmoved(coord, advanced)
    BY <2>1, DecodeFacts
  <2>3. /\ coord' = IF disposition = "rejected"
                    THEN Coord!Invalidated(advanced, frame) ELSE advanced
        /\ outcomes' = Recorded(frame, disposition) /\ poisoned' = poisoned
    BY <2>1
  <2> HIDE DEF advanced, disposition, submitted
  <2>4. CASE disposition = "rejected"
    <3>1. /\ Sound(coord') /\ coord'.status = Coord!Gapped /\ coord'.watermark = frame
          /\ coord'.gapFrame >= advanced.gapFrame
          /\ advanced.unknownHandBeforeGap => coord'.unknownHandBeforeGap
      BY <2>2, <2>3, <2>4, <1>1, LossFacts
    <3>2. Kept(coord, coord')
      BY <3>1, <2>2, <2>4 DEF Kept, Unmoved
    <3>3. QED
      BY <3>1, <3>2, <2>3
  <2>5. CASE disposition # "rejected"
    <3>1. coord' = advanced
      BY <2>3, <2>5
    <3>2. Unmoved(coord, coord') => Kept(coord, coord')
      BY <1>1 DEF Unmoved, Kept
    <3>3. CASE disposition = "accepted"
      BY <3>1, <3>3, <2>2, <2>3, <1>2
    <3>4. CASE disposition # "accepted"
      <4>1. Unmoved(coord, coord') /\ coord'.status = Coord!Gapped
        BY <3>1, <3>4, <2>5, <2>2 DEF Unmoved
      <4>2. QED
        BY <3>1, <3>2, <4>1, <2>2, <2>3
    <3>5. QED
      BY <3>3, <3>4
  <2>6. QED
    BY <2>4, <2>5
<1>3. CASE ~poisoned /\ DecodeTransient(frame)
  <2>1. /\ Sound(coord') /\ coord'.watermark = frame /\ coord'.status = coord.status
        /\ coord'.recorder = coord.recorder /\ coord'.gapFrame = coord.gapFrame
        /\ coord'.unknownHandBeforeGap = coord.unknownHandBeforeGap
    BY <1>3, TransientFacts DEF DecodeTransient
  <2>2. Kept(coord, coord')
    BY <2>1, <1>1 DEF Kept
  <2>3. QED
    BY <2>1, <2>2, <1>3 DEF DecodeTransient
<1>4. CASE DecodeFails(frame)
  <2>1. /\ Sound(coord') /\ coord'.status = Coord!Gapped /\ coord'.watermark = coord.watermark
        /\ coord'.gapFrame >= coord.gapFrame
        /\ coord.unknownHandBeforeGap => coord'.unknownHandBeforeGap
    BY <1>4, <1>1, LossFacts DEF DecodeFails
  <2>2. Kept(coord, coord')
    BY <2>1 DEF Kept
  <2>3. QED
    BY <2>1, <2>2, <1>4 DEF DecodeFails
<1>5. QED
  BY <1>2, <1>3, <1>4 DEF Decodes

(* A keyframe of the batch is decoded: the sort puts it after every gap    *)
(* and keyframe that the cursor jumps over.                                *)
LEMMA ProcessKeyframeStep == ASSUME IInv, ProcessKeyframe PROVE IInv'
<1>1. /\ UNCHANGED ring /\ pc = "items" /\ stopMode # "now"
      /\ UNCHANGED <<observed, target, stopMode, runtime, pc>>
  BY DEF ProcessKeyframe, stops
<1>2. /\ gapEvents' = gapEvents /\ offered' = offered /\ ackedThrough' = ackedThrough
      /\ \A r : Lost(r)' = Lost(r) /\ GapOf(r)' = GapOf(r)
      /\ RingOK'
  BY <1>1, RingStays DEF IInv
<1>3. PICK item \in work :
        /\ IsNext(item) /\ ~IsGap(item)
        /\ Decodes(item.first)
        /\ consumed' = Larger(consumed, item.first)
        /\ work' = work \ {item}
  BY DEF ProcessKeyframe, Decodes
<1> DEFINE N == Len(gapEvents)
           frame == item.first
<1>4. /\ N \in Nat /\ observed \in Nat /\ target \in Nat /\ observed <= target /\ target <= N
      /\ consumed \in Nat /\ ackedThrough \in Nat /\ InCycle /\ Batching
      /\ \A f \in offered : f \in Nat
      /\ \A r \in 1..N : Lost(r) \in Nat /\ gapEvents[r].first = Lost(r)
  BY <1>1, RingFacts DEF IInv, CycleOK, RingOK, InCycle, Batching
<1>5. frame \in offered /\ item = KeyframeItem(frame)
  BY <1>3, ItemFacts DEF IInv, CycleOK
<1>6. frame \in Nat /\ frame \in Frames /\ frame # 0
  BY <1>4, <1>5 DEF IInv, RingOK, Frames
<1>7. consumed' \in Nat /\ consumed' >= consumed /\ consumed' >= frame /\ consumed' \in {consumed, frame}
  BY <1>3, <1>4, <1>6 DEF Larger
<1>8. \A g \in DOMAIN outcomes : g \in Nat /\ g < frame /\ g # frame
  BY <1>3, <1>4, <1>6 DEF IInv, DecodedOK
<1>9. Processed' = Processed /\ Processed = {r \in 1..target : GapOf(r) \notin work}
  <2>1. Processed = {r \in 1..target : GapOf(r) \notin work}
    BY <1>4 DEF Processed
  <2>2. Processed' = {r \in 1..target : GapOf(r) \notin work \ {item}}
    BY <1>1, <1>2, <1>3, <1>4 DEF Processed, Batching
  <2>3. \A r : GapOf(r) # item
    BY <1>3, ItemFacts
  <2>4. QED
    BY Zenon, <2>1, <2>2, <2>3
<1>10. /\ Sound(coord)
       /\ coord.watermark = 0 \/ coord.watermark \in DOMAIN outcomes
       /\ coord.watermark \in Nat /\ coord.gapFrame \in Nat
  BY SoundFacts DEF IInv, TranscriptOK
<1>11. PICK outcome :
         /\ outcomes' = Recorded(frame, outcome) /\ Sound(coord')
         /\ coord'.watermark \in {frame, coord.watermark}
         /\ coord'.status # Coord!Gapped => coord'.watermark = frame /\ ~poisoned'
         /\ \/ outcome = "accepted" /\ Begins(coord, coord', frame)
            \/ /\ outcome = "transient" /\ Kept(coord, coord')
               /\ coord'.status = coord.status /\ coord'.recorder = coord.recorder
            \/ coord'.status = Coord!Gapped /\ Kept(coord, coord')
  <2>1. frame >= coord.watermark
    BY <1>6, <1>8, <1>10
  <2>2. QED
    BY <2>1, <1>3, <1>6, <1>10, DecodeStep
<1>12. /\ DOMAIN outcomes' = DOMAIN outcomes \cup {frame} /\ outcomes'[frame] = outcome
       /\ \A g \in DOMAIN outcomes : outcomes'[g] = outcomes[g]
  BY <1>8, <1>11 DEF Recorded
<1>13. CycleOK'
  <2>1. \A other \in work' :
          \/ \E r \in observed' + 1 .. target' : other = GapOf(r)'
          \/ pc' = "items" /\ \E f \in offered' : other = KeyframeItem(f)
    BY <1>1, <1>2, <1>3 DEF IInv, CycleOK
  <2>2. QED
    BY <2>1, <1>1, <1>2, <1>4, <1>7 DEF IInv, CycleOK, Batching, InCycle
<1>14. DecodedOK'
  <2>1. \A f \in DOMAIN outcomes' : f \in offered /\ f <= consumed'
    BY <1>4, <1>5, <1>7, <1>12 DEF IInv, DecodedOK
  <2>2. ASSUME NEW other \in work', ~IsGap(other), NEW f \in DOMAIN outcomes'
        PROVE  f < other.first
    <3>1. CASE f \in DOMAIN outcomes
      BY <3>1, <2>2, <1>3 DEF IInv, DecodedOK
    <3>2. CASE f = frame
      <4>1. PICK g \in offered : other = KeyframeItem(g)
        BY <2>2, <1>3, ItemFacts DEF IInv, CycleOK
      <4>2. Before(item, other)
        BY <1>3, <2>2 DEF IsNext
      <4>3. g > frame /\ other.first = g
        BY <4>1, <4>2, <1>4, <1>5, <1>6 DEF Before, KeyframeItem
      <4>4. QED
        BY <3>2, <4>3, <1>4, <1>6
    <3>3. QED
      BY <2>2, <3>1, <3>2, <1>12
  <2>3. QED
    BY <2>1, <2>2, <1>2 DEF DecodedOK
<1>15. BatchOK'
  <2> SUFFICES ASSUME NEW f \in offered, f > consumed'
               PROVE  \/ KeyframeItem(f) \in work'
                      \/ \E r \in 1..target : Lost(r) = f
                      \/ \A other \in work' : ~IsGap(other) => other.first < f
    BY <1>1, <1>2 DEF BatchOK
  <2>1. f > consumed /\ f # frame /\ KeyframeItem(f) # item
    BY <1>4, <1>5, <1>6, <1>7, ItemFacts
  <2>2. QED
    BY <2>1, <1>1, <1>3 DEF IInv, BatchOK
<1>16. CursorsOK'
  <2>1. Settled(consumed, Processed)
    BY <1>4 DEF Abandoned, IInv, CursorsOK
  <2>2. ASSUME NEW f \in offered, f <= consumed'
        PROVE  f \in DOMAIN outcomes' \/ \E r \in Processed : Lost(r) >= f
    <3>1. CASE f <= consumed
      BY <3>1, <2>1, <1>12 DEF Settled
    <3>2. CASE f = frame
      BY <3>2, <1>12
    <3>3. CASE f > consumed /\ f < frame
      <4>1. KeyframeItem(f) \notin work
        <5>1. ~Before(item, KeyframeItem(f)) /\ KeyframeItem(f) # item
          BY <3>3, <1>4, <1>5, <1>6 DEF Before, KeyframeItem
        <5>2. QED
          BY <5>1, <1>3 DEF IsNext
      <4>2. PICK r \in 1..target : Lost(r) = f
        BY <4>1, <3>3, <1>1, <1>3, <1>4, <1>6 DEF IInv, BatchOK
      <4>3. GapOf(r) \notin work
        <5>1. GapOf(r).first = f
          BY <4>2, <1>4, ItemFacts
        <5>2. ~Before(item, GapOf(r)) /\ GapOf(r) # item
          BY <5>1, <3>3, <1>3, <1>4, <1>6, ItemFacts DEF Before
        <5>3. QED
          BY <5>2, <1>3 DEF IsNext
      <4>4. r \in Processed /\ Lost(r) >= f
        BY <4>2, <4>3, <1>4, <1>9
      <4>5. QED
        BY <4>4
    <3>4. QED
      BY <2>2, <3>1, <3>2, <3>3, <1>4, <1>6, <1>7
  <2>3. consumed' = 0 \/ consumed' \in DOMAIN outcomes' \/ \E r \in Processed : Lost(r) = consumed'
    BY <2>1, <1>7, <1>12 DEF Settled
  <2>4. Settled(consumed, Processed)'
    BY <2>2, <2>3, <1>2, <1>9 DEF Settled
  <2>5. Settled(ackedThrough, 1..observed)'
    BY <1>1, <1>2, <1>12 DEF IInv, CursorsOK, Settled
  <2>6. QED
    BY <2>4, <2>5, <1>2, <1>4, <1>7 DEF IInv, CursorsOK
<1>17. AppliedOK'
  <2> SUFFICES ASSUME NEW r \in Processed
               PROVE  \/ coord'.status = Coord!Gapped /\ coord'.gapFrame >= Lost(r)
                      \/ \E f \in DOMAIN outcomes' : f > Lost(r) /\ outcomes'[f] = "accepted"
    BY <1>2, <1>9 DEF AppliedOK
  <2>1. Lost(r) \in Nat /\ coord'.gapFrame \in Nat
    BY <1>4, <1>9, <1>11, SoundFacts
  <2>2. CASE \E f \in DOMAIN outcomes : f > Lost(r) /\ outcomes[f] = "accepted"
    BY <2>2, <1>12
  <2>3. CASE coord.status = Coord!Gapped /\ coord.gapFrame >= Lost(r)
    <3>1. CASE outcome = "accepted" /\ Begins(coord, coord', frame)
      BY <3>1, <2>1, <2>3, <1>6, <1>10, <1>12 DEF Begins
    <3>2. CASE Kept(coord, coord')
      BY <3>2, <2>1, <2>3, <1>10 DEF Kept
    <3>3. QED
      BY <3>1, <3>2, <1>11
  <2>4. QED
    BY <2>2, <2>3 DEF IInv, AppliedOK
<1>18. TranscriptOK'
  <2>1. Sound(coord') /\ (coord'.watermark = 0 \/ coord'.watermark \in DOMAIN outcomes')
    BY <1>10, <1>11, <1>12
  <2>2. coord'.status # Coord!Gapped => \A f \in DOMAIN outcomes' : f <= coord'.watermark
    BY <1>6, <1>8, <1>11, <1>12
  <2>3. ASSUME coord'.status = Coord!Tracking
        PROVE  LET anchor == coord'.recorder.history.anchor
               IN  /\ anchor \in DOMAIN outcomes'
                   /\ \A r \in Processed : Lost(r) < anchor
                   /\ \A f \in DOMAIN outcomes' : f >= anchor => outcomes'[f] \in {"accepted", "transient"}
    <3>1. coord'.status # Coord!Gapped
      BY <2>3 DEF Coord!Tracking, Coord!Gapped
    <3>2. outcome \in {"accepted", "transient"}
      BY <3>1, <1>11
    <3>3. CASE coord.status = Coord!Tracking /\ coord'.recorder.history.anchor = coord.recorder.history.anchor
      BY <3>2, <3>3, <1>12 DEF IInv, TranscriptOK
    <3>4. CASE Begins(coord, coord', frame) /\ coord'.recorder.history.anchor = frame
      <4>1. ASSUME NEW r \in Processed PROVE Lost(r) < frame
        <5>1. Lost(r) \in Nat
          BY <1>4, <1>9
        <5>2. CASE \E f \in DOMAIN outcomes : f > Lost(r) /\ outcomes[f] = "accepted"
          BY <5>1, <5>2, <1>6, <1>8
        <5>3. CASE coord.status = Coord!Gapped /\ coord.gapFrame >= Lost(r)
          BY <3>4, <5>1, <5>3, <1>6, <1>10 DEF Begins
        <5>4. QED
          BY <5>2, <5>3 DEF IInv, AppliedOK
      <4>2. \A f \in DOMAIN outcomes' : f >= frame => f = frame
        BY <1>6, <1>8, <1>12
      <4>3. QED
        BY <3>2, <3>4, <4>1, <4>2, <1>12
    <3>5. QED
      BY <2>3, <3>1, <3>3, <3>4, <1>11 DEF Begins
  <2>4. QED
    BY <2>1, <2>2, <2>3, <1>2, <1>9 DEF TranscriptOK
<1>19. RevokedOK'
  <2>1. poisoned' => coord'.status = Coord!Gapped
    BY <1>11
  <2>2. ASSUME coord.status = Coord!Gapped, coord.unknownHandBeforeGap
        PROVE  coord'.status = Coord!Gapped /\ coord'.unknownHandBeforeGap
    BY <2>2, <1>11 DEF Begins, Kept
  <2>3. QED
    BY <2>1, <2>2, <1>1 DEF IInv, RevokedOK
<1>20. ProducerOK'
  BY DEF IInv, ProducerOK, producer, ProcessKeyframe
<1>21. QED
  BY <1>2, <1>13, <1>14, <1>15, <1>16, <1>17, <1>18, <1>19, <1>20 DEF IInv

(* A batch ends: with no gap left every one of it is applied; otherwise    *)
(* the worker was told to stop, and gives up.                              *)
LEMMA FinishItemsStep == ASSUME IInv, FinishItems PROVE IInv'
<1>1. /\ UNCHANGED ring /\ pc = "items" /\ work' = {} /\ (work = {} \/ stopMode = "now")
      /\ UNCHANGED <<coord, consumed, target, outcomes, stopMode, runtime, poisoned>>
      /\ \/ (\A item \in work : ~IsGap(item)) /\ observed' = target /\ pc' \in {"ack", "cycled"}
         \/ (\E item \in work : IsGap(item)) /\ observed' = observed /\ pc' = "cycled"
  BY DEF FinishItems, stops
<1>2. /\ gapEvents' = gapEvents /\ offered' = offered /\ ackedThrough' = ackedThrough
      /\ \A r : Lost(r)' = Lost(r) /\ GapOf(r)' = GapOf(r)
      /\ RingOK'
  BY <1>1, RingStays DEF IInv
<1> DEFINE N == Len(gapEvents)
<1>3. /\ N \in Nat /\ observed \in Nat /\ target \in Nat /\ observed <= target /\ target <= N
      /\ consumed \in Nat /\ InCycle /\ Batching
  BY <1>1, RingFacts DEF IInv, CycleOK, InCycle, Batching
<1>4. Processed = {r \in 1..target : GapOf(r) \notin work}
  BY <1>3 DEF Processed
<1>5. ~Batching' /\ Processed' = 1..observed'
  BY <1>1 DEF Processed, Batching
<1>6. /\ observed' \in Nat /\ observed <= observed' /\ observed' <= target
      /\ Processed' \subseteq Processed /\ (Abandoned' \/ Processed' = Processed)
  <2>1. CASE \A item \in work : ~IsGap(item)
    <3>1. observed' = target
      BY <1>1, <2>1
    <3>2. Processed = 1..target
      BY <1>4, <2>1, ItemFacts
    <3>3. QED
      BY <3>1, <3>2, <1>3, <1>5
  <2>2. CASE \E item \in work : IsGap(item)
    <3>1. observed' = observed /\ stopMode' = "now" /\ ~InCycle'
      BY <1>1, <2>2 DEF InCycle
    <3>2. PICK r \in observed + 1 .. target : GapOf(r) \in work
      BY <2>2, ItemFacts DEF IInv, CycleOK
    <3>3. observed < N
      BY <3>2, <1>3
    <3>4. 1..observed \subseteq Processed
      BY <1>3, ProcessedFacts DEF IInv
    <3>5. QED
      BY <3>1, <3>3, <3>4, <1>2, <1>3, <1>5 DEF Abandoned
  <2>3. QED
    BY <2>1, <2>2
<1>7. CycleOK'
  <2>1. pc' \in {"ack", "late"} => observed' = target
    BY <1>1
  <2>2. observed' <= N
    BY <1>3, <1>6
  <2>3. QED
    BY <2>1, <2>2, <1>1, <1>2, <1>3, <1>5, <1>6 DEF IInv, CycleOK
<1>8. DecodedOK'
  BY <1>1, <1>2 DEF IInv, DecodedOK
<1>9. BatchOK'
  BY <1>5 DEF BatchOK, Batching
<1>10. CursorsOK'
  <2>1. Settled(consumed, Processed)
    BY <1>3 DEF Abandoned, IInv, CursorsOK
  <2>2. Abandoned' \/ Settled(consumed, Processed)'
    BY <2>1, <1>1, <1>2, <1>6 DEF Settled
  <2>3. Settled(ackedThrough, 1..observed)'
    <3>1. 1..observed \subseteq 1..observed'
      BY <1>3, <1>6
    <3>2. QED
      BY <3>1, <1>1, <1>2 DEF IInv, CursorsOK, Settled
  <2>4. QED
    BY <2>2, <2>3, <1>1, <1>2 DEF IInv, CursorsOK
<1>11. AppliedOK'
  BY <1>1, <1>2, <1>6 DEF IInv, AppliedOK
<1>12. TranscriptOK'
  BY <1>1, <1>2, <1>6 DEF IInv, TranscriptOK
<1>13. RevokedOK'
  BY <1>1 DEF IInv, RevokedOK
<1>14. ProducerOK'
  BY DEF IInv, ProducerOK, producer, FinishItems
<1>15. QED
  BY <1>2, <1>7, <1>8, <1>9, <1>10, <1>11, <1>12, <1>13, <1>14 DEF IInv

(* The ring forgets what the cursor passed, at the revision it was read.   *)
LEMMA CommitStep == ASSUME IInv, CommitAcknowledgement PROVE IInv'
<1>1. /\ pc = "ack" /\ pc' = "cycled" /\ target = Len(gapEvents)
      /\ ackedThrough' = consumed /\ items' = {f \in items : f > consumed}
      /\ UNCHANGED <<gapEvents, lastOffered, offered>>
      /\ UNCHANGED <<coord, consumed, observed, work, target, outcomes, stopMode, runtime, poisoned>>
  BY DEF CommitAcknowledgement, Ring!AcknowledgeConsumerBatch, Ring!Acknowledge, Ring!Unacked,
     Ring!gapRevision, cursors, cycle, stops
<1>2. /\ gapEvents' = gapEvents /\ offered' = offered
      /\ \A r : Lost(r)' = Lost(r) /\ GapOf(r)' = GapOf(r)
  BY <1>1 DEF Lost, GapOf
<1>3. /\ consumed \in Nat /\ ackedThrough \in Nat /\ ackedThrough <= consumed /\ observed = target
      /\ InCycle /\ ~Batching /\ ~Batching' /\ ~InCycle' /\ work = {}
      /\ \A f \in offered : f \in Nat
  BY <1>1, RingFacts DEF IInv, CycleOK, CursorsOK, RingOK, InCycle, Batching
<1>4. RingOK'
  <2>1. \A f \in offered : f > consumed => f > ackedThrough
    BY <1>3
  <2>2. QED
    BY <2>1, <1>1, <1>2, <1>3 DEF IInv, RingOK
<1>5. Processed = 1..observed /\ Processed' = Processed
  BY <1>1, <1>3 DEF Processed
<1>6. CycleOK'
  BY <1>1, <1>2, <1>3 DEF IInv, CycleOK
<1>7. DecodedOK'
  BY <1>1 DEF IInv, DecodedOK
<1>8. BatchOK'
  BY <1>1 DEF BatchOK
<1>9. CursorsOK'
  <2>1. Settled(consumed, Processed)
    BY <1>3 DEF Abandoned, IInv, CursorsOK
  <2>2. Settled(consumed, Processed)' /\ Settled(ackedThrough, 1..observed)'
    BY <2>1, <1>1, <1>2, <1>5 DEF Settled
  <2>3. QED
    BY <2>2, <1>1, <1>3 DEF CursorsOK
<1>10. AppliedOK'
  BY <1>1, <1>2, <1>5 DEF IInv, AppliedOK
<1>11. TranscriptOK'
  BY <1>1, <1>2, <1>5 DEF IInv, TranscriptOK
<1>12. RevokedOK'
  BY <1>1 DEF IInv, RevokedOK
<1>13. ProducerOK'
  BY DEF IInv, ProducerOK, producer, CommitAcknowledgement
<1>14. QED
  BY <1>4, <1>6, <1>7, <1>8, <1>9, <1>10, <1>11, <1>12, <1>13 DEF IInv

(* Late gaps are read, and taken into account when all are applied.        *)
LEMMA LateGapsStep == ASSUME IInv, RereadGaps \/ FinishLateGaps PROVE IInv'
<1>1. /\ UNCHANGED ring
      /\ UNCHANGED <<coord, consumed, outcomes, stopMode, runtime, poisoned, captured, held, toOffer>>
  BY DEF RereadGaps, FinishLateGaps, cycle, cursors, stops, producer
<1>2. /\ gapEvents' = gapEvents /\ offered' = offered /\ ackedThrough' = ackedThrough
      /\ \A r : Lost(r)' = Lost(r) /\ GapOf(r)' = GapOf(r)
      /\ RingOK'
  BY <1>1, RingStays DEF IInv
<1> DEFINE N == Len(gapEvents)
<1>3. /\ N \in Nat /\ observed \in Nat /\ target \in Nat /\ observed <= target /\ target <= N
      /\ InCycle /\ pc # "items" /\ pc' # "items"
  BY RingFacts DEF IInv, CycleOK, InCycle, RereadGaps, FinishLateGaps
<1>4. /\ observed' \in Nat /\ observed <= observed' /\ observed' <= target' /\ target' <= N
      /\ target' \in Nat /\ Processed' = Processed
      /\ \A item \in work' : \E r \in observed' + 1 .. target' : item = GapOf(r)
      /\ pc' \in {"ack", "late"} => observed' = target'
      /\ work' # {} => Batching'
  <2>1. CASE RereadGaps
    <3>1. /\ pc = "late" /\ pc' = "lateGaps" /\ target' = N /\ observed' = observed /\ observed = target
          /\ work' = {GapItem(e) : e \in Ring!BatchGapEvents(target)}
      BY <2>1 DEF RereadGaps, Ring!gapRevision, cursors, IInv, CycleOK
    <3>2. work' = {GapOf(r) : r \in observed + 1 .. N}
      BY <3>1 DEF Ring!BatchGapEvents, Ring!gapRevision, GapOf
    <3>3. \A r \in 1..N : GapOf(r) \in work' <=> r > observed
      <4> TAKE r \in 1..N
      <4>1. r > observed => GapOf(r) \in work'
        BY <3>2, <1>3
      <4>2. GapOf(r) \in work' => \E q \in observed + 1 .. N : GapOf(r) = GapOf(q)
        BY <3>2
      <4>3. QED
        BY <4>1, <4>2, <1>3, ItemFacts
    <3>4. Processed' = {r \in 1..N : GapOf(r) \notin work'}
      BY <3>1, <1>2 DEF Processed, Batching
    <3>5. Processed = 1..observed
      BY <3>1 DEF Processed, Batching
    <3>6. Processed' = Processed
      BY <3>3, <3>4, <3>5, <1>3
    <3>7. \A item \in work' : \E r \in observed' + 1 .. target' : item = GapOf(r)
      BY <3>1, <3>2
    <3>8. observed <= observed' /\ observed' <= target' /\ Batching'
      BY <3>1, <1>3 DEF Batching
    <3>9. QED
      BY <3>1, <3>6, <3>7, <3>8, <1>3
  <2>2. CASE FinishLateGaps
    <3>1. /\ pc = "lateGaps" /\ pc' \in {"ack", "fatal"} /\ target' = target /\ observed' = target
          /\ work = {} /\ work' = {}
      BY <2>2 DEF FinishLateGaps, cycle
    <3>2. Processed = 1..target /\ Processed' = 1..target
      BY <3>1 DEF Processed, Batching
    <3>3. QED
      BY <3>1, <3>2, <1>3
  <2>3. QED
    BY <2>1, <2>2
<1>5. CycleOK'
  <2>1. \A item \in work' : \E r \in observed' + 1 .. target' : item = GapOf(r)'
    BY <1>2, <1>4
  <2>2. /\ consumed' \in Nat /\ observed' <= Len(gapEvents)' /\ target' <= Len(gapEvents)'
        /\ (stopMode = "now" => runtime = "running")'
    BY <1>1, <1>2, <1>3, <1>4 DEF IInv, CycleOK
  <2>3. QED
    BY <2>1, <2>2, <1>4 DEF CycleOK
<1>6. DecodedOK'
  <2>1. \A item \in work' : IsGap(item)
    BY <1>4, ItemFacts
  <2>2. QED
    BY <2>1, <1>1, <1>2 DEF IInv, DecodedOK
<1>7. BatchOK'
  BY <1>3 DEF BatchOK
<1>8. CursorsOK'
  <2>1. Settled(consumed, Processed)
    BY <1>3 DEF Abandoned, IInv, CursorsOK
  <2>2. Settled(consumed, Processed)'
    BY <2>1, <1>1, <1>2, <1>4 DEF Settled
  <2>3. Settled(ackedThrough, 1..observed)'
    <3>1. 1..observed \subseteq 1..observed'
      BY <1>3, <1>4
    <3>2. QED
      BY <3>1, <1>1, <1>2 DEF IInv, CursorsOK, Settled
  <2>4. QED
    BY <2>2, <2>3, <1>1, <1>2 DEF IInv, CursorsOK
<1>9. AppliedOK'
  BY <1>1, <1>2, <1>4 DEF IInv, AppliedOK
<1>10. TranscriptOK'
  BY <1>1, <1>2, <1>4 DEF IInv, TranscriptOK
<1>11. RevokedOK'
  BY <1>1 DEF IInv, RevokedOK
<1>12. ProducerOK'
  BY <1>1 DEF IInv, ProducerOK
<1>13. QED
  BY <1>2, <1>5, <1>6, <1>7, <1>8, <1>9, <1>10, <1>11, <1>12 DEF IInv

(* The shutdown revokes: a loss without a frame, between two cycles.       *)
LEMMA RevokeStep == ASSUME IInv, RevokeBundle PROVE IInv'
<1>1. /\ UNCHANGED ring /\ coord' = Coord!Invalidated(coord, 0) /\ runtime' = "revoked"
      /\ runtime = "revoking" /\ ~InCycle
      /\ UNCHANGED <<consumed, observed, target, work, outcomes, stopMode, poisoned, pc,
                     captured, held, toOffer>>
  BY DEF RevokeBundle, Coord!NoFrame, cursors, cycle, producer
<1>2. /\ gapEvents' = gapEvents /\ offered' = offered /\ ackedThrough' = ackedThrough
      /\ \A r : Lost(r)' = Lost(r) /\ GapOf(r)' = GapOf(r)
      /\ RingOK'
  BY <1>1, RingStays DEF IInv
<1>3. /\ Sound(coord') /\ coord'.status = Coord!Gapped /\ coord'.watermark = coord.watermark
      /\ coord'.gapFrame >= coord.gapFrame /\ coord'.unknownHandBeforeGap
      /\ coord'.gapFrame \in Nat /\ coord.gapFrame \in Nat
  <2>1. 0 \in 0..MaxFrame /\ Sound(coord)
    BY Distinct DEF IInv, TranscriptOK
  <2>2. QED
    BY <2>1, <1>1, LossFacts, SoundFacts
<1>4. Batching' = Batching /\ InCycle' = InCycle /\ Processed' = Processed
  BY <1>1, <1>2 DEF Batching, InCycle, Processed
<1>5. stopMode # "now"
  BY <1>1 DEF IInv, CycleOK
<1>6. CycleOK'
  BY <1>1, <1>2, <1>4, <1>5 DEF IInv, CycleOK
<1>7. DecodedOK' /\ BatchOK'
  BY <1>1, <1>2 DEF IInv, DecodedOK, BatchOK
<1>8. CursorsOK'
  BY <1>1, <1>2, <1>4, <1>5 DEF IInv, CursorsOK, Settled, Abandoned
<1>9. AppliedOK'
  <2>1. \A r \in Processed : Lost(r) \in Nat
    BY ProcessedFacts, RingFacts DEF IInv
  <2>2. QED
    BY <2>1, <1>1, <1>2, <1>3, <1>4 DEF IInv, AppliedOK
<1>10. TranscriptOK'
  <2>1. Coord!Gapped # Coord!Tracking
    BY DEF Coord!Gapped, Coord!Tracking
  <2>2. QED
    BY <2>1, <1>1, <1>3 DEF IInv, TranscriptOK
<1>11. RevokedOK'
  BY <1>1, <1>3 DEF RevokedOK
<1>12. ProducerOK'
  BY <1>1 DEF IInv, ProducerOK
<1>13. QED
  BY <1>2, <1>6, <1>7, <1>8, <1>9, <1>10, <1>11, <1>12 DEF IInv

LEMMA GapAppended ==
  ASSUME RingOK, NEW g \in Ring!CaptureGap, g.first = g.last, gapEvents' = Append(gapEvents, g)
  PROVE  /\ gapEvents' \in Seq(Ring!CaptureGap)
         /\ Len(gapEvents') = Len(gapEvents) + 1 /\ DOMAIN gapEvents' = 1 .. Len(gapEvents) + 1
         /\ \A r \in 1..Len(gapEvents) : gapEvents'[r] = gapEvents[r]
         /\ \A r \in DOMAIN gapEvents' : gapEvents'[r].first = gapEvents'[r].last
         /\ \A r \in DOMAIN gapEvents : r \in DOMAIN gapEvents' /\ Lost(r)' = Lost(r)
         /\ \E r \in DOMAIN gapEvents' : Lost(r)' = g.last
<1> DEFINE N == Len(gapEvents)
<1>1. N \in Nat /\ DOMAIN gapEvents = 1..N
  BY RingFacts
<1>2. /\ gapEvents' \in Seq(Ring!CaptureGap) /\ Len(gapEvents') = N + 1
      /\ \A r \in 1..N : gapEvents'[r] = gapEvents[r]
      /\ gapEvents'[N + 1] = g
  BY AppendProperties DEF RingOK
<1>3. DOMAIN gapEvents' = 1 .. N + 1
  BY <1>2, LenProperties
<1>4. \A r \in 1 .. N + 1 : r \in 1..N \/ r = N + 1
  BY <1>1
<1>5. N + 1 \in 1 .. N + 1 /\ \A r \in 1..N : r \in 1 .. N + 1
  BY <1>1
<1>6. QED
  BY <1>1, <1>2, <1>3, <1>4, <1>5 DEF Lost, RingOK

LEMMA CaptureFailsStep == ASSUME IInv, CaptureFails PROVE IInv'
<1> DEFINE g == [cause |-> CaptureError, first |-> captured + 1, last |-> captured + 1, dropped |-> 1]
<1>1. /\ gapEvents' = Append(gapEvents, g) /\ captured < MaxFrame /\ captured' = captured + 1
      /\ UNCHANGED <<items, ackedThrough, lastOffered, offered, held, toOffer>>
      /\ UNCHANGED <<coord, pc, consumed, observed, target, work, outcomes, poisoned, stopMode, runtime>>
  BY DEF CaptureFails, Ring!RecordGap, Ring!CoalesceGap, cursors, cycle, stops
<1>2. g \in Ring!CaptureGap /\ captured' \in 0..MaxFrame
  BY <1>1, Distinct DEF IInv, ProducerOK, Ring!CaptureGap, Ring!Frames
<1>3. RingOK
  BY DEF IInv
<1> HIDE DEF g
<1>4. g.first = g.last
  BY DEF g
<1>5. RingOK'
  BY <1>1, <1>2, <1>3, <1>4, GapAppended DEF RingOK
<1>6. ProducerOK'
  BY <1>1, <1>2 DEF IInv, ProducerOK
<1>7. Grows
  BY <1>1, <1>2, <1>3, <1>4, RingFacts, GapAppended DEF Grows
<1>8. QED
  BY <1>5, <1>6, <1>7, GrowingStep

LEMMA OfferKeyframeStep == ASSUME IInv, OfferKeyframe PROVE IInv'
<1> DEFINE f == Head(toOffer)
           kept == IF Ring!HasRoom(items) THEN items ELSE Ring!Unacked(items, ackedThrough)
<1>1. toOffer \in Seq(Frames) /\ toOffer # <<>> /\ f \in Frames /\ Tail(toOffer) \in Seq(Frames)
  BY HeadTailProperties DEF OfferKeyframe, IInv, ProducerOK
<1>2. /\ f > lastOffered /\ lastOffered' = f /\ offered' = offered \cup {f}
      /\ ackedThrough' = ackedThrough /\ toOffer' = Tail(toOffer)
      /\ UNCHANGED <<captured, held>>
      /\ UNCHANGED <<coord, pc, consumed, observed, target, work, outcomes, poisoned, stopMode, runtime>>
      /\ \/ f <= ackedThrough /\ items' = items /\ gapEvents' = gapEvents
         \/ f > ackedThrough /\ items' = kept \cup {f} /\ gapEvents' = gapEvents
         \/ f > ackedThrough /\ items' = kept /\ gapEvents' = Append(gapEvents, Ring!OverflowGap(f))
  BY DEF OfferKeyframe, Ring!Offer, Ring!CoalesceGap, cursors, cycle, stops
<1>3. kept = items
  BY DEF Ring!Unacked, IInv, RingOK
<1> HIDE DEF f, kept
<1>4. RingOK /\ f \in Nat /\ ackedThrough \in Nat /\ lastOffered \in Nat
  BY <1>1 DEF IInv, RingOK, Frames
<1>5. /\ offered' \subseteq Frames /\ lastOffered' \in Nat
      /\ \A h \in offered' : h <= lastOffered'
  <2>1. offered \subseteq Frames /\ \A h \in offered : h \in Nat /\ h <= lastOffered
    BY <1>4 DEF RingOK, Frames
  <2>2. offered' \subseteq Frames /\ lastOffered' \in Nat
    BY <2>1, <1>1, <1>2, <1>4
  <2>3. \A h \in offered : h <= f
    BY <2>1, <1>2, <1>4
  <2>4. \A h \in offered' : h <= lastOffered'
    BY <2>3, <1>2, <1>4
  <2>5. QED
    BY <2>2, <2>4
<1>6. RingOK' /\ Grows
  <2>1. CASE gapEvents' = gapEvents
    <3>1. items' \subseteq offered' /\ \A h \in items' : h > ackedThrough
      BY <2>1, <1>2, <1>3, <1>4 DEF RingOK
    <3>2. \A h \in offered' : h > ackedThrough => h \in items' \/ \E r \in DOMAIN gapEvents : Lost(r) = h
      BY <2>1, <1>2, <1>3, <1>4 DEF RingOK
    <3>3. \A r : Lost(r)' = Lost(r)
      BY <2>1 DEF Lost
    <3>4. RingOK'
      BY <2>1, <3>1, <3>2, <3>3, <1>2, <1>4, <1>5 DEF RingOK
    <3>5. Len(gapEvents) \in Nat /\ Len(gapEvents') = Len(gapEvents)
      BY <2>1, <1>4, RingFacts
    <3>6. Grows
      BY <3>5, <2>1, <1>2, <1>4 DEF Grows
    <3>7. QED
      BY <3>4, <3>6
  <2>2. CASE f > ackedThrough /\ items' = kept /\ gapEvents' = Append(gapEvents, Ring!OverflowGap(f))
    <3> DEFINE g == Ring!OverflowGap(f)
    <3>1. g \in Ring!CaptureGap /\ g.first = f /\ g.last = f
      BY <1>1 DEF Ring!OverflowGap, Ring!CaptureGap, Ring!Frames, Frames
    <3> HIDE DEF g
    <3>2. gapEvents' = Append(gapEvents, g)
      BY <2>2 DEF g
    <3>3. /\ gapEvents' \in Seq(Ring!CaptureGap)
          /\ Len(gapEvents') = Len(gapEvents) + 1
          /\ \A r \in 1..Len(gapEvents) : gapEvents'[r] = gapEvents[r]
          /\ \A r \in DOMAIN gapEvents' : gapEvents'[r].first = gapEvents'[r].last
          /\ \A r \in DOMAIN gapEvents : r \in DOMAIN gapEvents' /\ Lost(r)' = Lost(r)
          /\ \E r \in DOMAIN gapEvents' : Lost(r)' = f
      BY <3>1, <3>2, <1>4, GapAppended
    <3>4. items' \subseteq offered' /\ \A h \in items' : h > ackedThrough
      BY <2>2, <1>2, <1>3, <1>4 DEF RingOK
    <3>5. ASSUME NEW h \in offered', h > ackedThrough
          PROVE  h \in items' \/ \E r \in DOMAIN gapEvents' : Lost(r)' = h
      <4>1. CASE h = f
        BY <4>1, <3>3
      <4>2. CASE h \in items
        BY <4>2, <2>2, <1>3
      <4>3. CASE \E r \in DOMAIN gapEvents : Lost(r) = h
        BY <4>3, <3>3
      <4>4. QED
        BY <3>5, <4>1, <4>2, <4>3, <1>2, <1>4 DEF RingOK
    <3>6. RingOK'
      BY <3>3, <3>4, <3>5, <1>2, <1>4, <1>5 DEF RingOK
    <3>7. QED
      BY <3>3, <3>6, <1>2, <1>4, RingFacts DEF Grows
  <2>3. QED
    BY <2>1, <2>2, <1>2
<1>7. ProducerOK'
  BY <1>1, <1>2 DEF IInv, ProducerOK
<1>8. QED
  BY <1>6, <1>7, GrowingStep

(* What the detector may emit is a sequence of frames.                     *)
LEMMA CaptureFrameStep == ASSUME IInv, CaptureFrame PROVE IInv'
<1>1. /\ UNCHANGED <<ring, coord, consumed, observed, target, work, outcomes, poisoned,
                     pc, stopMode, runtime>>
      /\ captured < MaxFrame /\ captured' = captured + 1
  BY DEF CaptureFrame, cursors, cycle, stops
<1>2. captured \in 0..MaxFrame /\ captured + 1 \in 0..MaxFrame /\ captured + 1 \in Frames /\ held \subseteq Frames
  BY <1>1, Distinct DEF IInv, ProducerOK, Frames
<1>3. PICK emitted \in Emissions(captured + 1) :
        toOffer' = emitted /\ held' = LaterThan(held \cup {captured + 1}, emitted)
  BY DEF CaptureFrame
<1>4. emitted \in Seq(Frames)
  <2>1. <<>> \in Seq(Frames) /\ <<captured + 1>> \in Seq(Frames)
    BY <1>2
  <2>2. \A peak \in held : <<peak, captured + 1>> \in Seq(Frames)
    BY <1>2
  <2>3. QED
    BY <2>1, <2>2, <1>3 DEF Emissions
<1>5. held' \subseteq Frames
  BY <1>2, <1>3 DEF LaterThan
<1>6. ProducerOK'
  BY <1>1, <1>2, <1>3, <1>4, <1>5 DEF ProducerOK
<1>7. Quiet /\ (stopMode = "now" => runtime = "running")' /\ RevokedOK'
  BY <1>1 DEF Quiet, InCycle, IInv, RevokedOK, CycleOK
<1>8. QED
  BY <1>6, <1>7, QuietStep

LEMMA FlushStep == ASSUME IInv, FlushAndClose PROVE IInv'
<1>1. /\ UNCHANGED <<ring, coord, consumed, observed, target, work, outcomes, poisoned,
                     pc, stopMode, runtime, captured>>
      /\ held' = {}
  BY DEF FlushAndClose, cursors, cycle, stops
<1>2. toOffer' \in Seq(Frames)
  <2>1. held \subseteq Frames
    BY DEF IInv, ProducerOK
  <2>2. <<>> \in Seq(Frames) /\ \A peak \in held : <<peak>> \in Seq(Frames)
    BY <2>1
  <2>3. \A frames \in held \X held : frames \in Seq(Frames)
    <3>1. \A a \in held, b \in held : <<a, b>> \in Seq(Frames)
      BY <2>1
    <3>2. \A frames \in held \X held : \E a \in held, b \in held : frames = <<a, b>>
      OBVIOUS
    <3>3. QED
      BY Zenon, <3>1, <3>2
  <2>4. QED
    BY <2>2, <2>3 DEF FlushAndClose
<1>3. ProducerOK'
  BY <1>1, <1>2 DEF IInv, ProducerOK
<1>4. Quiet /\ (stopMode = "now" => runtime = "running")' /\ RevokedOK'
  BY <1>1 DEF Quiet, InCycle, IInv, RevokedOK, CycleOK
<1>5. QED
  BY <1>3, <1>4, QuietStep

(* The worker's control between cycles, and an acknowledgement that failed. *)
Control ==
  \/ Loop \/ Woken \/ WaitTimesOut \/ LeaveWithoutDraining \/ Fail \/ StaleAcknowledgement
  \/ RequestShutdown \/ StopCapture \/ StopWorker \/ FinishShutdown \/ AbandonWorker

LEMMA ControlStep == ASSUME IInv, Control PROVE IInv'
<1>1. /\ UNCHANGED <<ring, coord, consumed, observed, target, work, outcomes, poisoned,
                     captured, held, toOffer>>
      /\ \/ pc' = pc
         \/ pc = "ack" /\ pc' = "late"
         \/ pc \in {"cycled", "waiting", "loop", "fatal"} /\ pc' \in {"loop", "stopped", "waiting", "failed"}
  <2>1. CASE Loop
    <3>1. pc = "cycled" /\ pc' \in {"loop", "stopped", "waiting"}
      BY Zenon, <2>1 DEF Loop
    <3>2. UNCHANGED <<ring, coord, producer, cursors, cycle, poisoned, outcomes>>
      BY <2>1 DEF Loop
    <3>3. QED
      BY <3>1, <3>2 DEF producer, cursors, cycle
  <2>2. CASE Woken \/ WaitTimesOut \/ LeaveWithoutDraining \/ Fail
    BY <2>2 DEF Woken, WaitTimesOut, LeaveWithoutDraining, Fail, producer, cursors, cycle
  <2>3. CASE StaleAcknowledgement
    BY <2>3 DEF StaleAcknowledgement, producer, cursors
  <2>4. CASE RequestShutdown \/ StopWorker \/ FinishShutdown \/ AbandonWorker
    BY <2>4 DEF RequestShutdown, StopWorker, FinishShutdown, AbandonWorker, producer, cursors, cycle
  <2>5. CASE StopCapture
    BY <2>5 DEF StopCapture, cursors, cycle
  <2>6. QED
    BY <2>1, <2>2, <2>3, <2>4, <2>5 DEF Control
<1>2. \/ stopMode' = stopMode /\ runtime' = runtime
      \/ stopMode = "none" /\ stopMode' = "none" /\ runtime = "running" /\ runtime' = "revoking"
      \/ stopMode' = stopMode /\ runtime = "revoked" /\ runtime' = "joiningCapture"
      \/ stopMode' = "drain" /\ runtime = "joiningCapture" /\ runtime' = "joiningWorker"
      \/ stopMode' = stopMode /\ runtime = "joiningWorker" /\ runtime' = "stopped"
      \/ stopMode = "none" /\ stopMode' = "now" /\ runtime = "running" /\ runtime' = "running"
  <2>1. CASE Loop \/ Woken \/ WaitTimesOut \/ LeaveWithoutDraining \/ Fail \/ StaleAcknowledgement
    BY <2>1 DEF Loop, Woken, WaitTimesOut, LeaveWithoutDraining, Fail, StaleAcknowledgement, stops
  <2>2. CASE RequestShutdown \/ StopCapture \/ StopWorker \/ FinishShutdown \/ AbandonWorker
    BY <2>2 DEF RequestShutdown, StopCapture, StopWorker, FinishShutdown, AbandonWorker
  <2>3. QED
    BY <2>1, <2>2 DEF Control
<1>3. stopMode = "now" => runtime = "running"
  BY DEF IInv, CycleOK
<1>4. Quiet
  BY <1>1, <1>2, <1>3 DEF Quiet, InCycle
<1>5. (stopMode = "now" => runtime = "running")'
  BY <1>2, <1>3
<1>6. RevokedOK'
  BY <1>1, <1>2 DEF IInv, RevokedOK
<1>7. ProducerOK'
  BY <1>1 DEF IInv, ProducerOK
<1>8. QED
  BY <1>4, <1>5, <1>6, <1>7, QuietStep

LEMMA InitialState == Init => IInv
<1> SUFFICES ASSUME Init PROVE IInv
  OBVIOUS
<1>1. /\ items = {} /\ gapEvents = <<>> /\ ackedThrough = 0 /\ lastOffered = 0 /\ offered = {}
      /\ coord = Coord!NewCoordinator
      /\ captured = 0 /\ held = {} /\ toOffer = <<>>
      /\ pc = "loop" /\ consumed = 0 /\ observed = 0 /\ work = {} /\ target = 0
      /\ stopMode = "none" /\ runtime = "running" /\ poisoned = FALSE /\ DOMAIN outcomes = {}
  BY DEF Init, Ring!Init, Coord!Init
<1>2. Len(gapEvents) = 0 /\ DOMAIN gapEvents = {} /\ gapEvents \in Seq(Ring!CaptureGap)
  BY <1>1
<1>3. RingOK
  BY <1>1, <1>2 DEF RingOK
<1>4. ProducerOK
  BY <1>1, Distinct DEF ProducerOK
<1>5. CycleOK /\ ~Batching
  BY <1>1, <1>2 DEF CycleOK, Batching, InCycle
<1>6. DecodedOK /\ BatchOK
  BY <1>1 DEF DecodedOK, BatchOK
<1>7. Processed = {}
  BY <1>1, <1>5 DEF Processed
<1>8. CursorsOK /\ AppliedOK
  BY <1>1, <1>7 DEF CursorsOK, AppliedOK, Settled
<1>9. /\ coord.status = Coord!Waiting /\ coord.watermark = 0
      /\ Coord!Waiting # Coord!Tracking
  BY <1>1 DEF Coord!NewCoordinator, Coord!NoFrame, Coord!Waiting, Coord!Tracking
<1>10. TranscriptOK
  BY <1>1, <1>9, SoundInit DEF TranscriptOK
<1>11. RevokedOK
  BY <1>1 DEF RevokedOK
<1>12. QED
  BY <1>3, <1>4, <1>5, <1>6, <1>8, <1>10, <1>11 DEF IInv

LEMMA NextStep == IInv /\ [Next]_vars => IInv'
<1> SUFFICES ASSUME IInv, [Next]_vars PROVE IInv'
  OBVIOUS
<1>1. CASE Producer
  BY <1>1, CaptureFrameStep, CaptureFailsStep, OfferKeyframeStep, FlushStep DEF Producer
<1>2. CASE StartCycle
  BY <1>2, StartCycleStep
<1>3. CASE ProcessGap \/ ProcessLateGap
  <2>1. Batching /\ \E gap \in work : ApplyGap(gap)
    BY <1>3 DEF ProcessGap, ProcessLateGap, Batching
  <2>2. QED
    BY <2>1, ApplyGapStep
<1>4. CASE ProcessKeyframe
  BY <1>4, ProcessKeyframeStep
<1>5. CASE FinishItems
  BY <1>5, FinishItemsStep
<1>6. CASE CommitAcknowledgement
  BY <1>6, CommitStep
<1>7. CASE RereadGaps \/ FinishLateGaps
  BY <1>7, LateGapsStep
<1>8. CASE RevokeBundle
  BY <1>8, RevokeStep
<1>9. CASE Control
  BY <1>9, ControlStep
<1>10. CASE UNCHANGED vars
  <2>1. Quiet /\ ProducerOK' /\ (stopMode = "now" => runtime = "running")' /\ RevokedOK'
    BY <1>10 DEF vars, producer, cursors, cycle, stops, Quiet, InCycle, IInv, ProducerOK, CycleOK, RevokedOK
  <2>2. QED
    BY <2>1, QuietStep
<1>11. QED
  BY <1>1, <1>2, <1>3, <1>4, <1>5, <1>6, <1>7, <1>8, <1>9, <1>10 DEF Next, Worker, Shutdown, Control

-----------------------------------------------------------------------------
(* The ring, the batch, the cursors and the coordinator stay consistent    *)
(* at every step of the three threads.                                     *)
THEOREM WorkerInvariant == Spec => []IInv
<1>1. QED
  BY InitialState, NextStep, PTL DEF Spec

(* Acknowledging loses nothing: below the ring's watermark every keyframe  *)
(* was decoded or is reached by a gap that the worker took into account.   *)
THEOREM WorkerSettlesAcknowledged == Spec => []AcknowledgedIsSettled
<1>1. IInv => AcknowledgedIsSettled
  BY DEF IInv, CursorsOK, Settled, AcknowledgedIsSettled, Lost
<1>2. QED
  BY <1>1, WorkerInvariant, PTL

(* A gap the worker counts as observed has reached the coordinator.        *)
THEOREM WorkerAppliesGaps == Spec => []ObservedGapsAreApplied
<1>1. IInv => 1..observed \subseteq Processed
  <2>1. Batching => InCycle
    BY DEF Batching, InCycle
  <2>2. QED
    BY <2>1, ProcessedFacts DEF IInv
<1>2. IInv => ObservedGapsAreApplied
  BY <1>1 DEF IInv, AppliedOK, ObservedGapsAreApplied, Lost
<1>3. QED
  BY <1>2, WorkerInvariant, PTL

(* After a hard timeout or the shutdown's revocation nothing is shown.     *)
THEOREM WorkerStaysRevoked == Spec => []RevokedStaysRevoked
<1>1. coord.status = Coord!Gapped => Coord!LatestAccepted(coord) = Coord!NoBundle
  BY DEF Coord!LatestAccepted, Coord!AcceptedIsCurrent, Coord!Gapped, Coord!Tracking
<1>2. IInv => RevokedStaysRevoked
  BY <1>1 DEF IInv, RevokedOK, RevokedStaysRevoked
<1>3. QED
  BY <1>2, WorkerInvariant, PTL

(* What a caught-up reader gets is the newest keyframe, and every keyframe *)
(* since its hand was anchored was decoded, none lost and none rejected.   *)
THEOREM WorkerShowsContiguous == Spec => []VisibleBundleIsContiguous
<1>1. IInv => VisibleBundleIsContiguous
  <2> SUFFICES ASSUME IInv, Visible # Coord!NoBundle PROVE VisibleBundleIsContiguous
    BY DEF VisibleBundleIsContiguous
  <2> DEFINE frame == Visible.frame
             anchor == Visible.history.anchor
             N == Len(gapEvents)
  <2>1. /\ Readable /\ Visible = coord.accepted
        /\ coord.status = Coord!Tracking /\ coord.accepted # Coord!NoBundle
        /\ frame = coord.watermark /\ anchor = coord.recorder.history.anchor
    BY DEF Visible, Coord!LatestAccepted, Coord!AcceptedIsCurrent
  <2>2. /\ ~InCycle /\ N = observed /\ ackedThrough = consumed /\ lastOffered <= consumed
        /\ N \in Nat /\ DOMAIN gapEvents = 1..N /\ consumed \in Nat /\ lastOffered \in Nat
        /\ \A r \in 1..N : Lost(r) \in Nat /\ gapEvents[r].first = Lost(r)
        /\ \A f \in offered : f \in Nat /\ f <= lastOffered
    BY <2>1, RingFacts DEF Readable, Ring!CaughtUp, Ring!gapRevision, IInv, CycleOK, RingOK
  <2>3. Processed = 1..N
    BY <2>2, ProcessedFacts DEF IInv, Batching, InCycle
  <2>4. frame \in Nat /\ frame # 0
    <3>1. coord.accepted \in Proved!Bundles \cup {Proved!NoBundle}
      BY DEF IInv, TranscriptOK, Sound, Proved!CandidateOK, Proved!Coordinators
    <3>2. coord.accepted \in Proved!Bundles
      BY <2>1, <3>1 DEF Coord!NoBundle, Proved!NoBundle, Coord!NoFrame, Proved!NoFrame
    <3>3. QED
      BY <2>1, <3>2 DEF Proved!Bundles, Proved!Frames
  <2>5. frame \in DOMAIN outcomes /\ anchor \in DOMAIN outcomes
    BY <2>1, <2>4 DEF IInv, TranscriptOK
  <2>6. /\ \A f \in DOMAIN outcomes : f \in offered /\ f <= frame /\ f <= consumed
        /\ \A r \in 1..N : Lost(r) < anchor
        /\ \A f \in DOMAIN outcomes : f >= anchor => outcomes[f] \in {"accepted", "transient"}
    <3>1. Coord!Tracking # Coord!Gapped
      BY DEF Coord!Tracking, Coord!Gapped
    <3>2. QED
      BY <3>1, <2>1, <2>3 DEF IInv, TranscriptOK, DecodedOK
  <2> HIDE DEF frame, anchor
  <2>7. anchor \in Nat /\ anchor <= frame /\ frame <= lastOffered /\ frame <= consumed
    BY <2>2, <2>5, <2>6
  <2>8. Settled(consumed, 1..N)
    BY <2>2, <2>3 DEF IInv, CursorsOK, Abandoned
  <2>9. frame = lastOffered /\ frame = consumed
    <3>1. consumed <= frame
      <4>1. CASE consumed \in DOMAIN outcomes
        BY <4>1, <2>6
      <4>2. CASE \E r \in 1..N : Lost(r) = consumed
        BY <4>2, <2>2, <2>4, <2>6, <2>7
      <4>3. QED
        BY <4>1, <4>2, <2>2, <2>4, <2>7, <2>8 DEF Settled
    <3>2. QED
      BY <3>1, <2>2, <2>4, <2>7
  <2>10. (anchor .. frame) \cap Ring!Declared(gapEvents) = {}
    <3> SUFFICES ASSUME NEW f \in anchor .. frame, f \in Ring!Declared(gapEvents) PROVE FALSE
      OBVIOUS
    <3>1. PICK r \in 1..N : f \in Lost(r) .. Lost(r)
      BY <2>2 DEF Ring!Declared, Ring!Span, Lost
    <3>2. QED
      BY <3>1, <2>2, <2>4, <2>6, <2>7
  <2>11. ASSUME NEW f \in (anchor .. frame) \cap offered
         PROVE  f \in DOMAIN outcomes /\ outcomes[f] \in {"accepted", "transient"}
    <3>1. f \in Nat /\ f >= anchor /\ f <= consumed
      BY <2>2, <2>4, <2>7, <2>9
    <3>2. ~ \E r \in 1..N : Lost(r) >= f
      BY <3>1, <2>2, <2>6, <2>7
    <3>3. f \in DOMAIN outcomes
      BY <3>1, <3>2, <2>8 DEF Settled
    <3>4. QED
      BY <3>1, <3>3, <2>6
  <2>12. QED
    BY <2>2, <2>9, <2>10, <2>11 DEF VisibleBundleIsContiguous, frame, anchor
<1>2. QED
  BY <1>1, WorkerInvariant, PTL

(* No keyframe is decoded twice or after a later one.                      *)
THEOREM WorkerDecodesInOrder == Spec => DecodedOnceInOrder
<1>1. ASSUME IInv, [Next]_vars
      PROVE  [ \A f \in DOMAIN outcomes' \ DOMAIN outcomes : \A g \in DOMAIN outcomes : g < f ]_vars
  <2>1. CASE ProcessKeyframe
    <3>1. PICK item \in work :
            /\ ~IsGap(item)
            /\ \E outcome : outcomes' = Recorded(item.first, outcome)
      BY <2>1 DEF ProcessKeyframe, DecodeObservation, DecodeTransient, DecodeFails
    <3>2. \A f \in DOMAIN outcomes' \ DOMAIN outcomes : f = item.first
      BY <3>1 DEF Recorded
    <3>3. \A g \in DOMAIN outcomes : g < item.first
      BY <1>1, <3>1 DEF IInv, DecodedOK
    <3>4. \A f \in DOMAIN outcomes' \ DOMAIN outcomes : \A g \in DOMAIN outcomes : g < f
      BY <3>2, <3>3
    <3>5. QED
      BY <3>4
  <2>2. CASE Next /\ ~ProcessKeyframe
    <3>1. outcomes' = outcomes
      BY <2>2 DEF Next, Producer, CaptureFrame, CaptureFails, OfferKeyframe, FlushAndClose,
         Worker, StartCycle, ProcessGap, ApplyGap, FinishItems, CommitAcknowledgement,
         StaleAcknowledgement, RereadGaps, ProcessLateGap, FinishLateGaps, Loop, Woken,
         LeaveWithoutDraining, Fail, WaitTimesOut, RequestShutdown, AbandonWorker,
         RevokeBundle, Shutdown, StopCapture, StopWorker, FinishShutdown
    <3>2. QED
      BY <3>1
  <2>3. CASE UNCHANGED vars
    BY <2>3
  <2>4. QED
    BY <1>1, <2>1, <2>2, <2>3
<1>2. QED
  BY <1>1, WorkerInvariant, PTL DEF Spec, DecodedOnceInOrder
=============================================================================
