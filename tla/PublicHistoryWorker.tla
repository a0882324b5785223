------------------------ MODULE PublicHistoryWorker ------------------------
(***************************************************************************)
(* The transactional consumer (public_history_worker.py) between the       *)
(* capture thread that fills the keyframe ring (live_capture.py) and the   *)
(* coordinator that readers see.                                           *)
(*                                                                         *)
(* Three actors interleave: the capture thread, the worker thread and the  *)
(* thread that shuts the runtime down.  A worker cycle holds the process   *)
(* and coordinator locks, so readers and the shutdown's invalidation run   *)
(* only between cycles, while the capture thread goes on filling the ring  *)
(* between any two steps of a cycle.                                       *)
(***************************************************************************)
EXTENDS Naturals, FiniteSets, Sequences, FiniteSetsExt, SequencesExt

CONSTANTS
  Capacity,        \* keyframes the ring retains
  Overflow,        \* the cause of the gap offer() declares
  CaptureError,    \* the cause of the gap a failed capture declares
  MaxFrame,        \* bound of the model: frames captured
  Hands, NoHand, MaxPos,
  MaxAckAttempts   \* acknowledgements tried in a cycle; 1000 in the code

VARIABLES
  items, gaps, gapEvents, ackedThrough, lastOffered, offered,    \* the ring
  coord,           \* the coordinator
  captured,        \* _next_frame_id - 1
  held,            \* captured frames the detector may still emit
  toOffer,         \* keyframes selected and not yet offered
  capture,         \* "running", "stopping" or "closed"
  pc,              \* where the worker thread is
  consumed,        \* _consumed_through
  observed,        \* _observed_gap_revision
  work,            \* the rest of this cycle's ordered batch
  target,          \* the gap revision this cycle acknowledges at
  attempts,        \* acknowledgements this cycle has tried
  handled,         \* this cycle has events
  stopMode,        \* _stop_event and _drain_on_stop: "none", "drain" or "now"
  poisoned,        \* _decoder_poisoned
  runtime,         \* how far the runtime's stop() has come
  outcomes         \* history: what became of each decoded frame

ring == <<items, gaps, gapEvents, ackedThrough, lastOffered, offered>>
producer == <<captured, held, toOffer, capture>>
cycle == <<work, target, attempts, handled>>
cursors == <<consumed, observed>>
stops == <<stopMode, runtime>>
vars == <<ring, coord, producer, pc, cursors, cycle, stops, poisoned, outcomes>>

Ring == INSTANCE KeyframeRing WITH
          Causes <- {Overflow, CaptureError}, MaxGaps <- MaxFrame
Coord == INSTANCE PublicHistoryCoordinator

ASSUME WorkerAssumption ==
  /\ Ring!RingAssumption
  /\ Coord!CoordinatorAssumption
  /\ MaxAckAttempts \in Nat \ {0}

Frames == 1..MaxFrame

Init ==
  /\ Ring!Init
  /\ Coord!Init
  /\ captured = 0 /\ held = {} /\ toOffer = <<>> /\ capture = "running"
  /\ pc = "loop" /\ consumed = 0 /\ observed = 0
  /\ work = {} /\ target = 0 /\ attempts = 0 /\ handled = FALSE
  /\ stopMode = "none" /\ runtime = "running"
  /\ poisoned = FALSE
  /\ outcomes = [f \in {} |-> "none"]

-----------------------------------------------------------------------------
(* The capture thread.  The detector is abstracted to what it may emit     *)
(* after a frame: nothing, that frame, or an earlier peak and that frame.  *)

LaterThan(frames, emitted) ==
  {f \in frames : \A i \in DOMAIN emitted : f > emitted[i]}

Emissions(frame) == {<<>>, <<frame>>} \cup {<<peak, frame>> : peak \in held}

CaptureFrame ==
  /\ capture = "running" /\ toOffer = <<>> /\ captured < MaxFrame
  /\ captured' = captured + 1
  /\ \E emitted \in Emissions(captured + 1) :
       /\ toOffer' = emitted
       /\ held' = LaterThan(held \cup {captured + 1}, emitted)
  /\ UNCHANGED <<ring, coord, capture, pc, cursors, cycle, stops, poisoned, outcomes>>

CaptureFails ==
  /\ capture = "running" /\ toOffer = <<>> /\ captured < MaxFrame
  /\ captured' = captured + 1
  /\ Ring!RecordGap([cause |-> CaptureError, first |-> captured + 1,
                     last |-> captured + 1, dropped |-> 1])
  /\ UNCHANGED <<coord, held, toOffer, capture, pc, cursors, cycle, stops, poisoned, outcomes>>

OfferKeyframe ==
  /\ toOffer # <<>>
  /\ Ring!Offer(Head(toOffer))
  /\ toOffer' = Tail(toOffer)
  /\ UNCHANGED <<coord, captured, held, capture, pc, cursors, cycle, stops, poisoned, outcomes>>

\* The stop event was seen: the detector flushes the peak and last frame of
\* an unfinished burst, then the source is closed.
FlushAndClose ==
  /\ capture = "stopping" /\ toOffer = <<>>
  /\ capture' = "closed"
  /\ toOffer' \in {<<>>} \cup {<<peak>> : peak \in held}
                          \cup {frames \in held \X held : frames[1] < frames[2]}
  /\ held' = {}
  /\ UNCHANGED <<ring, coord, captured, pc, cursors, cycle, stops, poisoned, outcomes>>

Producer == CaptureFrame \/ CaptureFails \/ OfferKeyframe \/ FlushAndClose
CaptureJoined == capture = "closed" /\ toOffer = <<>>

-----------------------------------------------------------------------------
(* process_once(), one step for each access to shared state.               *)

GapItem(event) ==
  [first |-> event.gap.first, kind |-> 0, order |-> event.revision, last |-> event.gap.last]
KeyframeItem(frame) == [first |-> frame, kind |-> 1, order |-> frame, last |-> frame]
IsGap(item) == item.kind = 0

BeforeGapsOnly(a, b) == a.kind < b.kind \/ (a.kind = b.kind /\ a.order > b.order)

\* by first frame, a gap before a keyframe, then by revision
Before(a, b) ==
  \/ a.first < b.first
  \/ a.first = b.first /\ a.kind < b.kind
  \/ a.first = b.first /\ a.kind = b.kind /\ a.order < b.order

BatchItems(afterFrame, afterRevision) ==
  {GapItem(e) : e \in Ring!BatchGapEvents(afterRevision)}
    \cup {KeyframeItem(f) : f \in Ring!BatchKeyframes(afterFrame)}

Larger(a, b) == IF a > b THEN a ELSE b

StartCycle ==
  /\ pc = "loop" /\ stopMode # "now"
  /\ work' = BatchItems(consumed, observed)
  /\ target' = Ring!gapRevision
  /\ handled' = FALSE
  /\ attempts' = 0
  /\ pc' = "items"
  /\ UNCHANGED <<ring, coord, producer, cursors, stops, poisoned, outcomes>>

\* The item that the sort puts first among those left.
IsNext(item) == item \in work /\ \A other \in work \ {item} : Before(item, other)

\* _process_gap_event()
ApplyGap(item) ==
  /\ IsNext(item) /\ IsGap(item)
  /\ coord' = Coord!Invalidated(coord, item.last)
  /\ consumed' = Larger(consumed, item.last)
  /\ handled' = TRUE
  /\ work' = work \ {item}
  /\ UNCHANGED <<ring, producer, pc, observed, target, attempts, stops, poisoned, outcomes>>

ProcessGap ==
  /\ pc = "items" /\ stopMode # "now"
  /\ \E item \in work : ApplyGap(item)

Recorded(frame, outcome) ==
  [f \in DOMAIN outcomes \cup {frame} |-> IF f = frame THEN outcome ELSE outcomes[f]]

\* The trusted observation of a frame: submit, advance, and a rejection is
\* itself a loss at that frame.
DecodeObservation(frame) ==
  \E snapshot \in Coord!Snapshots :
    LET submitted == Coord!Submitted(coord, frame, snapshot)
        disposition == Coord!ProcessCandidate(submitted, frame, snapshot).disposition
        advanced == Coord!Advanced(submitted, frame)
    IN  /\ Coord!CanSubmit(coord, frame)
        /\ coord' = IF disposition = "rejected"
                    THEN Coord!Invalidated(advanced, frame) ELSE advanced
        /\ outcomes' = Recorded(frame, disposition)
        /\ UNCHANGED poisoned

DecodeTransient(frame) ==
  /\ coord' = Coord!Advanced(coord, frame)
  /\ outcomes' = Recorded(frame, "transient")
  /\ UNCHANGED poisoned

\* A declared gap, a decoder error, or an exception of the coordinator, which
\* popped the candidate and decided nothing; a hard timeout also disables the
\* decoder, and a disabled decoder always fails.
DecodeFails(frame) ==
  /\ coord' = Coord!Invalidated(coord, frame)
  /\ outcomes' = Recorded(frame, "failed")
  /\ poisoned' \in {poisoned, TRUE}

ProcessKeyframeWhenPoisoned ==
  /\ pc = "items" /\ stopMode # "now"
  /\ \E item \in work :
       LET frame == item.first
       IN  /\ IsNext(item) /\ ~IsGap(item)
           /\ DecodeObservation(frame) \/ DecodeTransient(frame) \/ DecodeFails(frame)
           /\ consumed' = Larger(consumed, frame)
           /\ work' = work \ {item}
  /\ handled' = TRUE
  /\ UNCHANGED <<ring, producer, pc, observed, target, attempts, stops>>

ProcessKeyframe ==
  /\ pc = "items" /\ stopMode # "now"
  /\ \E item \in work :
       LET frame == item.first
       IN  /\ IsNext(item) /\ ~IsGap(item)
           /\ \/ ~poisoned /\ DecodeObservation(frame)
              \/ ~poisoned /\ DecodeTransient(frame)
              \/ DecodeFails(frame)
           /\ consumed' = Larger(consumed, frame)
           /\ work' = work \ {item}
  /\ handled' = TRUE
  /\ UNCHANGED <<ring, producer, pc, observed, target, attempts, stops>>

FinishItemsForgettingGaps ==
  /\ pc = "items"
  /\ work = {} \/ stopMode = "now"
  /\ observed' = target
  /\ pc' = IF handled THEN "ack" ELSE "cycled"
  /\ work' = {}
  /\ UNCHANGED <<ring, coord, producer, consumed, target, attempts, handled, stops, poisoned, outcomes>>

\* The batch is done, or abandoned by a stop without draining; the cycle may
\* acknowledge only if no gap of the batch is left.
FinishItems ==
  /\ pc = "items"
  /\ work = {} \/ stopMode = "now"
  /\ LET processedAllGaps == \A item \in work : ~IsGap(item)
     IN  /\ observed' = IF processedAllGaps THEN target ELSE observed
         /\ pc' = IF processedAllGaps /\ handled THEN "ack" ELSE "cycled"
  /\ work' = {}
  /\ UNCHANGED <<ring, coord, producer, consumed, target, attempts, handled, stops, poisoned, outcomes>>

CommitAllOffered ==
  /\ pc = "ack"
  /\ Ring!AcknowledgeConsumerBatch(Larger(consumed, lastOffered), target)
  /\ pc' = "cycled"
  /\ UNCHANGED <<coord, producer, cursors, cycle, stops, poisoned, outcomes>>

CommitAcknowledgement ==
  /\ pc = "ack"
  /\ Ring!AcknowledgeConsumerBatch(consumed, target)
  /\ pc' = "cycled"
  /\ UNCHANGED <<coord, producer, cursors, cycle, stops, poisoned, outcomes>>

StaleAcknowledgement ==
  /\ pc = "ack"
  /\ Ring!IsStaleAcknowledgement(target)
  /\ attempts' = attempts + 1
  /\ pc' = "late"
  /\ UNCHANGED <<ring, coord, producer, cursors, work, target, handled, stops, poisoned, outcomes>>

RereadGapsCursorOnly ==
  /\ pc = "late"
  /\ work' = {}
  /\ target' = Ring!gapRevision
  /\ pc' = "lateGaps"
  /\ UNCHANGED <<ring, coord, producer, cursors, attempts, handled, stops, poisoned, outcomes>>

\* The gaps that arrived during the cycle are read ...
RereadGaps ==
  /\ pc = "late"
  /\ work' = {GapItem(e) : e \in Ring!BatchGapEvents(target)}
  /\ target' = Ring!gapRevision
  /\ pc' = "lateGaps"
  /\ UNCHANGED <<ring, coord, producer, cursors, attempts, handled, stops, poisoned, outcomes>>

\* ... and processed in order, even if the worker is told to stop; ...
ProcessLateGap == pc = "lateGaps" /\ \E item \in work : ApplyGap(item)

\* ... then there is another attempt, unless there were too many ("gap stream
\* did not stabilize before ACK").
FinishLateGaps ==
  /\ pc = "lateGaps" /\ work = {}
  /\ observed' = target
  /\ pc' = IF attempts < MaxAckAttempts THEN "ack" ELSE "fatal"
  /\ UNCHANGED <<ring, coord, producer, consumed, cycle, stops, poisoned, outcomes>>

-----------------------------------------------------------------------------
(* _run(), after process_once() has returned and released its locks.       *)

Idle == ~handled

Loop ==
  /\ pc = "cycled"
  /\ pc' = CASE ~Idle -> "loop"
             [] Idle /\ stopMode = "drain" -> "stopped"
             [] Idle /\ stopMode # "drain" -> "waiting"
  /\ UNCHANGED <<ring, coord, producer, cursors, cycle, stops, poisoned, outcomes>>

WokenUnlessStopping ==
  /\ pc = "waiting"
  /\ Ring!PendingOrNewGap(consumed, observed)
  /\ pc' = "loop"
  /\ UNCHANGED <<ring, coord, producer, cursors, cycle, stops, poisoned, outcomes>>

\* wait_for_pending(): woken by a keyframe, a gap, or the stop event.
Woken ==
  /\ pc = "waiting"
  /\ Ring!PendingOrNewGap(consumed, observed) \/ stopMode # "none"
  /\ pc' = "loop"
  /\ UNCHANGED <<ring, coord, producer, cursors, cycle, stops, poisoned, outcomes>>

\* ... or by its timeout.
WaitTimesOut ==
  /\ pc = "waiting"
  /\ pc' = "loop"
  /\ UNCHANGED <<ring, coord, producer, cursors, cycle, stops, poisoned, outcomes>>

LeaveWithoutDraining ==
  /\ pc = "loop" /\ stopMode = "now"
  /\ pc' = "stopped"
  /\ UNCHANGED <<ring, coord, producer, cursors, cycle, stops, poisoned, outcomes>>

\* The fatal error becomes the background error; _running is cleared.
Fail ==
  /\ pc = "fatal"
  /\ pc' = "failed"
  /\ UNCHANGED <<ring, coord, producer, cursors, cycle, stops, poisoned, outcomes>>

Worker ==
  \/ StartCycle \/ ProcessGap \/ ProcessKeyframe \/ FinishItems
  \/ CommitAcknowledgement \/ StaleAcknowledgement
  \/ RereadGaps \/ ProcessLateGap \/ FinishLateGaps
  \/ Loop \/ Woken \/ LeaveWithoutDraining \/ Fail

InCycle == pc \in {"items", "ack", "late", "lateGaps"}
Ended == pc \in {"stopped", "failed"}

-----------------------------------------------------------------------------
(* ContinuousPublicHistoryRuntime.stop(): revoke what readers see, stop    *)
(* and join the capture thread, then let the worker drain and join it.     *)

RequestShutdown ==
  /\ runtime = "running" /\ stopMode = "none"
  /\ runtime' = "revoking"
  /\ UNCHANGED <<ring, coord, producer, pc, cursors, cycle, stopMode, poisoned, outcomes>>

RevokeBundle ==
  /\ runtime = "revoking" /\ ~InCycle
  /\ coord' = Coord!Invalidated(coord, Coord!NoFrame)
  /\ runtime' = "revoked"
  /\ UNCHANGED <<ring, producer, pc, cursors, cycle, stopMode, poisoned, outcomes>>

StopCapture ==
  /\ runtime = "revoked"
  /\ capture' = "stopping"
  /\ runtime' = "joiningCapture"
  /\ UNCHANGED <<ring, coord, captured, held, toOffer, pc, cursors, cycle, stopMode, poisoned, outcomes>>

StopWorker ==
  /\ runtime = "joiningCapture" /\ CaptureJoined
  /\ stopMode' = "drain"
  /\ runtime' = "joiningWorker"
  /\ UNCHANGED <<ring, coord, producer, pc, cursors, cycle, poisoned, outcomes>>

FinishShutdown ==
  /\ runtime = "joiningWorker" /\ Ended
  /\ runtime' = "stopped"
  /\ UNCHANGED <<ring, coord, producer, pc, cursors, cycle, stopMode, poisoned, outcomes>>

\* The worker's own stop(drain=False).
AbandonWorker ==
  /\ runtime = "running" /\ stopMode = "none"
  /\ stopMode' = "now"
  /\ UNCHANGED <<ring, coord, producer, pc, cursors, cycle, runtime, poisoned, outcomes>>

Shutdown == StopCapture \/ StopWorker \/ FinishShutdown

-----------------------------------------------------------------------------
Next ==
  \/ Producer
  \/ Worker
  \/ WaitTimesOut
  \/ RequestShutdown \/ AbandonWorker
  \/ RevokeBundle
  \/ Shutdown

Spec == Init /\ [][Next]_vars

\* The operating system runs every thread; the worker leaves the coordinator's
\* lock free again and again, so the shutdown gets it at some time.
FairSpec ==
  /\ Spec
  /\ WF_vars(Producer)
  /\ WF_vars(Worker)
  /\ SF_vars(RevokeBundle)
  /\ WF_vars(Shutdown)

-----------------------------------------------------------------------------
\* read_if_caught_up(latest_accepted_frame), under both of the worker's locks.
Readable == ~InCycle /\ ~Ended /\ Ring!CaughtUp(consumed, observed)
Visible == IF Readable THEN Coord!LatestAccepted(coord) ELSE Coord!NoBundle

(* Every variable has its type.                                            *)
TypeOK ==
  /\ Ring!TypeOK
  /\ Coord!TypeOK
  /\ captured \in 0..MaxFrame /\ held \subseteq 1..captured
  /\ \A i \in DOMAIN toOffer : toOffer[i] \in 1..captured
  /\ capture \in {"running", "stopping", "closed"}
  /\ pc \in {"loop", "items", "ack", "late", "lateGaps", "cycled", "waiting", "fatal", "stopped", "failed"}
  /\ {consumed, observed, target} \subseteq 0..MaxFrame
  /\ attempts \in 0..MaxAckAttempts
  /\ {handled, poisoned} \subseteq BOOLEAN
  /\ stopMode \in {"none", "drain", "now"}
  /\ runtime \in {"running", "revoking", "revoked", "joiningCapture", "joiningWorker", "stopped"}
  /\ \A f \in DOMAIN outcomes :
       outcomes[f] \in {"accepted", "rejected", "ignored_gapped_hand", "transient", "failed"}

(* Discarding an acknowledged keyframe loses nothing silently: it was      *)
(* decoded, or a gap event the worker took into account reaches it.        *)
AcknowledgedIsSettled ==
  \A f \in offered :
    f <= ackedThrough =>
      \/ f \in DOMAIN outcomes
      \/ \E r \in 1..observed : gapEvents[r].last >= f

(* A gap the worker counts as observed has reached the coordinator: the    *)
(* history is gapped at least as far, or a later frame anchored anew.      *)
ObservedGapsAreApplied ==
  \A r \in 1..observed :
    \/ coord.status = Coord!Gapped /\ coord.gapFrame >= gapEvents[r].last
    \/ \E f \in DOMAIN outcomes : f > gapEvents[r].last /\ outcomes[f] = "accepted"

(* What a caught-up reader gets is the newest frame published, and every   *)
(* frame published since its hand was anchored was decoded and not lost.   *)
(* ContinuousPublicHistoryRuntime.readiness() compares the frame with both *)
(* cursors again: a caught-up bundle always passes.                        *)
VisibleBundleIsContiguous ==
  Visible # Coord!NoBundle =>
    LET span == Visible.history.anchor .. Visible.frame
    IN  /\ Visible.frame = lastOffered
        /\ Visible.frame = consumed /\ Visible.frame = ackedThrough
        /\ span \cap Ring!Declared(gapEvents) = {}
        /\ span \cap offered \subseteq DOMAIN outcomes
        /\ \A f \in span \cap offered : outcomes[f] \in {"accepted", "transient"}

(* No frame is decoded twice or after a later one, whatever became of the  *)
(* acknowledgements in between: recorder transitions are not idempotent.   *)
DecodedOnceInOrder ==
  [][ \A f \in DOMAIN outcomes' \ DOMAIN outcomes : \A g \in DOMAIN outcomes : g < f ]_vars

(* Once revoked, nothing is shown again: neither after a hard timeout,     *)
(* whose abandoned call may still run, whatever is decoded later, nor      *)
(* after stop() has revoked the bundle, whatever is drained later.         *)
RevokedStaysRevoked ==
  (poisoned \/ runtime \notin {"running", "revoking"}) =>
    Coord!LatestAccepted(coord) = Coord!NoBundle

(* Worker.stop(drain=True): "optionally draining retained input".  When a  *)
(* drained worker has stopped, the ring it drained holds nothing unread.   *)
DrainedStopLeavesNothing ==
  (pc = "stopped" /\ stopMode = "drain") =>
    BatchItems(consumed, observed) = {}

(* Every published keyframe is at last acknowledged and every gap event at *)
(* last taken into account, unless the worker itself ends: no wake-up is   *)
(* lost and no stale acknowledgement repeats for ever, even if the timeout *)
(* of the wait never fires and no keyframe follows a gap.                  *)
EverythingIsConsumed ==
  \A f \in Frames :
    /\ f \in offered ~> (f <= ackedThrough \/ Ended)
    /\ (Ring!gapRevision >= f) ~> (observed >= f \/ Ended)

(* A shutdown that has begun ends.                                         *)
ShutdownCompletes == (runtime = "revoking") ~> (runtime = "stopped")
=============================================================================
