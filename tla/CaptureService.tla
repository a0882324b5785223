--------------------------- MODULE CaptureService ---------------------------
(***************************************************************************)
(* The capture thread (live_capture.py, ContinuousCaptureService) with its *)
(* KeyframeDetector, publishing into the ring, and the lifecycle that      *)
(* starts and stops it together with the worker                            *)
(* (continuous_public_history_decoder.py, ContinuousPublicHistoryRuntime). *)
(*                                                                         *)
(* What the screen shows is a level; two frames differ materially when     *)
(* their levels are Threshold apart, so a slow drift is material only      *)
(* against an older frame.  Time is counted in captures.  The worker is    *)
(* only what its caller can tell: whether it runs, and what it has read.   *)
(***************************************************************************)
EXTENDS Integers, Sequences, SequencesExt, FiniteSets

CONSTANTS
  Capacity, Causes, Overflow, CaptureError,  \* of the ring
  Levels,          \* what the screen may show
  Threshold,       \* the change fraction that is material
  StableFrames,    \* stable_frames
  Heartbeat,       \* heartbeat_interval_ns, in captures
  MaxFrame,        \* bound: captures
  MaxTimeouts      \* bound: joins that time out

ASSUME CaptureAssumption ==
  /\ Threshold \in Nat \ {0} /\ StableFrames \in Nat \ {0} /\ Heartbeat \in Nat \ {0}
  /\ Levels \subseteq Nat

VARIABLES
  items, gaps, gapEvents, ackedThrough, lastOffered, offered,  \* of the ring
  levels,          \* what each captured frame showed, or Failed
  det,             \* the detector, see NewDetector
  burst,           \* history: the frames of the latest burst and its anchor
  toOffer,         \* keyframes selected and not yet offered
  thread,          \* the capture thread
  stopEvent, captureError,
  worker,          \* the worker thread, as far as the runtime sees it
  life,            \* _started, _stopping, _stopped, _failed
  stopper,         \* where start() or stop() is
  timeouts

ring == <<items, gaps, gapEvents, ackedThrough, lastOffered, offered>>
detection == <<levels, det, burst, toOffer>>
capture == <<thread, stopEvent, captureError>>
lifecycle == <<worker, life, stopper, timeouts>>
vars == <<ring, detection, capture, lifecycle>>

Ring == INSTANCE KeyframeRing WITH MaxGaps <- MaxFrame

Failed == -1
NoFrame == 0
Frames == 1..MaxFrame
NewDetector ==
  [anchor |-> NoFrame, previous |-> NoFrame, emitted |-> NoFrame,
   first |-> NoFrame, peak |-> NoFrame, run |-> 0]

-----------------------------------------------------------------------------
(* KeyframeDetector.                                                       *)

Distance(shown, f, g) ==
  IF shown[f] > shown[g] THEN shown[f] - shown[g] ELSE shown[g] - shown[f]
Material(shown, f, g) == Distance(shown, f, g) >= Threshold

InBurst == det.first # NoFrame
Higher(shown, f) ==
  IF Distance(shown, det.anchor, f) > Distance(shown, det.anchor, det.peak) THEN f ELSE det.peak

\* An anchor at the frame a burst ends with.
Settled(f) ==
  [NewDetector EXCEPT !.anchor = f, !.previous = f, !.emitted = det.emitted]

Unless(f, known) == IF f \in known THEN <<>> ELSE <<f>>

Selecting(frames, new) ==
  /\ toOffer' = frames
  /\ det' = [new EXCEPT !.emitted = IF frames = <<>> THEN @ ELSE Last(frames)]

Baseline(f) ==
  /\ det.anchor = NoFrame
  /\ Selecting(<<f>>, [det EXCEPT !.anchor = f, !.previous = f])
  /\ UNCHANGED burst

\* A frame that differs from the previous one or from the anchor begins a
\* burst; otherwise a quiet scene is shown again after a while.
Quiet(shown, f) ==
  /\ det.anchor # NoFrame /\ ~InBurst
  /\ IF Material(shown, det.previous, f) \/ Material(shown, det.anchor, f)
     THEN /\ Selecting(<<f>>, [det EXCEPT !.previous = f, !.first = f, !.peak = f, !.run = 0])
          /\ burst' = [anchor |-> det.anchor, frames |-> {f}]
     ELSE /\ Selecting(IF f - det.emitted >= Heartbeat THEN <<f>> ELSE <<>>,
                       [det EXCEPT !.previous = f])
          /\ UNCHANGED burst

MovingWithoutPeak(shown, f) ==
  /\ InBurst
  /\ burst' = [burst EXCEPT !.frames = @ \cup {f}]
  /\ LET run == IF Material(shown, det.previous, f) THEN 0 ELSE det.run + 1
     IN  IF run >= StableFrames
         THEN Selecting(<<f>>, Settled(f))
         ELSE Selecting(<<>>, [det EXCEPT !.previous = f, !.run = run])

\* The peak and the frame that is stable at last end a burst.
Moving(shown, f) ==
  /\ InBurst
  /\ burst' = [burst EXCEPT !.frames = @ \cup {f}]
  /\ LET peak == Higher(shown, f)
         run == IF Material(shown, det.previous, f) THEN 0 ELSE det.run + 1
     IN  IF run >= StableFrames
         THEN Selecting(Unless(peak, {det.first, f}) \o Unless(f, {det.first}), Settled(f))
         ELSE Selecting(<<>>, [det EXCEPT !.previous = f, !.peak = peak, !.run = run])

Observe(shown, f) == Baseline(f) \/ Quiet(shown, f) \/ Moving(shown, f)

\* flush(): what is retained of an unfinished burst.
Flush ==
  /\ UNCHANGED burst
  /\ IF InBurst
     THEN Selecting(Unless(det.peak, {det.first}) \o Unless(det.previous, {det.first, det.peak}),
                    Settled(det.previous))
     ELSE UNCHANGED <<det, toOffer>>

-----------------------------------------------------------------------------
(* The capture thread: _run(), capture_once(), _offer().                   *)

CaptureFrame ==
  /\ thread = "capture" /\ ~stopEvent /\ toOffer = <<>> /\ Len(levels) < MaxFrame
  /\ \E level \in Levels :
       /\ levels' = Append(levels, level)
       /\ Observe(levels', Len(levels'))
  /\ UNCHANGED <<ring, capture, lifecycle>>

CaptureFails ==
  /\ thread = "capture" /\ ~stopEvent /\ toOffer = <<>> /\ Len(levels) < MaxFrame
  /\ levels' = Append(levels, Failed)
  /\ Ring!RecordGap([cause |-> CaptureError, first |-> Len(levels'), last |-> Len(levels'), dropped |-> 1])
  /\ UNCHANGED <<det, burst, toOffer, capture, lifecycle>>

\* One keyframe after the other; the ring raises on one that is out of order.
Offer ==
  /\ toOffer # <<>>
  /\ Ring!Offer(Head(toOffer))
  /\ toOffer' = Tail(toOffer)
  /\ UNCHANGED <<levels, det, burst, capture, lifecycle>>

LeaveLoop ==
  /\ thread = "capture" /\ stopEvent /\ toOffer = <<>>
  /\ Flush
  /\ thread' = "closing"
  /\ UNCHANGED <<ring, levels, stopEvent, captureError, lifecycle>>

\* Closing the source may fail; the error is kept for stop().
CloseSource ==
  /\ thread = "closing" /\ toOffer = <<>>
  /\ thread' = "closed" /\ captureError' \in BOOLEAN
  /\ UNCHANGED <<ring, detection, stopEvent, lifecycle>>

CaptureThread == CaptureFrame \/ CaptureFails \/ Offer \/ LeaveLoop \/ CloseSource

-----------------------------------------------------------------------------
(* The worker, as the runtime sees it.                                     *)

WorkerReads ==
  /\ worker \in {"running", "draining"}
  /\ \E through \in offered : Ring!AcknowledgeConsumerBatch(through, Ring!gapRevision)
  /\ UNCHANGED <<detection, capture, lifecycle>>

WorkerEnds ==
  /\ \/ worker \in {"draining", "quitting"} /\ worker' = "ended"
     \/ worker \in {"running", "draining"} /\ worker' = "failed"
  /\ UNCHANGED <<ring, detection, capture, life, stopper, timeouts>>

-----------------------------------------------------------------------------
(* ContinuousPublicHistoryRuntime.start() and stop().                      *)

OnLife(new, next) ==
  /\ life' = new /\ stopper' = next
  /\ UNCHANGED <<ring, detection, levels, captureError>>

Start ==
  /\ stopper = "idle" /\ ~life.started /\ ~life.stopped
  /\ OnLife([life EXCEPT !.started = TRUE], "startWorker")
  /\ UNCHANGED <<thread, stopEvent, worker, timeouts>>

StartWorker ==
  /\ stopper = "startWorker"
  /\ \/ worker' = "running" /\ OnLife(life, "startCapture")
     \/ UNCHANGED worker /\ OnLife([life EXCEPT !.failed = TRUE, !.stopped = TRUE], "idle")
  /\ UNCHANGED <<thread, stopEvent, timeouts>>

\* If the thread cannot be started, the worker is told to quit at once.
StartCapture ==
  /\ stopper = "startCapture"
  /\ \/ thread' = "capture" /\ OnLife(life, "idle") /\ UNCHANGED worker
     \/ /\ worker' = IF worker = "running" THEN "quitting" ELSE worker
        /\ OnLife(life, "undo") /\ UNCHANGED thread
  /\ UNCHANGED <<stopEvent, timeouts>>

\* The runtime counts as stopped even if that worker is not seen to end.
UndoStart ==
  /\ stopper = "undo"
  /\ \/ worker # "quitting" /\ UNCHANGED timeouts
     \/ worker = "quitting" /\ timeouts < MaxTimeouts /\ timeouts' = timeouts + 1
  /\ OnLife([life EXCEPT !.failed = TRUE, !.stopped = TRUE], "idle")
  /\ UNCHANGED <<thread, stopEvent, worker>>

\* The first call also revokes what readers see (PublicHistoryWorker).
Stop ==
  /\ stopper = "idle" /\ ~life.stopped
  /\ IF life.started
     THEN OnLife([life EXCEPT !.stopping = TRUE], "joinCapture") /\ stopEvent' = TRUE
     ELSE OnLife([life EXCEPT !.stopped = TRUE], "idle") /\ UNCHANGED stopEvent
  /\ UNCHANGED <<thread, worker, timeouts>>

TellWorker == worker' = IF worker = "running" THEN "draining" ELSE worker

JoinTimesOut ==
  /\ timeouts < MaxTimeouts
  /\ timeouts' = timeouts + 1
  /\ OnLife([life EXCEPT !.stopping = FALSE], "idle")

JoinCaptureOnce ==
  /\ stopper = "joinCapture"
  /\ TellWorker
  /\ OnLife(life, "joinWorker")
  /\ UNCHANGED <<thread, stopEvent, timeouts>>

\* A capture thread that does not end keeps the worker alive, for a retry; one
\* that ended with an error does not.
JoinCapture ==
  /\ stopper = "joinCapture"
  /\ \/ thread = "closed" /\ TellWorker /\ OnLife(life, "joinWorker") /\ UNCHANGED timeouts
     \/ thread # "closed" /\ JoinTimesOut /\ UNCHANGED worker
  /\ UNCHANGED <<thread, stopEvent>>

\* A worker that failed makes stop() raise, every time.
JoinWorker ==
  /\ stopper = "joinWorker"
  /\ \/ /\ worker = "ended" /\ UNCHANGED timeouts
        /\ OnLife([life EXCEPT !.stopping = FALSE, !.stopped = TRUE, !.failed = @ \/ captureError], "idle")
     \/ /\ worker = "failed" /\ UNCHANGED timeouts
        /\ OnLife([life EXCEPT !.stopping = FALSE, !.failed = @ \/ captureError], "idle")
     \/ worker = "draining" /\ JoinTimesOut
  /\ UNCHANGED <<thread, stopEvent, worker>>

Runtime == Start \/ StartWorker \/ StartCapture \/ UndoStart \/ Stop \/ JoinCapture \/ JoinWorker

-----------------------------------------------------------------------------
Init ==
  /\ Ring!Init
  /\ levels = <<>> /\ det = NewDetector /\ toOffer = <<>>
  /\ burst = [anchor |-> NoFrame, frames |-> {}]
  /\ thread = "new" /\ stopEvent = FALSE /\ captureError = FALSE
  /\ worker = "new" /\ stopper = "idle" /\ timeouts = 0
  /\ life = [started |-> FALSE, stopping |-> FALSE, stopped |-> FALSE, failed |-> FALSE]

Next == CaptureThread \/ WorkerReads \/ WorkerEnds \/ Runtime

Spec == Init /\ [][Next]_vars

-----------------------------------------------------------------------------
(* Every variable has its type.                                            *)
TypeOK ==
  /\ Ring!TypeOK
  /\ \A f \in DOMAIN levels : levels[f] \in Levels \cup {Failed}
  /\ {det.anchor, det.previous, det.emitted, det.first, det.peak} \subseteq 0..Len(levels)
  /\ det.run \in 0..StableFrames - 1
  /\ burst.frames \subseteq Frames
  /\ thread \in {"new", "capture", "closing", "closed"}
  /\ worker \in {"new", "running", "draining", "quitting", "ended", "failed"}
  /\ stopper \in {"idle", "startWorker", "startCapture", "undo", "joinCapture", "joinWorker"}
  /\ {stopEvent, captureError, life.started, life.stopping, life.stopped, life.failed} \subseteq BOOLEAN
  /\ timeouts \in 0..MaxTimeouts

Published == offered \cup {toOffer[i] : i \in DOMAIN toOffer}

(* The keyframes tell what happened on the screen.  Outside a burst some   *)
(* keyframe shows what the last frame shows, up to an immaterial change;   *)
(* of a burst that is over, a keyframe shows the greatest change; they are *)
(* offered in the order the ring insists on; and a thread that closed,     *)
(* even in the middle of a burst, leaves no burst and no keyframe behind.  *)
KeyframesTellTheScene ==
  /\ (~InBurst /\ det.previous # NoFrame) =>
       /\ det.anchor \in Published
       /\ ~Material(levels, det.anchor, det.previous)
  /\ (~InBurst /\ burst.frames # {}) =>
       \E f \in burst.frames \cap Published : \A g \in burst.frames :
         Distance(levels, burst.anchor, g) <= Distance(levels, burst.anchor, f)
  /\ \A i \in DOMAIN toOffer : toOffer[i] > (<<lastOffered>> \o toOffer)[i]
  /\ thread = "closed" => ~InBurst /\ toOffer = <<>>

(* The worker is asked to drain only after the capture thread has offered  *)
(* its last keyframe, however often stop() timed out and was repeated, and *)
(* a runtime that counts as stopped leaves no thread that was not told to  *)
(* end: also when only one of the two could be started.                    *)
StopIsOrderly ==
  /\ worker = "draining" => thread = "closed" /\ toOffer = <<>>
  /\ life.stopped => thread \in {"new", "closed"} /\ worker # "running"
=============================================================================
