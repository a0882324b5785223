---------------------------- MODULE FrameLedger ----------------------------
(***************************************************************************)
(* What the keyframe ring promises its consumer, with no capacity, no gap  *)
(* list and no revisions: every frame that is published is retained, or    *)
(* declared lost, or at or below the watermark the consumer has already    *)
(* acknowledged; nothing retained leaves but by an acknowledgement, and    *)
(* a declared loss is never withdrawn.                                     *)
(***************************************************************************)
EXTENDS Naturals

CONSTANT Frames

VARIABLES
  offered,    \* frames published so far
  retained,   \* frames a consumer may still read
  lost,       \* frames declared lost
  watermark   \* frames at or below it are settled

vars == <<offered, retained, lost, watermark>>

Init ==
  /\ offered = {}
  /\ retained = {}
  /\ lost = {}
  /\ watermark = 0

IsNew(frame) == \A f \in offered : f < frame

Retain(frame) ==
  /\ IsNew(frame)
  /\ frame > watermark
  /\ offered' = offered \cup {frame}
  /\ retained' = retained \cup {frame}
  /\ UNCHANGED <<lost, watermark>>

Refuse(frame) ==
  /\ IsNew(frame)
  /\ offered' = offered \cup {frame}
  /\ lost' = lost \cup {frame}
  /\ UNCHANGED <<retained, watermark>>

PublishLate(frame) ==
  /\ IsNew(frame)
  /\ frame <= watermark
  /\ offered' = offered \cup {frame}
  /\ UNCHANGED <<retained, lost, watermark>>

Declare(first, last) ==
  /\ lost' = lost \cup first..last
  /\ UNCHANGED <<offered, retained, watermark>>

Release(through) ==
  /\ through >= watermark
  /\ watermark' = through
  /\ retained' = {f \in retained : f > through}
  /\ UNCHANGED <<offered, lost>>

Next ==
  \/ \E frame \in Frames : Retain(frame) \/ Refuse(frame) \/ PublishLate(frame)
  \/ \E first, last \in Frames : Declare(first, last)
  \/ \E through \in {0} \cup Frames : Release(through)

Spec == Init /\ [][Next]_vars

(* The promise as a state predicate: no published frame is unaccounted for. *)
EveryFrameAccounted ==
  \A f \in offered : f \in retained \/ f \in lost \/ f <= watermark
=============================================================================
