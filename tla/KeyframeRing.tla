---------------------------- MODULE KeyframeRing ----------------------------
(***************************************************************************)
(* The bounded keyframe store between the capture thread and its one       *)
(* transactional consumer (live_capture.py, class KeyframeRing).  Every    *)
(* public method of the class runs under one condition, so every operation *)
(* is one atomic action here.                                              *)
(*                                                                         *)
(* offer() raises unless frame identifiers increase, so the deque holds    *)
(* strictly increasing identifiers and is modelled by the SET of them:     *)
(* popping heads that are <= n removes exactly the members <= n.           *)
(***************************************************************************)
EXTENDS Naturals, FiniteSets, Sequences, FiniteSetsExt, SequencesExt

CONSTANTS
  Capacity,      \* retained keyframes at most
  Causes,        \* (kind, reason) pairs of gaps, as model values
  Overflow,      \* the cause that offer() itself declares
  MaxFrame,      \* bound of the model: largest frame identifier
  MaxGaps        \* bound of the model: gap events ever recorded

ASSUME RingAssumption ==
  /\ Capacity \in Nat \ {0}
  /\ Overflow \in Causes
  /\ MaxFrame \in Nat
  /\ MaxGaps \in Nat

VARIABLES
  items,         \* _items: identifiers of the retained keyframes
  gaps,          \* _gaps: the coalesced, sorted diagnostic ledger
  gapEvents,     \* _gap_events: the raw events; an event's index is its revision
  ackedThrough,  \* _acked_through
  lastOffered,   \* _last_offered_frame_id
  offered        \* history: every identifier offer() was given

vars == <<items, gaps, gapEvents, ackedThrough, lastOffered, offered>>

Frames == 1..MaxFrame
CaptureGap == [cause : Causes, first : Frames, last : Frames, dropped : Nat \ {0}]

\* _gap_revision grows by one with every appended event.
gapRevision == Len(gapEvents)

Span(gap) == gap.first .. gap.last
Declared(ledger) == UNION {Span(ledger[i]) : i \in DOMAIN ledger}

-----------------------------------------------------------------------------
\* Two gaps merge when they have one cause and touch, the earlier one first.
Touches(previous, gap) ==
  /\ previous.cause = gap.cause
  /\ previous.first <= gap.first
  /\ gap.first <= previous.last + 1

MergedKeepsNewLast(previous, gap) ==
  [cause |-> previous.cause, first |-> previous.first, last |-> gap.last,
   dropped |-> previous.dropped + gap.dropped]

Merged(previous, gap) ==
  [cause |-> previous.cause, first |-> previous.first,
   last |-> Max({previous.last, gap.last}),
   dropped |-> previous.dropped + gap.dropped]

NotAfter(g, h) == g.first < h.first \/ (g.first = h.first /\ g.last <= h.last)

\* append, then a stable sort by (first, last)
Inserted(ledger, gap) ==
  LET place == Cardinality({i \in DOMAIN ledger : NotAfter(ledger[i], gap)}) + 1
  IN  InsertAt(ledger, place, gap)

Coalesced(ledger, gap) ==
  IF ledger # <<>> /\ Touches(Last(ledger), gap)
  THEN ReplaceAt(ledger, Len(ledger), Merged(Last(ledger), gap))
  ELSE Inserted(ledger, gap)

CoalesceGap(gap) ==
  /\ gaps' = Coalesced(gaps, gap)
  /\ gapEvents' = Append(gapEvents, gap)

-----------------------------------------------------------------------------
Init ==
  /\ items = {}
  /\ gaps = <<>>
  /\ gapEvents = <<>>
  /\ ackedThrough = 0
  /\ lastOffered = 0
  /\ offered = {}

\* A report of lost frames by a caller; the capture service sends one per
\* failed capture (record_gap itself takes any interval).
RecordGap(gap) ==
  /\ gapRevision < MaxGaps
  /\ CoalesceGap(gap)
  /\ UNCHANGED <<items, ackedThrough, lastOffered, offered>>

Unacked(ids, through) == {f \in ids : f > through}

\* The room that is left after acknowledged heads are discarded.
HasRoom(kept) == Cardinality(kept) < Capacity

OverflowGap(frame) ==
  [cause |-> Overflow, first |-> frame, last |-> frame, dropped |-> 1]

OfferEvictsOldest(frame) ==
  /\ frame > lastOffered
  /\ lastOffered' = frame
  /\ offered' = offered \cup {frame}
  /\ IF frame <= ackedThrough \/ HasRoom(items)
     THEN items' = items \cup {frame}
     ELSE items' = (items \cup {frame}) \ {CHOOSE f \in items : \A g \in items : f <= g}
  /\ UNCHANGED <<gaps, gapEvents, ackedThrough>>

\* A frame at or below the watermark is dropped without a trace; a frame that
\* finds no room becomes an overflow gap instead of evicting another one.
Offer(frame) ==
  LET kept == IF HasRoom(items) THEN items ELSE Unacked(items, ackedThrough)
  IN  /\ frame > lastOffered
      /\ lastOffered' = frame
      /\ offered' = offered \cup {frame}
      /\ UNCHANGED ackedThrough
      /\ \/ /\ frame <= ackedThrough
            /\ UNCHANGED <<items, gaps, gapEvents>>
         \/ /\ frame > ackedThrough
            /\ HasRoom(kept)
            /\ items' = kept \cup {frame}
            /\ UNCHANGED <<gaps, gapEvents>>
         \/ /\ frame > ackedThrough
            /\ ~HasRoom(kept)
            /\ gapRevision < MaxGaps
            /\ items' = kept
            /\ CoalesceGap(OverflowGap(frame))

Acknowledge(through) ==
  /\ through >= ackedThrough
  /\ ackedThrough' = through
  /\ items' = Unacked(items, through)
  /\ UNCHANGED <<gaps, gapEvents, lastOffered, offered>>

\* acknowledge_consumer_batch() commits only at the revision the consumer read.
AcknowledgeConsumerBatch(through, expectedRevision) ==
  /\ expectedRevision = gapRevision
  /\ Acknowledge(through)

\* ... and otherwise returns False and leaves everything untouched.
IsStaleAcknowledgement(expectedRevision) == expectedRevision < gapRevision

-----------------------------------------------------------------------------
\* consumer_batch(): one atomic snapshot past the consumer's two cursors.
BatchKeyframes(afterFrame) == Unacked(items, afterFrame)
BatchGapEvents(afterRevision) ==
  {[revision |-> r, gap |-> gapEvents[r]] : r \in afterRevision + 1 .. gapRevision}

\* read_if_caught_up() runs its reader only when all four tests pass.
CaughtUp(consumedThrough, observedRevision) ==
  /\ gapRevision = observedRevision
  /\ BatchKeyframes(consumedThrough) = {}
  /\ ackedThrough = consumedThrough
  /\ lastOffered <= consumedThrough

PendingNewGap(afterFrame, afterRevision) ==
  gapRevision > afterRevision /\ afterFrame >= 0

\* The predicate wait_for_pending() blocks on (its stop event is the caller's).
PendingOrNewGap(afterFrame, afterRevision) ==
  \/ BatchKeyframes(afterFrame) # {}
  \/ gapRevision > afterRevision

-----------------------------------------------------------------------------
\* The ring alone, under callers that use it in any order.
Next ==
  \/ \E frame \in Frames : Offer(frame)
  \/ \E cause \in Causes \ {Overflow} : \E first \in Frames : \E last \in first..MaxFrame :
       RecordGap([cause |-> cause, first |-> first, last |-> last, dropped |-> 1])
  \/ \E through \in 0..MaxFrame : Acknowledge(through)
  \/ \E through \in 0..MaxFrame : \E revision \in 0..MaxGaps :
       AcknowledgeConsumerBatch(through, revision)

Spec == Init /\ [][Next]_vars

-----------------------------------------------------------------------------
(* Every variable has its type and the deque respects its capacity.        *)
TypeOK ==
  /\ items \in SUBSET Frames
  /\ Cardinality(items) <= Capacity
  /\ gaps \in Seq(CaptureGap)
  /\ gapEvents \in Seq(CaptureGap)
  /\ ackedThrough \in 0..MaxFrame
  /\ lastOffered \in 0..MaxFrame
  /\ offered \in SUBSET Frames

(* KeyframeRing's class comment: an unacknowledged keyframe is never       *)
(* silently evicted.  Every frame ever offered above the watermark is      *)
(* still retained or is declared lost by a raw gap event a consumer reads. *)
NoSilentEviction ==
  \A frame \in Unacked(offered, ackedThrough) :
    frame \in items \/ frame \in Declared(gapEvents)

\* The frames, and the number of drops, that a ledger declares for one cause.
DeclaredOf(ledger, cause) ==
  UNION {Span(ledger[i]) : i \in {j \in DOMAIN ledger : ledger[j].cause = cause}}
Drops(gap, cause) == IF gap.cause = cause THEN gap.dropped ELSE 0
DroppedOf(ledger, cause) ==
  LET sum[n \in 0..Len(ledger)] ==
        IF n = 0 THEN 0 ELSE sum[n - 1] + Drops(ledger[n], cause)
  IN  sum[Len(ledger)]

(* gaps() is a diagnostic view of the raw events: however events arrive,   *)
(* coalescing never loses, invents or re-attributes a lost frame or a      *)
(* dropped count, and leaves the ledger sorted by (first, last).           *)
CoalescedLedgerExact ==
  /\ IsSorted(gaps, NotAfter)
  /\ \A cause \in Causes :
       /\ DeclaredOf(gaps, cause) = DeclaredOf(gapEvents, cause)
       /\ DroppedOf(gaps, cause) = DroppedOf(gapEvents, cause)

(* Every step of the ring is a step of the abstract ledger, with the lost  *)
(* frames read from the COALESCED gaps that readers of gaps() see.         *)
Ledger == INSTANCE FrameLedger WITH
  retained <- items, lost <- Declared(gaps), watermark <- ackedThrough
ImplementsFrameLedger == Ledger!Spec
=============================================================================
