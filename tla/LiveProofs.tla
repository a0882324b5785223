------------------------------ MODULE LiveProofs ------------------------------
(***************************************************************************)
(* Proofs about the capture service, for every screen, threshold, heart-   *)
(* beat and number of frames, and about the analysis of a key press, for   *)
(* every game, table and reading: see MCLive, which runs both.             *)
(***************************************************************************)
EXTENDS MCLive, SequenceTheorems, NaturalsInduction, WellFoundedInduction, TLAPS

Lives == [started : BOOLEAN, stopping : BOOLEAN, stopped : BOOLEAN, failed : BOOLEAN]

(* The threads and the runtime.  Starting comes before the capture thread, *)
(* and a worker is told to drain once that thread is closed.               *)
ThreadsOK ==
  /\ life \in Lives
  /\ thread \in {"new", "capture", "closing", "closed"}
  /\ thread = "closed" => toOffer = <<>>
  /\ ~life.started => thread = "new" /\ worker = "new" /\ stopper = "idle"
  /\ stopper \in {"startWorker", "startCapture", "undo"} => thread = "new" /\ ~life.stopped
  /\ stopper = "startWorker" => worker = "new"
  /\ stopper = "undo" => worker # "running"
  /\ stopper \in {"joinCapture", "joinWorker"} => ~life.stopped
  /\ stopper = "joinWorker" => thread = "closed"
  /\ worker = "draining" => thread = "closed"
  /\ life.stopped => thread \in {"new", "closed"} /\ worker # "running"

LEMMA ThreadsInit == Init => ThreadsOK
BY DEF Init, ThreadsOK, Lives

LEMMA ThreadsNext == ThreadsOK /\ [Next]_vars => ThreadsOK'
<1> SUFFICES ASSUME ThreadsOK, [Next]_vars PROVE ThreadsOK'
  OBVIOUS
<1>1. CASE CaptureFrame \/ CaptureFails \/ LeaveLoop
  BY <1>1 DEF ThreadsOK, CaptureFrame, CaptureFails, LeaveLoop, capture, lifecycle
<1>2. CASE Offer \/ CloseSource \/ WorkerReads
  BY <1>2 DEF ThreadsOK, Offer, CloseSource, WorkerReads, capture, lifecycle, detection
<1>3. CASE WorkerEnds
  BY <1>3 DEF ThreadsOK, WorkerEnds, capture, detection
<1>4. CASE Start
  BY <1>4 DEF ThreadsOK, Start, OnLife, detection, Lives
<1>5. CASE StartWorker
  BY <1>5 DEF ThreadsOK, StartWorker, OnLife, detection, Lives
<1>6. CASE StartCapture
  BY <1>6 DEF ThreadsOK, StartCapture, OnLife, detection, Lives
<1>7. CASE UndoStart
  BY <1>7 DEF ThreadsOK, UndoStart, OnLife, detection, Lives
<1>8. CASE Stop
  BY <1>8 DEF ThreadsOK, Stop, OnLife, detection, Lives
<1>9. CASE JoinCapture
  BY <1>9 DEF ThreadsOK, JoinCapture, JoinTimesOut, TellWorker, OnLife, detection, Lives
<1>10. CASE JoinWorker
  BY <1>10 DEF ThreadsOK, JoinWorker, JoinTimesOut, OnLife, detection, Lives
<1>11. CASE UNCHANGED vars
  BY <1>11 DEF ThreadsOK, vars, capture, lifecycle, detection
<1>12. QED
  BY <1>1, <1>2, <1>3, <1>4, <1>5, <1>6, <1>7, <1>8, <1>9, <1>10, <1>11
    DEF Next, CaptureThread, Runtime

(* The specification the run checks refines each of its two parts.         *)
LEMMA LiveIsCapture == LiveSpec => Spec
<1>1. LiveInit => Init
  BY DEF LiveInit
<1>2. [LiveNext]_<<vars, flowVars, part>> => [Next]_vars
  BY DEF LiveNext
<1>3. QED
  BY <1>1, <1>2, PTL DEF LiveSpec, Spec

(* The worker drains only what is complete, and a stopped runtime leaves   *)
(* no thread that was not told to end.                                     *)
THEOREM LiveStopIsOrderly == LiveSpec => []StopIsOrderly
<1>1. ThreadsOK => StopIsOrderly
  BY DEF ThreadsOK, StopIsOrderly
<1>2. Spec => []ThreadsOK
  BY ThreadsInit, ThreadsNext, PTL DEF Spec
<1>3. QED
  BY <1>1, <1>2, LiveIsCapture, PTL

-----------------------------------------------------------------------------
(* What was selected and not yet offered is at most two keyframes, later   *)
(* than the ring's last and in order; the detector remembers the last one. *)
OffersOK ==
  /\ lastOffered \in Nat
  /\ \/ toOffer = <<>> /\ lastOffered = det.emitted
     \/ \E a \in Nat : toOffer = <<a>> /\ lastOffered < a /\ det.emitted = a
     \/ \E a, b \in Nat : toOffer = <<a, b>> /\ lastOffered < a /\ a < b /\ det.emitted = b

Known == 0..Len(levels)
Bursts == [anchor : Nat, frames : SUBSET Nat]
Detectors == [anchor : Nat, previous : Nat, emitted : Nat, first : Nat, peak : Nat, run : Nat]

DetectorOK ==
  /\ levels \in Seq(Int)
  /\ det \in Detectors /\ burst \in Bursts
  /\ {det.anchor, det.previous, det.emitted, det.first, det.peak} \subseteq Known
  /\ burst.frames \subseteq Known \ {0} /\ burst.anchor \in Known
  /\ burst.frames # {} => burst.anchor # 0
  /\ (det.previous = 0 <=> det.anchor = 0)

\* The greatest change of the latest burst is at f.
IsGreatest(f) ==
  \A g \in burst.frames :
    Distance(levels, burst.anchor, g) <= Distance(levels, burst.anchor, f)

SceneOK ==
  /\ (~InBurst /\ det.previous # 0) =>
       det.anchor \in Published /\ ~Material(levels, det.anchor, det.previous)
  /\ (~InBurst /\ burst.frames # {}) => \E f \in burst.frames \cap Published : IsGreatest(f)
  /\ InBurst =>
       /\ det.anchor # 0 /\ burst.anchor = det.anchor
       /\ det.first = det.emitted /\ det.first \in Published
       /\ det.first <= det.peak /\ det.peak <= det.previous
       /\ {det.first, det.peak, det.previous} \subseteq burst.frames
       /\ IsGreatest(det.peak)
  /\ thread \in {"closing", "closed"} => ~InBurst
  /\ thread = "closed" => toOffer = <<>>

CaptureInv == OffersOK /\ DetectorOK /\ SceneOK

LEMMA OfferedInOrder ==
  ASSUME OffersOK PROVE \A i \in DOMAIN toOffer : toOffer[i] > (<<lastOffered>> \o toOffer)[i]
<1>1. CASE toOffer = <<>>
  BY <1>1
<1>2. ASSUME NEW a \in Nat, toOffer = <<a>>, lastOffered < a
      PROVE  \A i \in DOMAIN toOffer : toOffer[i] > (<<lastOffered>> \o toOffer)[i]
  BY <1>2 DEF OffersOK
<1>3. ASSUME NEW a \in Nat, NEW b \in Nat, toOffer = <<a, b>>, lastOffered < a, a < b
      PROVE  \A i \in DOMAIN toOffer : toOffer[i] > (<<lastOffered>> \o toOffer)[i]
  BY <1>3 DEF OffersOK
<1>4. QED
  BY <1>1, <1>2, <1>3 DEF OffersOK

LEMMA CaptureInvTells ==
  ASSUME CaptureInv PROVE KeyframesTellTheScene
<1>1. \A i \in DOMAIN toOffer : toOffer[i] > (<<lastOffered>> \o toOffer)[i]
  BY OfferedInOrder DEF CaptureInv
<1>2. QED
  BY <1>1 DEF CaptureInv, SceneOK, KeyframesTellTheScene, IsGreatest, NoFrame

LEMMA CaptureInit == Init => CaptureInv
<1> SUFFICES ASSUME Init PROVE CaptureInv
  OBVIOUS
<1>1. /\ levels = <<>> /\ toOffer = <<>> /\ lastOffered = 0 /\ thread = "new"
      /\ det = [anchor |-> 0, previous |-> 0, emitted |-> 0, first |-> 0, peak |-> 0, run |-> 0]
      /\ burst = [anchor |-> 0, frames |-> {}]
  BY DEF Init, Ring!Init, NewDetector, NoFrame
<1>2. OffersOK
  BY <1>1 DEF OffersOK
<1>3. DetectorOK
  <2>1. levels \in Seq(Int) /\ Len(levels) = 0
    BY <1>1
  <2>2. det \in Detectors
    BY <1>1 DEF Detectors
  <2>3. burst \in Bursts /\ burst.frames = {} /\ burst.anchor = 0
    BY <1>1 DEF Bursts
  <2>4. QED
    BY <2>1, <2>2, <2>3, <1>1 DEF DetectorOK, Known
<1>4. SceneOK
  BY <1>1 DEF SceneOK, InBurst, NoFrame
<1>5. QED
  BY <1>2, <1>3, <1>4 DEF CaptureInv

(* A keyframe is offered: what is published stays the same.                *)
LEMMA OfferStep == ASSUME CaptureInv, Offer PROVE CaptureInv'
<1>1. /\ toOffer # <<>> /\ lastOffered' = Head(toOffer) /\ offered' = offered \cup {Head(toOffer)}
      /\ toOffer' = Tail(toOffer) /\ UNCHANGED <<levels, det, burst, thread>>
  BY DEF Offer, Ring!Offer, capture
<1>2. OffersOK' /\ Published' = Published
  <2>1. ASSUME NEW a \in Nat, toOffer = <<a>>, det.emitted = a
        PROVE  OffersOK' /\ Published' = Published
    <3>1. Head(toOffer) = a /\ Tail(toOffer) = <<>>
      BY <2>1
    <3>2. toOffer' = <<>> /\ lastOffered' = a /\ offered' = offered \cup {a}
      BY <3>1, <1>1
    <3>3. QED
      BY <2>1, <3>2, <1>1 DEF OffersOK, Published
  <2>2. ASSUME NEW a \in Nat, NEW b \in Nat, toOffer = <<a, b>>, a < b, det.emitted = b
        PROVE  OffersOK' /\ Published' = Published
    <3>1. Head(toOffer) = a /\ Tail(toOffer) = <<b>>
      BY <2>2
    <3>2. toOffer' = <<b>> /\ lastOffered' = a /\ offered' = offered \cup {a}
      BY <3>1, <1>1
    <3>3. Published' = offered \cup {a, b}
      BY <3>2 DEF Published
    <3>4. Published = offered \cup {a, b}
      BY <2>2 DEF Published
    <3>5. QED
      BY <2>2, <3>2, <3>3, <3>4, <1>1 DEF OffersOK
  <2>3. QED
    BY <2>1, <2>2, <1>1 DEF CaptureInv, OffersOK
<1>3. DetectorOK'
  BY <1>1 DEF CaptureInv, DetectorOK, Known
<1>4. SceneOK'
  BY <1>1, <1>2 DEF CaptureInv, SceneOK, InBurst, IsGreatest
<1>5. QED
  BY <1>2, <1>3, <1>4 DEF CaptureInv

(* A capture adds a frame and leaves the older ones as they were.          *)
LEMMA Capturing ==
  ASSUME levels \in Seq(Int), NEW level \in Int, levels' = Append(levels, level)
  PROVE  LET f == Len(levels) + 1
         IN  /\ f \in Nat /\ Len(levels) \in Nat /\ Known' = 0..f /\ Known = 0 .. f - 1
             /\ levels' \in Seq(Int) /\ Len(levels') = f
             /\ \A g, h \in 1..f : Distance(levels', g, h) \in Nat
             /\ \A g \in 1..f : Distance(levels', g, g) = 0
             /\ \A g, h \in 1..Len(levels) : Distance(levels', g, h) = Distance(levels, g, h)
             /\ \A g, h \in 1..Len(levels) : Distance(levels, g, h) \in Nat
<1> DEFINE n == Len(levels)
           f == n + 1
<1>1. /\ n \in Nat /\ levels' \in Seq(Int) /\ Len(levels') = f /\ levels'[f] = level
      /\ \A g \in 1..n : levels'[g] = levels[g]
  BY AppendProperties, LenProperties
<1>2. \A g \in 1..n : levels[g] \in Int
  BY <1>1, ElementOfSeq
<1>3. \A g \in 1..f : levels'[g] \in Int
  BY <1>1, <1>2
<1>4. \A g, h \in 1..f : Distance(levels', g, h) \in Nat
  BY <1>3 DEF Distance
<1>5. \A g \in 1..f : Distance(levels', g, g) = 0
  BY <1>3 DEF Distance
<1>6. \A g, h \in 1..n : Distance(levels', g, h) = Distance(levels, g, h) /\ Distance(levels, g, h) \in Nat
  BY <1>1, <1>2 DEF Distance
<1>7. Known' = 0..f /\ Known = 0 .. f - 1
  BY <1>1 DEF Known
<1>8. QED
  BY <1>1, <1>4, <1>5, <1>6, <1>7

\* What the detector selects, spelled out.
LEMMA SelectionFacts ==
  ASSUME NEW new \in Detectors
  PROVE  /\ Selecting(<<>>, new) => toOffer' = <<>> /\ det' = new
         /\ \A a : Selecting(<<a>>, new) => toOffer' = <<a>> /\ det' = [new EXCEPT !.emitted = a]
         /\ \A a, b : Selecting(<<a, b>>, new) =>
                        toOffer' = <<a, b>> /\ det' = [new EXCEPT !.emitted = b]
<1>1. [new EXCEPT !.emitted = new.emitted] = new
  BY DEF Detectors
<1>2. Selecting(<<>>, new) => toOffer' = <<>> /\ det' = new
  BY <1>1 DEF Selecting
<1>3. \A a : <<a>> # <<>> /\ Last(<<a>>) = a
  BY DEF Last
<1>4. \A a, b : <<a, b>> # <<>> /\ Last(<<a, b>>) = b
  BY DEF Last
<1>5. QED
  BY <1>2, <1>3, <1>4 DEF Selecting

LEMMA UnlessFacts ==
  ASSUME NEW a \in Nat, NEW b \in Nat, NEW S, NEW T
  PROVE  Unless(a, S) \o Unless(b, T) =
           IF a \in S THEN IF b \in T THEN <<>> ELSE <<b>>
           ELSE IF b \in T THEN <<a>> ELSE <<a, b>>
<1>1. <<>> \o <<>> = <<>>
  OBVIOUS
<1>2. <<a>> \in Seq(Nat) /\ <<b>> \in Seq(Nat)
  OBVIOUS
<1>3. <<>> \o <<b>> = <<b>> /\ <<a>> \o <<>> = <<a>>
  BY <1>2, ConcatEmptySeq
<1>4. <<a>> \o <<b>> = <<a, b>>
  <2> DEFINE s == <<a>> \o <<b>>
             t == <<a, b>>
  <2>1. Len(<<a>>) = 1 /\ Len(<<b>>) = 1 /\ <<a>>[1] = a /\ <<b>>[1] = b
    OBVIOUS
  <2>2. s \in Seq(Nat) /\ Len(s) = 2 /\ s[1] = a /\ s[2] = b
    BY <1>2, <2>1, ConcatProperties
  <2>3. t \in Seq(Nat) /\ Len(t) = 2 /\ t[1] = a /\ t[2] = b
    OBVIOUS
  <2>4. \A i \in 1..2 : i = 1 \/ i = 2
    OBVIOUS
  <2> HIDE DEF s, t
  <2>5. s = t
    BY <2>2, <2>3, <2>4, SeqEqual
  <2>6. QED
    BY <2>5 DEF s, t
<1>5. QED
  BY <1>1, <1>3, <1>4 DEF Unless

(* What every capture starts from.                                         *)
Captures(level) ==
  /\ thread = "capture" /\ toOffer = <<>> /\ level \in Int
  /\ levels' = Append(levels, level)
  /\ UNCHANGED <<lastOffered, offered, thread>>

\* The greatest change of a burst is still known of.
LEMMA BurstKept ==
  ASSUME CaptureInv, NEW level, Captures(level), burst' = burst, Published \subseteq Published',
         \E g \in burst.frames \cap Published : IsGreatest(g)
  PROVE  \E g \in burst'.frames \cap Published' : IsGreatest(g)'
<1> DEFINE n == Len(levels)
<1>1. n \in Nat /\ Known = 0..n
  BY Capturing DEF Captures, CaptureInv, DetectorOK
<1>2. \A g, h \in 1..n : Distance(levels', g, h) = Distance(levels, g, h)
  BY Capturing DEF Captures, CaptureInv, DetectorOK
<1>3. burst.frames \subseteq 1..n /\ (burst.frames # {} => burst.anchor \in 1..n)
  BY <1>1 DEF CaptureInv, DetectorOK
<1>4. PICK g \in burst.frames \cap Published : IsGreatest(g)
  OBVIOUS
<1>5. IsGreatest(g)'
  BY <1>2, <1>3, <1>4 DEF IsGreatest
<1>6. QED
  BY <1>4, <1>5

LEMMA FirstFrame ==
  ASSUME CaptureInv, NEW level, Captures(level), Baseline(Len(levels')) PROVE CaptureInv'
<1> DEFINE f == Len(levels) + 1
<1>1. /\ f \in Nat /\ Known' = 0..f /\ Known = 0 .. f - 1 /\ Len(levels') = f /\ levels' \in Seq(Int)
      /\ Distance(levels', f, f) = 0
  BY Capturing DEF Captures, CaptureInv, DetectorOK
<1>2. det \in Detectors /\ det.anchor = 0 /\ det.emitted \in 0 .. f - 1 /\ burst' = burst
  BY <1>1 DEF CaptureInv, DetectorOK, Baseline, NoFrame
<1>3. ~InBurst
  BY <1>2 DEF CaptureInv, SceneOK
<1>5. toOffer' = <<f>> /\ det' = [det EXCEPT !.anchor = f, !.previous = f, !.emitted = f]
  <2>1. Selecting(<<f>>, [det EXCEPT !.anchor = f, !.previous = f])
    BY <1>1 DEF Baseline
  <2>2. [det EXCEPT !.anchor = f, !.previous = f] \in Detectors
    BY <1>1, <1>2 DEF Detectors
  <2>3. QED
    BY <2>1, <2>2, SelectionFacts
<1>6. /\ det'.anchor = f /\ det'.previous = f /\ det'.emitted = f /\ det'.first = det.first
      /\ det'.peak = det.peak /\ det' \in Detectors
  BY <1>1, <1>2, <1>5 DEF Detectors
<1>7. OffersOK'
  BY <1>1, <1>2, <1>5, <1>6 DEF CaptureInv, OffersOK, Captures
<1>8. f \in Published' /\ Published \subseteq Published'
  BY <1>5 DEF Published, Captures
<1>9. DetectorOK'
  BY <1>1, <1>2, <1>6 DEF CaptureInv, DetectorOK
<1>10. ~InBurst'
  BY <1>3, <1>6 DEF InBurst
<1>11. ~Material(levels', f, f)
  BY <1>1, CaptureAssumption DEF Material
<1>12. (\E g \in burst.frames \cap Published : IsGreatest(g)) =>
         (\E g \in burst.frames \cap Published : IsGreatest(g))'
  BY <1>2, <1>8, BurstKept
<1>13. SceneOK'
  BY <1>1, <1>2, <1>3, <1>6, <1>8, <1>10, <1>11, <1>12 DEF CaptureInv, SceneOK, Captures
<1>14. QED
  BY <1>7, <1>9, <1>13 DEF CaptureInv

(* A burst that has begun satisfies the invariant.                         *)
LEMMA BurstBegins ==
  ASSUME CaptureInv, NEW level, Captures(level), NEW frame, frame = Len(levels'),
         det.anchor # 0, toOffer' = <<frame>>, burst' = [anchor |-> det.anchor, frames |-> {frame}],
         det' \in Detectors, det'.anchor = det.anchor, det'.previous = frame,
         det'.emitted = frame, det'.first = frame, det'.peak = frame
  PROVE  CaptureInv'
<1>1. /\ frame \in Nat \ {0} /\ Known' = 0..frame /\ Known = 0 .. frame - 1
      /\ levels' \in Seq(Int) /\ \A g, h \in 1..frame : Distance(levels', g, h) \in Nat
  BY Capturing DEF Captures, CaptureInv, DetectorOK
<1>2. det.anchor \in 1 .. frame - 1 /\ lastOffered = det.emitted /\ det.emitted \in 0 .. frame - 1
  BY <1>1 DEF CaptureInv, DetectorOK, OffersOK, Captures, Detectors
<1>3. OffersOK'
  BY <1>1, <1>2 DEF OffersOK, Captures
<1>4. burst'.anchor = det.anchor /\ burst'.frames = {frame}
  OBVIOUS
<1>5. DetectorOK'
  <2>1. {det'.anchor, det'.previous, det'.emitted, det'.first, det'.peak} \subseteq Known'
    BY <1>1, <1>2
  <2>2. burst'.frames \subseteq Known' \ {0} /\ burst'.anchor \in Known' /\ burst'.anchor # 0
    BY <1>1, <1>2, <1>4
  <2>3. det'.previous # 0 /\ det'.anchor # 0
    BY <1>1
  <2>4. burst' \in Bursts
    BY <1>1, <1>2 DEF Bursts
  <2>5. QED
    BY <1>1, <2>1, <2>2, <2>3, <2>4 DEF DetectorOK
<1>6. frame \in Published'
  BY DEF Published
<1>7. IsGreatest(frame)'
  <2>1. Distance(levels', burst'.anchor, frame) \in Nat
    <3>1. burst'.anchor \in 1..frame /\ frame \in 1..frame
      BY <1>1, <1>2, <1>4
    <3>2. QED
      BY <1>1, <3>1
  <2>2. Distance(levels', burst'.anchor, frame) <= Distance(levels', burst'.anchor, frame)
    BY <2>1
  <2>3. QED
    BY <1>4, <2>2, Zenon DEF IsGreatest
<1>8. InBurst' /\ thread' = "capture"
  BY <1>1 DEF InBurst, NoFrame, Captures
<1>9. IsGreatest(det.peak)'
  BY <1>7, Zenon
<1>10. SceneOK'
  BY <1>1, <1>4, <1>6, <1>8, <1>9 DEF SceneOK
<1>11. QED
  BY <1>3, <1>5, <1>10 DEF CaptureInv

\* Outside a burst, a frame that is like the anchor goes on from it.
LEMMA SceneGoesOn ==
  ASSUME CaptureInv, NEW level, Captures(level), NEW frame, frame = Len(levels'),
         det.anchor # 0, ~InBurst, burst' = burst, ~Material(levels', det.anchor, frame),
         det' \in Detectors, det'.anchor = det.anchor, det'.previous = frame,
         det'.first = det.first, det'.peak = det.peak,
         \/ toOffer' = <<>> /\ det'.emitted = det.emitted
         \/ toOffer' = <<frame>> /\ det'.emitted = frame
  PROVE  CaptureInv'
<1>1. /\ frame \in Nat \ {0} /\ Known' = 0..frame /\ Known = 0 .. frame - 1 /\ levels' \in Seq(Int)
  BY Capturing DEF Captures, CaptureInv, DetectorOK
<1>2. /\ {det.anchor, det.first, det.peak, det.emitted} \subseteq 0 .. frame - 1
      /\ lastOffered = det.emitted /\ lastOffered \in Nat /\ det.previous # 0
      /\ burst.frames \subseteq Known \ {0} /\ burst.anchor \in Known
      /\ burst.frames # {} => burst.anchor # 0
  BY <1>1 DEF CaptureInv, DetectorOK, OffersOK, Captures
<1>3. OffersOK'
  BY <1>1, <1>2 DEF OffersOK, Captures
<1>4. DetectorOK'
  <2>1. {det'.anchor, det'.previous, det'.emitted, det'.first, det'.peak} \subseteq Known'
    BY <1>1, <1>2
  <2>2. burst'.frames \subseteq Known' \ {0} /\ burst'.anchor \in Known'
    BY <1>1, <1>2
  <2>3. det'.previous # 0 /\ det'.anchor # 0
    BY <1>1
  <2>4. QED
    BY <1>1, <1>2, <2>1, <2>2, <2>3 DEF CaptureInv, DetectorOK
<1>5. Published \subseteq Published' /\ ~InBurst' /\ thread' = "capture"
  BY DEF Published, Captures, InBurst
<1>6. (\E g \in burst.frames \cap Published : IsGreatest(g)) =>
        (\E g \in burst'.frames \cap Published' : IsGreatest(g)')
  BY <1>5, BurstKept
<1>7. det.anchor \in Published'
  BY <1>2, <1>5 DEF CaptureInv, SceneOK
<1>8. burst'.frames # {} => \E g \in burst'.frames \cap Published' : IsGreatest(g)'
  BY <1>6 DEF CaptureInv, SceneOK
<1>9. SceneOK'
  BY <1>5, <1>7, <1>8 DEF SceneOK
<1>10. QED
  BY <1>3, <1>4, <1>9 DEF CaptureInv

(* Outside a burst: the frame starts one, or only goes on.                 *)
LEMMA QuietFrame ==
  ASSUME CaptureInv, NEW level, Captures(level), Quiet(levels', Len(levels')) PROVE CaptureInv'
<1> DEFINE frame == Len(levels')
           starts == Material(levels', det.previous, frame) \/ Material(levels', det.anchor, frame)
           begun == [det EXCEPT !.previous = frame, !.first = frame, !.peak = frame, !.run = 0]
           gone == [det EXCEPT !.previous = frame]
<1>1. frame \in Nat
  BY Capturing DEF Captures, CaptureInv, DetectorOK
<1>2. det \in Detectors /\ det.anchor # 0 /\ ~InBurst
  BY DEF CaptureInv, DetectorOK, Quiet, NoFrame
<1>3. begun \in Detectors /\ gone \in Detectors
  BY <1>1, <1>2 DEF Detectors
<1>4. IF starts
      THEN Selecting(<<frame>>, begun) /\ burst' = [anchor |-> det.anchor, frames |-> {frame}]
      ELSE /\ Selecting(IF frame - det.emitted >= Heartbeat THEN <<frame>> ELSE <<>>, gone)
           /\ burst' = burst
  BY DEF Quiet
<1>5. CASE starts
  <2>1. toOffer' = <<frame>> /\ det' = [begun EXCEPT !.emitted = frame]
    BY <1>3, <1>4, <1>5, SelectionFacts
  <2>2. /\ det' \in Detectors /\ det'.anchor = det.anchor /\ det'.previous = frame
        /\ det'.emitted = frame /\ det'.first = frame /\ det'.peak = frame
    BY <1>1, <1>2, <2>1 DEF Detectors
  <2>3. QED
    BY <1>2, <1>4, <1>5, <2>1, <2>2, BurstBegins
<1>6. CASE ~starts
  <2>1. \/ toOffer' = <<>> /\ det' = gone
        \/ toOffer' = <<frame>> /\ det' = [gone EXCEPT !.emitted = frame]
    BY <1>3, <1>4, <1>6, SelectionFacts
  <2>2. /\ det' \in Detectors /\ det'.anchor = det.anchor /\ det'.previous = frame
        /\ det'.first = det.first /\ det'.peak = det.peak
        /\ \/ toOffer' = <<>> /\ det'.emitted = det.emitted
           \/ toOffer' = <<frame>> /\ det'.emitted = frame
    BY <1>1, <1>2, <2>1 DEF Detectors
  <2>3. QED
    BY <1>2, <1>4, <1>6, <2>2, SceneGoesOn
<1>7. QED
  BY <1>5, <1>6
(* A burst that is over satisfies the invariant if its last frame and its  *)
(* greatest change are published.                                          *)
LEMMA BurstIsOver ==
  ASSUME OffersOK', levels' \in Seq(Int), NEW last, last \in Known', last # 0, last \in Published',
         det' \in Detectors, det'.anchor = last, det'.previous = last, det'.emitted \in Known',
         det'.first = 0, det'.peak = 0, burst' \in Bursts,
         burst'.frames \subseteq Known' \ {0}, burst'.anchor \in Known', burst'.anchor # 0,
         NEW peak, peak \in burst'.frames \cap Published', IsGreatest(peak)',
         thread' # "closed"
  PROVE  CaptureInv'
<1>1. Len(levels') \in Nat /\ Known' = 0..Len(levels')
  BY LenProperties DEF Known
<1>2. DetectorOK'
  <2>1. {det'.anchor, det'.previous, det'.emitted, det'.first, det'.peak} \subseteq Known'
    BY <1>1
  <2>2. QED
    BY <2>1 DEF DetectorOK
<1>3. ~Material(levels', last, last)
  <2>1. levels'[last] \in Int
    BY <1>1, ElementOfSeq
  <2>2. Distance(levels', last, last) = 0
    BY <2>1 DEF Distance
  <2>3. QED
    BY <2>2, CaptureAssumption DEF Material
<1>4. ~InBurst'
  BY DEF InBurst, NoFrame
<1>5. \E g \in burst'.frames \cap Published' : IsGreatest(g)'
  OBVIOUS
<1>6. SceneOK'
  BY <1>3, <1>4, <1>5 DEF SceneOK
<1>7. QED
  BY <1>2, <1>6 DEF CaptureInv

\* What the detector knows while it is in a burst.
LEMMA BurstFacts ==
  ASSUME CaptureInv, InBurst
  PROVE  /\ {det.first, det.peak, det.previous} \subseteq burst.frames
         /\ burst.frames \subseteq Known \ {0} /\ burst.anchor \in Known \ {0}
         /\ det.anchor = burst.anchor
         /\ det.first = det.emitted /\ det.first <= det.peak /\ det.peak <= det.previous
         /\ det.first \in Published /\ IsGreatest(det.peak) /\ det \in Detectors
         /\ burst \in Bursts /\ levels \in Seq(Int) /\ Len(levels) \in Nat
BY LenProperties DEF CaptureInv, DetectorOK, SceneOK

\* The peak of a burst with one more frame.
LEMMA PeakGrows ==
  ASSUME CaptureInv, InBurst, NEW level, Captures(level), NEW frame, frame = Len(levels'),
         burst' = [burst EXCEPT !.frames = @ \cup {frame}]
  PROVE  /\ burst'.frames = burst.frames \cup {frame} /\ burst'.anchor = burst.anchor
         /\ burst' \in Bursts
         /\ Higher(levels', frame) \in {det.peak, frame}
         /\ \A g \in burst'.frames : Distance(levels', burst'.anchor, g)
                                       <= Distance(levels', burst'.anchor, Higher(levels', frame))
<1> DEFINE n == Len(levels)
           D(g) == Distance(levels', burst.anchor, g)
           E(g) == Distance(levels, burst.anchor, g)
<1>1. burst'.frames = burst.frames \cup {frame} /\ burst'.anchor = burst.anchor
  <2>1. burst \in Bursts
    BY BurstFacts
  <2>2. QED
    BY <2>1 DEF Bursts
<1>2. n \in Nat /\ frame = n + 1 /\ Known = 0..n
  BY Capturing DEF Captures, CaptureInv, DetectorOK
<1>3. \A g, h \in 1..n : Distance(levels', g, h) = Distance(levels, g, h) /\ Distance(levels, g, h) \in Nat
  BY Capturing DEF Captures, CaptureInv, DetectorOK
<1>4. \A g, h \in 1..frame : Distance(levels', g, h) \in Nat
  BY <1>2, Capturing DEF Captures, CaptureInv, DetectorOK
<1>5. burst.frames \subseteq 1..n /\ burst.anchor \in 1..n /\ det.peak \in 1..n /\ det.anchor = burst.anchor
  BY <1>2, BurstFacts
<1>6. \A g \in burst.frames : D(g) = E(g) /\ D(g) \in Nat
  BY <1>3, <1>5
<1>7. D(frame) \in Nat /\ D(det.peak) \in Nat /\ D(det.peak) = E(det.peak)
  <2>1. frame \in 1..frame /\ burst.anchor \in 1..frame
    BY <1>2, <1>5
  <2>2. D(frame) \in Nat
    BY <2>1, <1>4
  <2>3. QED
    BY <2>2, <1>3, <1>5
<1>8. \A g \in burst.frames : E(g) <= E(det.peak)
  BY BurstFacts DEF IsGreatest
<1>9. Higher(levels', frame) = IF D(frame) > D(det.peak) THEN frame ELSE det.peak
  BY <1>5 DEF Higher
<1> HIDE DEF D, E
<1>10. \A g \in burst.frames \cup {frame} : D(g) <= D(Higher(levels', frame))
  BY <1>6, <1>7, <1>8, <1>9
<1>11. burst' \in Bursts
  <2>1. burst \in Bursts /\ frame \in Nat
    BY <1>2, BurstFacts
  <2>2. QED
    BY <2>1 DEF Bursts
<1>12. QED
  BY <1>1, <1>9, <1>10, <1>11 DEF D

(* In a burst: the frame may be its peak, and may end it.                  *)
LEMMA MovingFrame ==
  ASSUME CaptureInv, NEW level, Captures(level), Moving(levels', Len(levels')) PROVE CaptureInv'
<1>frame. PICK frame : frame = Len(levels')
  OBVIOUS
<1>peak. PICK peak : peak = Higher(levels', frame)
  OBVIOUS
<1> DEFINE run == IF Material(levels', det.previous, frame) THEN 0 ELSE det.run + 1
           going == [det EXCEPT !.previous = frame, !.peak = peak, !.run = run]
           ending == Unless(peak, {det.first, frame}) \o Unless(frame, {det.first})
<1>1. /\ frame \in Nat \ {0} /\ Known' = 0..frame /\ Known = 0 .. frame - 1 /\ levels' \in Seq(Int)
  BY <1>frame, Capturing DEF Captures, CaptureInv, DetectorOK
<1>2. InBurst /\ burst' = [burst EXCEPT !.frames = @ \cup {frame}]
  BY <1>frame DEF Moving
<1>3. /\ det \in Detectors /\ det.anchor = burst.anchor /\ det.anchor \in 1 .. frame - 1
      /\ {det.first, det.peak, det.previous} \subseteq 1 .. frame - 1
      /\ {det.first, det.peak, det.previous} \subseteq burst.frames
      /\ burst.frames \subseteq 1 .. frame - 1
      /\ det.first = det.emitted /\ det.first <= det.peak /\ det.first \in Published
  BY <1>1, <1>2, BurstFacts
<1>4. /\ burst'.frames = burst.frames \cup {frame} /\ burst'.anchor = det.anchor /\ burst' \in Bursts
      /\ peak \in {det.peak, frame}
      /\ \A g \in burst'.frames : Distance(levels', burst'.anchor, g)
                                    <= Distance(levels', burst'.anchor, peak)
  BY <1>frame, <1>peak, <1>2, <1>3, PeakGrows
<1>5. peak \in burst'.frames /\ peak \in Nat /\ det.first <= peak /\ peak <= frame /\ run \in Nat
  <2>1. det.peak \in Nat /\ det.first \in Nat /\ det.run \in Nat /\ det.peak <= frame
    BY <1>1, <1>3 DEF Detectors
  <2>2. peak \in burst'.frames
    BY <1>3, <1>4
  <2>3. QED
    BY <1>1, <1>3, <1>4, <2>1, <2>2
<1>6. IF run >= StableFrames THEN Selecting(ending, Settled(frame)) ELSE Selecting(<<>>, going)
  BY <1>frame, <1>peak DEF Moving
<1>7. thread' = "capture" /\ lastOffered' = det.first /\ det.first \in Nat /\ offered' = offered
      /\ Published = offered
  BY <1>3 DEF Captures, CaptureInv, OffersOK, Published
<1> HIDE DEF run, going, ending
<1>8. IsGreatest(peak)'
  BY <1>4, Zenon DEF IsGreatest
<1>9. Published \subseteq Published'
  BY <1>7 DEF Published
<1>10. /\ burst'.frames \subseteq Known' \ {0} /\ burst'.anchor \in Known' \ {0}
  BY <1>1, <1>3, <1>4
<1>11. CASE run < StableFrames
  <2>1. going \in Detectors
    BY <1>1, <1>3, <1>5 DEF Detectors, going
  <2>2. toOffer' = <<>> /\ det' = going
    <3>1. Selecting(<<>>, going)
      BY <1>5, <1>6, <1>11, CaptureAssumption
    <3>2. QED
      BY <2>1, <3>1, SelectionFacts
  <2>3. /\ det' \in Detectors /\ det'.anchor = det.anchor /\ det'.previous = frame
        /\ det'.first = det.first /\ det'.peak = peak /\ det'.emitted = det.first
    BY <1>3, <2>1, <2>2 DEF going, Detectors
  <2>4. OffersOK'
    BY <1>7, <2>2, <2>3 DEF OffersOK
  <2>5. DetectorOK'
    <3>1. {det'.anchor, det'.previous, det'.emitted, det'.first, det'.peak} \subseteq Known'
      BY <1>1, <1>3, <1>4, <2>3
    <3>2. det'.anchor # 0 /\ det'.previous # 0
      BY <1>1, <1>3, <2>3
    <3>3. QED
      BY <1>1, <1>4, <1>10, <2>3, <3>1, <3>2 DEF DetectorOK
  <2>6. {det'.first, det'.peak, det'.previous} \subseteq burst'.frames
    BY <1>3, <1>4, <2>3
  <2>7. IsGreatest(det.peak)'
    BY <1>8, <2>3, Zenon
  <2>8. InBurst' /\ det'.anchor # 0 /\ burst'.anchor = det'.anchor
    BY <1>2, <1>3, <1>4, <2>3 DEF InBurst
  <2>9. SceneOK'
    BY <1>3, <1>5, <1>7, <1>9, <2>3, <2>6, <2>7, <2>8 DEF SceneOK
  <2>10. QED
    BY <2>4, <2>5, <2>9 DEF CaptureInv
<1>12. CASE run >= StableFrames
  <2>1. Settled(frame) \in Detectors
    BY <1>1, <1>3 DEF Settled, NewDetector, NoFrame, Detectors
  <2>2. ending = IF peak \in {det.first, frame} THEN <<frame>> ELSE <<peak, frame>>
    <3>1. frame \notin {det.first}
      BY <1>1, <1>3
    <3>2. ending = IF peak \in {det.first, frame}
                   THEN IF frame \in {det.first} THEN <<>> ELSE <<frame>>
                   ELSE IF frame \in {det.first} THEN <<peak>> ELSE <<peak, frame>>
      <4>1. peak \in Nat /\ frame \in Nat
        BY <1>1, <1>5
      <4> DEFINE S == {det.first, frame}
                 T == {det.first}
      <4> HIDE DEF S, T
      <4>2. Unless(peak, S) \o Unless(frame, T)
              = IF peak \in S THEN IF frame \in T THEN <<>> ELSE <<frame>>
                ELSE IF frame \in T THEN <<peak>> ELSE <<peak, frame>>
        BY <4>1, UnlessFacts
      <4>3. QED
        BY <4>2 DEF ending, S, T
    <3>3. QED
      BY <3>1, <3>2
  <2>3. Selecting(ending, Settled(frame))
    BY <1>6, <1>12
  <2>4. /\ det' = [Settled(frame) EXCEPT !.emitted = frame]
        /\ \/ toOffer' = <<frame>> /\ peak \in {det.first, frame}
           \/ toOffer' = <<peak, frame>> /\ peak \notin {det.first, frame}
    BY <2>1, <2>2, <2>3, SelectionFacts
  <2>5. /\ det' \in Detectors /\ det'.anchor = frame /\ det'.previous = frame
        /\ det'.first = 0 /\ det'.peak = 0 /\ det'.emitted = frame
    BY <1>1, <1>3, <2>1, <2>4 DEF Settled, NewDetector, NoFrame, Detectors
  <2>6. OffersOK'
    <3>1. CASE toOffer' = <<frame>>
      <4>1. det.first < frame
        BY <1>1, <1>3
      <4>2. QED
        BY <1>1, <1>7, <2>5, <3>1, <4>1 DEF OffersOK
    <3>2. CASE toOffer' = <<peak, frame>> /\ peak \notin {det.first, frame}
      <4>1. det.first < peak /\ peak < frame
        BY <1>1, <1>3, <1>5, <3>2
      <4>2. QED
        BY <1>1, <1>5, <1>7, <2>5, <3>2, <4>1 DEF OffersOK
    <3>3. QED
      BY <2>4, <3>1, <3>2
  <2>7. frame \in Published' /\ peak \in Published'
    <3>1. CASE toOffer' = <<frame>> /\ peak \in {det.first, frame}
      BY <1>3, <1>9, <3>1 DEF Published
    <3>2. CASE toOffer' = <<peak, frame>>
      BY <3>2 DEF Published
    <3>3. QED
      BY <2>4, <3>1, <3>2
  <2>8. frame \in Known' /\ frame # 0
    BY <1>1
  <2>9. peak \in burst'.frames \cap Published'
    BY <1>5, <2>7
  <2>10. QED
    BY <1>1, <1>4, <1>7, <1>8, <1>10, <2>5, <2>6, <2>7, <2>8, <2>9, BurstIsOver
<1>13. QED
  BY <1>5, <1>11, <1>12, CaptureAssumption
LEMMA CaptureFrameStep == ASSUME CaptureInv, CaptureFrame PROVE CaptureInv'
<1>1. PICK level \in Levels : levels' = Append(levels, level) /\ Observe(levels', Len(levels'))
  BY DEF CaptureFrame
<1>2. level \in Int
  BY CaptureAssumption
<1>3. Captures(level)
  BY <1>1, <1>2 DEF Captures, CaptureFrame, ring, capture
<1>4. QED
  BY <1>1, <1>3, FirstFrame, QuietFrame, MovingFrame DEF Observe

\* A capture that fails takes a number, and is no frame of the detector's.
LEMMA CaptureFailsStep == ASSUME CaptureInv, CaptureFails PROVE CaptureInv'
<1> DEFINE n == Len(levels)
<1>1. /\ thread = "capture" /\ toOffer = <<>> /\ levels' = Append(levels, Failed)
      /\ UNCHANGED <<lastOffered, offered, det, burst, toOffer, thread>>
  BY DEF CaptureFails, Ring!RecordGap, capture
<1>2. Failed \in Int
  BY DEF Failed
<1>3. Captures(Failed)
  BY <1>1, <1>2 DEF Captures
<1>4. /\ n \in Nat /\ Known' = 0 .. n + 1 /\ Known = 0..n /\ levels' \in Seq(Int)
      /\ \A g, h \in 1..n : Distance(levels', g, h) = Distance(levels, g, h)
  BY <1>1, <1>2, Capturing DEF CaptureInv, DetectorOK
<1>5. Known \subseteq Known'
  BY <1>4
<1>6. OffersOK' /\ Published' = Published
  BY <1>1 DEF CaptureInv, OffersOK, Published
<1>7. DetectorOK'
  BY <1>1, <1>4, <1>5 DEF CaptureInv, DetectorOK
<1>8. InBurst' = InBurst
  BY <1>1 DEF InBurst
<1>9. ASSUME ~InBurst, det.previous # 0
      PROVE  det.anchor \in Published /\ ~Material(levels', det.anchor, det.previous)
  <2>1. det.anchor \in 1..n /\ det.previous \in 1..n
    BY <1>4, <1>9 DEF CaptureInv, DetectorOK
  <2>2. QED
    BY <1>4, <1>9, <2>1 DEF CaptureInv, SceneOK, Material
<1>10. (\E g \in burst.frames \cap Published : IsGreatest(g)) =>
         (\E g \in burst'.frames \cap Published' : IsGreatest(g)')
  BY <1>1, <1>3, <1>6, BurstKept
<1>11. ASSUME InBurst PROVE IsGreatest(det.peak)'
  <2>1. burst.frames \subseteq 1..n /\ burst.anchor \in 1..n /\ det.peak \in 1..n /\ IsGreatest(det.peak)
    BY <1>4, <1>11, BurstFacts
  <2>2. QED
    BY <1>1, <1>4, <2>1 DEF IsGreatest
<1>12. SceneOK'
  <2>1. (~InBurst' /\ det'.previous # 0) =>
          det'.anchor \in Published' /\ ~Material(levels', det'.anchor, det'.previous)
    BY <1>1, <1>6, <1>8, <1>9
  <2>2. (~InBurst' /\ burst'.frames # {}) => \E g \in burst'.frames \cap Published' : IsGreatest(g)'
    BY <1>1, <1>8, <1>10 DEF CaptureInv, SceneOK
  <2>3. QED
    BY <1>1, <1>6, <1>8, <1>11, <2>1, <2>2 DEF CaptureInv, SceneOK
<1>13. QED
  BY <1>6, <1>7, <1>12 DEF CaptureInv

(* The thread leaves its loop: a burst is ended where it stands.           *)
LEMMA LeaveLoopStep == ASSUME CaptureInv, LeaveLoop PROVE CaptureInv'
<1> DEFINE ending == Unless(det.peak, {det.first}) \o Unless(det.previous, {det.first, det.peak})
<1>1. /\ toOffer = <<>> /\ thread' = "closing" /\ Flush
      /\ UNCHANGED <<lastOffered, offered, levels, burst>>
  BY DEF LeaveLoop, Flush, ring
<1>2. CASE ~InBurst
  <2>1. UNCHANGED <<det, toOffer>>
    BY <1>1, <1>2 DEF Flush
  <2>2. OffersOK' /\ Published' = Published /\ DetectorOK' /\ InBurst' = InBurst
    BY <1>1, <2>1 DEF CaptureInv, OffersOK, Published, DetectorOK, Known, InBurst
  <2>3. SceneOK'
    BY <1>1, <1>2, <2>1, <2>2 DEF CaptureInv, SceneOK, IsGreatest
  <2>4. QED
    BY <2>2, <2>3 DEF CaptureInv
<1>3. CASE InBurst
  <2>1. PICK last, peak : last = det.previous /\ peak = det.peak
    OBVIOUS
  <2>2. /\ {det.first, peak, last} \subseteq burst.frames
        /\ burst.frames \subseteq Known \ {0} /\ burst.anchor \in Known \ {0}
        /\ det.first <= peak /\ peak <= last /\ det.first = det.emitted
        /\ det.first \in Published /\ IsGreatest(peak)
        /\ det \in Detectors /\ burst \in Bursts /\ levels \in Seq(Int)
    BY <1>3, <2>1, BurstFacts
  <2>3. Known' = Known /\ Known \subseteq Nat
    BY <1>1, BurstFacts, <1>3 DEF Known
  <2>4. peak \in Nat /\ last \in Nat /\ det.first \in Nat /\ det.first \in Known
    BY <2>2, <2>3
  <2>5. Settled(last) \in Detectors
    BY <2>2, <2>4 DEF Settled, NewDetector, NoFrame, Detectors
  <2>6. Selecting(ending, Settled(last))
    BY <1>1, <1>3, <2>1 DEF Flush
  <2>7. ending = IF peak = det.first
                 THEN IF last = det.first THEN <<>> ELSE <<last>>
                 ELSE IF last = peak THEN <<peak>> ELSE <<peak, last>>
    <3> DEFINE S == {det.first}
               T == {det.first, det.peak}
    <3> HIDE DEF S, T
    <3>1. Unless(peak, S) \o Unless(last, T)
            = IF peak \in S THEN IF last \in T THEN <<>> ELSE <<last>>
              ELSE IF last \in T THEN <<peak>> ELSE <<peak, last>>
      BY <2>4, UnlessFacts
    <3>2. (peak \in S <=> peak = det.first) /\ (last \in T <=> last = det.first \/ last = peak)
      BY <2>1 DEF S, T
    <3>3. ending = Unless(peak, S) \o Unless(last, T)
      BY <2>1 DEF S, T
    <3>4. peak # det.first => (last \in T <=> last = peak)
      BY <2>2, <2>4, <3>2
    <3>5. QED
      BY <3>1, <3>2, <3>3, <3>4
  <2> HIDE DEF ending
  <2>8. \/ toOffer' = <<>> /\ det' = Settled(last) /\ peak = det.first /\ last = det.first
        \/ /\ toOffer' = <<last>> /\ det' = [Settled(last) EXCEPT !.emitted = last]
           /\ peak \in {det.first, last} /\ last # det.first
        \/ /\ toOffer' = <<peak, last>> /\ det' = [Settled(last) EXCEPT !.emitted = last]
           /\ peak # det.first /\ peak # last
    <3>1. CASE peak = det.first /\ last = det.first
      BY <2>5, <2>6, <2>7, <3>1, SelectionFacts
    <3>2. CASE peak = det.first /\ last # det.first
      BY <2>5, <2>6, <2>7, <3>2, SelectionFacts
    <3>3. CASE peak # det.first /\ last = peak
      BY <2>5, <2>6, <2>7, <3>3, SelectionFacts
    <3>4. CASE peak # det.first /\ last # peak
      BY <2>5, <2>6, <2>7, <3>4, SelectionFacts
    <3>5. QED
      BY <3>1, <3>2, <3>3, <3>4
  <2>9. /\ det' \in Detectors /\ det'.anchor = last /\ det'.previous = last
        /\ det'.first = 0 /\ det'.peak = 0
    BY <2>2, <2>4, <2>5, <2>8 DEF Settled, NewDetector, NoFrame, Detectors
  <2>10. det'.emitted = last
    BY <2>2, <2>4, <2>5, <2>8 DEF Settled, NewDetector, NoFrame, Detectors
  <2>11. lastOffered = det.first /\ Published = offered
    BY <1>1, <2>2 DEF CaptureInv, OffersOK, Published
  <2>12. OffersOK'
    <3>1. CASE toOffer' = <<>> /\ last = det.first
      BY <1>1, <2>4, <2>10, <2>11, <3>1 DEF OffersOK
    <3>2. CASE toOffer' = <<last>> /\ last # det.first
      <4>1. det.first < last
        BY <2>2, <2>4, <3>2
      <4>2. QED
        BY <1>1, <2>4, <2>10, <2>11, <3>2, <4>1 DEF OffersOK
    <3>3. CASE toOffer' = <<peak, last>> /\ peak # det.first /\ peak # last
      <4>1. det.first < peak /\ peak < last
        BY <2>2, <2>4, <3>3
      <4>2. QED
        BY <1>1, <2>4, <2>10, <2>11, <3>3, <4>1 DEF OffersOK
    <3>4. QED
      BY <2>8, <3>1, <3>2, <3>3
  <2>13. last \in Published' /\ peak \in Published'
    <3>1. det.first \in Published'
      BY <1>1, <2>2, <2>11 DEF Published
    <3>2. CASE toOffer' = <<>> /\ peak = det.first /\ last = det.first
      BY <3>1, <3>2
    <3>3. CASE toOffer' = <<last>> /\ peak \in {det.first, last}
      BY <3>1, <3>3 DEF Published
    <3>4. CASE toOffer' = <<peak, last>>
      BY <3>4 DEF Published
    <3>5. QED
      BY <2>8, <3>2, <3>3, <3>4
  <2>14. IsGreatest(peak)'
    BY <1>1, <2>2 DEF IsGreatest
  <2>15. last \in Known' /\ last # 0 /\ peak \in burst'.frames \cap Published'
    BY <1>1, <2>2, <2>3, <2>13
  <2>16. burst'.frames \subseteq Known' \ {0} /\ burst'.anchor \in Known' /\ burst'.anchor # 0
    BY <1>1, <2>2, <2>3
  <2>17. QED
    BY <1>1, <2>2, <2>9, <2>10, <2>12, <2>13, <2>14, <2>15, <2>16, BurstIsOver
<1>4. QED
  BY <1>2, <1>3

LEMMA CaptureNext == CaptureInv /\ ThreadsOK /\ [Next]_vars => CaptureInv'
<1> SUFFICES ASSUME CaptureInv, ThreadsOK, [Next]_vars PROVE CaptureInv'
  OBVIOUS
<1>1. ASSUME UNCHANGED <<lastOffered, offered, detection>>,
             \/ thread' \in {thread, "capture"}
             \/ thread' = "closed" /\ thread = "closing" /\ toOffer = <<>>
      PROVE  CaptureInv'
  <2>1. UNCHANGED <<levels, det, burst, toOffer>>
    BY <1>1 DEF detection
  <2>2. OffersOK' /\ Published' = Published /\ DetectorOK' /\ InBurst' = InBurst
    BY <1>1, <2>1 DEF CaptureInv, OffersOK, Published, DetectorOK, Known, InBurst
  <2>3. \A g : IsGreatest(g)' = IsGreatest(g)
    BY <2>1 DEF IsGreatest
  <2>4. SceneOK'
    BY <1>1, <2>1, <2>2, <2>3 DEF CaptureInv, SceneOK
  <2>5. QED
    BY <2>2, <2>4 DEF CaptureInv
<1>2. CASE CaptureFrame
  BY <1>2, CaptureFrameStep
<1>3. CASE CaptureFails
  BY <1>3, CaptureFailsStep
<1>4. CASE Offer
  BY <1>4, OfferStep
<1>5. CASE LeaveLoop
  BY <1>5, LeaveLoopStep
<1>6. CASE CloseSource
  BY <1>1, <1>6 DEF CloseSource, ring
<1>7. CASE WorkerReads
  BY <1>1, <1>7 DEF WorkerReads, Ring!AcknowledgeConsumerBatch, Ring!Acknowledge, capture
<1>8. CASE WorkerEnds
  BY <1>1, <1>8 DEF WorkerEnds, ring, capture
<1>9. CASE Start \/ StartWorker \/ UndoStart \/ Stop \/ JoinCapture \/ JoinWorker
  BY <1>1, <1>9
    DEF Start, StartWorker, UndoStart, Stop, JoinCapture, JoinWorker, JoinTimesOut, OnLife, ring
<1>10. CASE StartCapture
  <2>1. UNCHANGED <<lastOffered, offered, detection>>
    BY <1>10 DEF StartCapture, OnLife, ring
  <2>2. thread' = thread \/ thread' = "capture"
    BY <1>10 DEF StartCapture
  <2>3. QED
    BY <1>1, <1>10, <2>1, <2>2
<1>11. CASE UNCHANGED vars
  BY <1>1, <1>11 DEF vars, ring, capture
<1>12. QED
  BY <1>2, <1>3, <1>4, <1>5, <1>6, <1>7, <1>8, <1>9, <1>10, <1>11 DEF Next, CaptureThread, Runtime

(* The keyframes tell what happened on the screen.                         *)
THEOREM LiveKeyframesTell == LiveSpec => []KeyframesTellTheScene
<1>1. Spec => [](CaptureInv /\ ThreadsOK)
  <2>1. Init => CaptureInv /\ ThreadsOK
    BY CaptureInit, ThreadsInit
  <2>2. CaptureInv /\ ThreadsOK /\ [Next]_vars => (CaptureInv /\ ThreadsOK)'
    BY CaptureNext, ThreadsNext
  <2>3. QED
    BY <2>1, <2>2, PTL DEF Spec
<1>2. CaptureInv => KeyframesTellTheScene
  BY CaptureInvTells
<1>3. QED
  BY <1>1, <1>2, LiveIsCapture, PTL
-----------------------------------------------------------------------------
(* The analysis of a key press.                                            *)

LEMMA LiveIsFlow == LiveSpec => Flow!Spec
<1>1. LiveInit => Flow!Init
  BY DEF LiveInit
<1>2. [LiveNext]_<<vars, flowVars, part>> => [Flow!Next]_Flow!vars
  BY DEF LiveNext, flowVars, Flow!vars, Flow!world, Flow!captures
<1>3. QED
  BY <1>1, <1>2, PTL DEF LiveSpec, Flow!Spec

Moments == Flow!Moments \cup {Flow!NoMoment}
Runtimes ==
  [healthy : BOOLEAN, sampled : Flow!Moments, consumed : BOOLEAN, bundle : Moments,
   lost : SUBSET Flow!Hands]
Captured == [at : Moments, lit : BOOLEAN]
Readings ==
  [at : Moments, cards : Int, dealer : Int, board : Seq(Flow!Hands), turn : BOOLEAN, ok : BOOLEAN]

FlowTypes ==
  /\ table \in Flow!Moments /\ runtime \in Runtimes
  /\ first \in Captured /\ validated \in Captured /\ final \in Captured
  /\ raw \in Readings /\ history \in Seq(Readings)

\* What vision read from the first capture.
IsRead(reading) ==
  LET hand == reading.at.hand
  IN  /\ reading.at = first.at
      /\ reading.cards \in {0, hand, -hand}
      /\ reading.dealer \in {Flow!Unknown, Flow!Button(hand)}
      /\ reading.board = Flow!Board(reading.at)

Judged == {"postcheck", "final", "display"}
Deciding == {"strategy", "precheck", "evaluate", "solve", "unsolved", "claude"} \cup Judged
Candidates == {"candidate"} \cup Deciding
Seen == {"validate"} \cup Candidates

\* What two captures have in common between which no change was reported.
Passed(before, after) ==
  /\ after.at \in Flow!Moments
  /\ after.at.hand = before.at.hand /\ Flow!Street(after.at) = Flow!Street(before.at)
  /\ Flow!ButtonsDetected(before) =>
       Flow!HeroToAct(after.at) /\ (after.lit => after.at = before.at)

(* How far the analysis got says what its captures have in common.         *)
AnalysisOK ==
  /\ pc \in {"vision"} \cup Seen =>
       first.at \in Flow!Moments /\ (mode = "strategy" => Flow!ButtonsDetected(first))
  /\ pc \in Seen => IsRead(raw)
  /\ pc \in Candidates => (mode = "strategy" => Passed(first, validated))
  /\ pc \in Deciding => mode = "strategy" /\ history # <<>> /\ Flow!Last(history).at = first.at
  /\ pc = "display" => Passed(validated, final)
  /\ pc # "idle" => shown.by = "none"

(* A token that is ready is of the newest frame, and what was solved under *)
(* it is what the first capture showed.                                    *)
TokenOK ==
  /\ runtime.consumed = TRUE /\ runtime.bundle # Flow!NoMoment => runtime.bundle = runtime.sampled
  /\ Flow!Continuous /\ pc = "solve" => raw.at = token
  /\ Flow!Continuous /\ pc \in Judged /\ advice # "error" => raw.at = token

FlowInv == FlowTypes /\ AnalysisOK /\ TokenOK /\ ShownAdviceIsCurrent

LEMMA FlowInit == Flow!Init => FlowInv
<1> SUFFICES ASSUME Flow!Init PROVE FlowInv
  OBVIOUS
<1>1. table \in Flow!Moments
  BY FlowAssumption DEF Flow!Init, Flow!Moments, Flow!Hands
<1>2. runtime \in Runtimes
  BY <1>1 DEF Flow!Init, Runtimes, Moments
<1>3. /\ Flow!NoCapture \in Captured /\ Flow!NoReading \in Readings
  BY DEF Flow!NoCapture, Flow!NoReading, Captured, Readings, Moments
<1>4. FlowTypes
  BY <1>1, <1>2, <1>3 DEF Flow!Init, FlowTypes
<1>5. AnalysisOK /\ TokenOK /\ ShownAdviceIsCurrent
  BY DEF Flow!Init, AnalysisOK, TokenOK, ShownAdviceIsCurrent, Flow!ShownAdviceIsCurrent,
         Seen, Candidates, Deciding, Judged, Flow!NoMoment
<1>6. QED
  BY <1>4, <1>5 DEF FlowInv

\* What vision may read from a capture is a reading.
LEMMA ReadingFacts ==
  ASSUME NEW moment \in Flow!Moments
  PROVE  /\ moment.hand \in Flow!Hands /\ moment.hand \in Nat \ {0} /\ moment.step \in DOMAIN Steps
         /\ Flow!Street(moment) \in Nat /\ Flow!HeroToAct(moment) \in BOOLEAN
         /\ Flow!Board(moment) \in Seq(Flow!Hands) /\ Len(Flow!Board(moment)) = Flow!Street(moment)
         /\ \A i \in 1..Flow!Street(moment) : Flow!Board(moment)[i] = moment.hand
         /\ Flow!Button(moment.hand) \in Nat
<1>1. moment.hand \in Flow!Hands /\ moment.step \in DOMAIN Steps
  BY DEF Flow!Moments
<1>2. moment.hand \in Nat \ {0}
  BY <1>1, FlowAssumption DEF Flow!Hands
<1>3. Steps[moment.step] \in [street : Nat, turn : BOOLEAN]
  <2> DEFINE S == [street : Nat, turn : BOOLEAN]
  <2>1. Steps \in Seq(S)
    BY FlowAssumption
  <2> HIDE DEF S
  <2>2. Steps[moment.step] \in S
    BY <1>1, <2>1
  <2>3. QED
    BY <2>2 DEF S
<1>4. Flow!Street(moment) \in Nat /\ Flow!HeroToAct(moment) \in BOOLEAN
  BY <1>3 DEF Flow!Street, Flow!HeroToAct
<1>5. /\ Flow!Board(moment) \in Seq(Flow!Hands) /\ Len(Flow!Board(moment)) = Flow!Street(moment)
      /\ \A i \in 1..Flow!Street(moment) : Flow!Board(moment)[i] = moment.hand
  BY <1>1, <1>4 DEF Flow!Board
<1>6. Flow!Button(moment.hand) \in Nat
  BY <1>2, FlowAssumption DEF Flow!Button
<1>7. QED
  BY <1>1, <1>2, <1>4, <1>5, <1>6

\* The latest of some members of a sequence.
LEMMA GreatestMember ==
  ASSUME NEW n \in Nat, NEW S \in SUBSET (1..n), S # {} PROVE \E x \in S : \A y \in S : y <= x
<1> DEFINE R == {pair \in Nat \X Nat : pair[1] < pair[2]}
           T == {x \in 0..n : n - x \in S}
<1>1. R = OpToRel(<, Nat)
  BY DEF OpToRel
<1>2. T \in SUBSET Nat
  OBVIOUS
<1>3. T # {}
  <2>1. PICK y \in S : TRUE
    OBVIOUS
  <2>2. y \in Nat /\ n - y \in 0..n /\ n - (n - y) = y
    OBVIOUS
  <2>3. n - y \in T
    BY <2>1, <2>2
  <2>4. QED
    BY <2>3
<1>4. \A y \in S : n - y \in T
  <2>1. \A y \in S : n - y \in 0..n /\ n - (n - y) = y
    OBVIOUS
  <2>2. QED
    BY <2>1
<1>5. \A x \in T : x \in Nat /\ n - x \in S
  OBVIOUS
<1> HIDE DEF R, T
<1>6. PICK x \in T : \A y \in T : ~(<<y, x>> \in R)
  BY <1>1, <1>2, <1>3, NatLessThanWellFounded, WFMin
<1>7. \A y \in Nat : y < x => <<y, x>> \in R
  BY <1>2 DEF R
<1>8. ASSUME NEW y \in S PROVE y <= n - x
  <2>1. x \in Nat /\ y \in Nat /\ n - y \in Nat /\ n - y \in T
    BY <1>4, <1>5, <1>2
  <2>2. ~(n - y < x)
    BY <1>6, <1>7, <2>1
  <2>3. QED
    BY <2>1, <2>2
<1>9. QED
  BY <1>5, <1>8

\* The dealer that the manual history knows is one it read.
LEMMA KnownDealerFacts ==
  ASSUME history \in Seq(Readings)
  PROVE  Flow!KnownDealer = Flow!Unknown \/ \E i \in DOMAIN history : Flow!KnownDealer = history[i].dealer
<1> DEFINE known == {i \in DOMAIN history : history[i].dealer # Flow!Unknown}
<1>1. CASE known = {}
  BY <1>1 DEF Flow!KnownDealer
<1>2. CASE known # {}
  <2>1. Len(history) \in Nat /\ known \in SUBSET (1..Len(history))
    OBVIOUS
  <2>2. Flow!KnownDealer = history[CHOOSE i \in known : \A j \in known : j <= i].dealer
    BY <1>2 DEF Flow!KnownDealer
  <2>3. known \subseteq DOMAIN history
    OBVIOUS
  <2> HIDE DEF known
  <2>4. \E i \in known : \A j \in known : j <= i
    BY <1>2, <2>1, GreatestMember
  <2>5. (CHOOSE i \in known : \A j \in known : j <= i) \in known
    BY <2>4
  <2>6. QED
    BY <2>2, <2>3, <2>5
<1>3. QED
  BY <1>1, <1>2

\* A snapshot is changed on its way into the history, but not its moment.
LEMMA SnapshotKept ==
  ASSUME FlowTypes, NEW s \in Readings
  PROVE  /\ Flow!Preserved(s) \in Readings /\ Flow!Preserved(s).at = s.at
         /\ Flow!Preserved(s).board = s.board /\ Flow!Preserved(s).dealer = s.dealer
         /\ Flow!Reconciled(s) \in Readings /\ Flow!Reconciled(s).at = s.at
         /\ Flow!Reconciled(s).board = s.board /\ Flow!Reconciled(s).cards = s.cards
         /\ history # <<>> => /\ Flow!BoardKept(s) \in Readings /\ Flow!BoardKept(s).at = s.at
                              /\ Flow!BoardKept(s).cards = s.cards
                              /\ Flow!BoardKept(s).dealer = s.dealer
<1>1. history # <<>> => Flow!Last(history) \in Readings
  BY DEF FlowTypes, Flow!Last
<1>2. /\ Flow!Preserved(s) \in Readings /\ Flow!Preserved(s).at = s.at
      /\ Flow!Preserved(s).board = s.board /\ Flow!Preserved(s).dealer = s.dealer
  <2>1. CASE history # <<>> /\ Flow!Preserved(s) = [s EXCEPT !.cards = Flow!Last(history).cards]
    <3>1. Flow!Last(history).cards \in Int
      BY <1>1, <2>1 DEF Readings
    <3>2. QED
      BY <2>1, <3>1 DEF Readings
  <2>2. CASE Flow!Preserved(s) = s
    BY <2>2
  <2>3. QED
    BY <2>1, <2>2 DEF Flow!Preserved
<1>3. Flow!KnownDealer \in Int
  <2>1. \A i \in DOMAIN history : history[i].dealer \in Int
    <3>1. history \in Seq(Readings)
      BY DEF FlowTypes
    <3>2. \A i \in DOMAIN history : history[i] \in Readings
      BY <3>1
    <3>3. \A r \in Readings : r.dealer \in Int
      BY DEF Readings
    <3>4. QED
      BY <3>2, <3>3
  <2>2. QED
    BY <2>1, KnownDealerFacts DEF FlowTypes, Flow!Unknown
<1>4. /\ Flow!Reconciled(s) \in Readings /\ Flow!Reconciled(s).at = s.at
      /\ Flow!Reconciled(s).board = s.board /\ Flow!Reconciled(s).cards = s.cards
  BY <1>3 DEF Flow!Reconciled, Readings
<1>5. ASSUME history # <<>>
      PROVE  /\ Flow!BoardKept(s) \in Readings /\ Flow!BoardKept(s).at = s.at
             /\ Flow!BoardKept(s).cards = s.cards /\ Flow!BoardKept(s).dealer = s.dealer
  <2> DEFINE old == Flow!Last(history).board
             new == old \o SubSeq(s.board, Len(old) + 1, Len(s.board))
  <2>1. old \in Seq(Flow!Hands) /\ s.board \in Seq(Flow!Hands)
    BY <1>1, <1>5 DEF Readings
  <2>2. Len(old) \in Nat /\ Len(s.board) \in Nat
    BY <2>1
  <2>3. \A i \in Len(old) + 1 .. Len(s.board) : s.board[i] \in Flow!Hands
    BY <2>1, <2>2, ElementOfSeq
  <2>4. SubSeq(s.board, Len(old) + 1, Len(s.board)) \in Seq(Flow!Hands)
    BY <2>2, <2>3, SubSeqProperties
  <2>5. new \in Seq(Flow!Hands)
    BY <2>1, <2>4, ConcatProperties
  <2>6. Flow!BoardKept(s) = [s EXCEPT !.board = new] \/ Flow!BoardKept(s) = s
    BY DEF Flow!BoardKept
  <2> HIDE DEF new
  <2>7. QED
    BY <2>5, <2>6 DEF Readings
<1>6. QED
  BY <1>2, <1>4, <1>5

LEMMA ExtendedFacts ==
  ASSUME FlowTypes, NEW s \in Readings
  PROVE  /\ Flow!Extended(s) \in Seq(Readings) /\ Flow!Extended(s) # <<>>
         /\ Flow!Last(Flow!Extended(s)).at = s.at
<1>1. CASE history # <<>> /\ Flow!Extended(s) = Append(history, Flow!BoardKept(Flow!Reconciled(s)))
  <2> DEFINE t == Flow!BoardKept(Flow!Reconciled(s))
  <2>1. t \in Readings /\ t.at = s.at
    <3>1. Flow!Reconciled(s) \in Readings /\ Flow!Reconciled(s).at = s.at
      BY SnapshotKept
    <3>2. QED
      BY <1>1, <3>1, SnapshotKept
  <2> HIDE DEF t
  <2>2. history \in Seq(Readings)
    BY DEF FlowTypes
  <2>3. /\ Append(history, t) \in Seq(Readings) /\ Append(history, t) # <<>>
        /\ Append(history, t)[Len(Append(history, t))] = t
    BY <2>1, <2>2, AppendProperties
  <2>4. QED
    BY <1>1, <2>1, <2>3 DEF t, Flow!Last
<1>2. CASE Flow!Extended(s) = <<s>>
  BY <1>2 DEF Flow!Last
<1>3. QED
  BY <1>1, <1>2 DEF Flow!Extended
LEMMA InvalidateFacts ==
  ASSUME FlowTypes, TokenOK, Flow!InvalidateIfSick
  PROVE  /\ runtime' \in Runtimes /\ runtime'.sampled = runtime.sampled
         /\ runtime'.consumed = TRUE /\ runtime'.bundle # Flow!NoMoment =>
              runtime'.bundle = runtime'.sampled
<1> DEFINE dropped == [runtime EXCEPT !.bundle = Flow!NoMoment]
<1>1. dropped \in Runtimes /\ dropped.sampled = runtime.sampled /\ dropped.bundle = Flow!NoMoment
  BY DEF FlowTypes, Runtimes, Moments
<1>2. runtime' = runtime \/ runtime' = dropped
  BY DEF Flow!InvalidateIfSick
<1>3. CASE runtime' = runtime
  BY <1>3 DEF FlowTypes, TokenOK
<1>4. CASE runtime' = dropped
  BY <1>1, <1>4
<1>5. QED
  BY <1>2, <1>3, <1>4

\* The table and the continuous history go on by themselves.
LEMMA WorldStep ==
  ASSUME FlowInv, Flow!Table \/ Flow!ContinuousHistory
  PROVE  FlowInv'
<1>1. UNCHANGED <<route, pc, mode, first, validated, final, raw, history, token, advice, shown>>
  BY DEF Flow!Table, Flow!Act, Flow!DealHand, Flow!ContinuousHistory, Flow!Sample, Flow!Accept,
         Flow!Lose, Flow!Sicken, Flow!OnRuntime, Flow!captures
<1>2. table' \in Flow!Moments
  <2>1. table \in Flow!Moments
    BY DEF FlowInv, FlowTypes
  <2>2. CASE Flow!Act
    BY <2>1, <2>2, FlowAssumption DEF Flow!Act, Flow!Moments
  <2>3. CASE Flow!DealHand
    BY <2>1, <2>3, FlowAssumption DEF Flow!DealHand, Flow!Moments, Flow!Hands
  <2>4. CASE table' = table
    BY <2>1, <2>4
  <2>5. QED
    BY <2>2, <2>3, <2>4 DEF Flow!Table, Flow!ContinuousHistory, Flow!Sample, Flow!Accept,
         Flow!Lose, Flow!Sicken, Flow!OnRuntime
<1>3. /\ runtime' \in Runtimes
      /\ runtime'.consumed = TRUE /\ runtime'.bundle # Flow!NoMoment =>
           runtime'.bundle = runtime'.sampled
  <2>1. /\ runtime \in Runtimes /\ table \in Flow!Moments
        /\ runtime.consumed = TRUE /\ runtime.bundle # Flow!NoMoment =>
             runtime.bundle = runtime.sampled
    BY DEF FlowInv, FlowTypes, TokenOK
  <2>2. CASE Flow!Table
    BY <2>1, <2>2 DEF Flow!Table, Flow!Act, Flow!DealHand
  <2>3. CASE Flow!Sample
    <3>1. runtime' = [runtime EXCEPT !.sampled = table, !.consumed = FALSE]
      BY <2>3 DEF Flow!Sample, Flow!OnRuntime
    <3>2. runtime' \in Runtimes /\ runtime'.consumed = FALSE
      BY <2>1, <3>1 DEF Runtimes
    <3>3. QED
      BY <3>2
  <2>4. CASE Flow!Accept
    <3>1. runtime' = [runtime EXCEPT !.bundle = runtime.sampled, !.consumed = TRUE]
      BY <2>4 DEF Flow!Accept, Flow!OnRuntime
    <3>2. runtime' \in Runtimes /\ runtime'.bundle = runtime.sampled /\ runtime'.sampled = runtime.sampled
      BY <2>1, <3>1 DEF Runtimes, Moments
    <3>3. QED
      BY <3>2
  <2>5. CASE Flow!Lose
    <3> DEFINE lost == runtime.lost \cup {runtime.sampled.hand}
    <3>1. runtime' = [runtime EXCEPT !.bundle = Flow!NoMoment, !.consumed = TRUE, !.lost = lost]
      BY <2>1, <2>5 DEF Flow!Lose, Flow!OnRuntime, Runtimes
    <3>2. lost \in SUBSET Flow!Hands
      BY <2>1 DEF Runtimes, Flow!Moments
    <3> HIDE DEF lost
    <3>3. runtime' \in Runtimes /\ runtime'.bundle = Flow!NoMoment
      BY <2>1, <3>1, <3>2 DEF Runtimes, Moments
    <3>4. QED
      BY <3>3
  <2>6. CASE Flow!Sicken
    <3>1. runtime' = [runtime EXCEPT !.healthy = FALSE]
      BY <2>6 DEF Flow!Sicken, Flow!OnRuntime
    <3>2. /\ runtime' \in Runtimes /\ runtime'.bundle = runtime.bundle
          /\ runtime'.sampled = runtime.sampled /\ runtime'.consumed = runtime.consumed
      BY <2>1, <3>1 DEF Runtimes
    <3>3. QED
      BY <2>1, <3>2
  <2>7. QED
    BY <2>2, <2>3, <2>4, <2>5, <2>6 DEF Flow!ContinuousHistory
<1>4. FlowTypes'
  BY <1>1, <1>2, <1>3 DEF FlowInv, FlowTypes
<1>5. AnalysisOK'
  BY <1>1 DEF FlowInv, AnalysisOK, IsRead, Passed, Flow!ButtonsDetected, Flow!HeroToAct, Flow!Street
<1>6. TokenOK' /\ ShownAdviceIsCurrent'
  BY <1>1, <1>3 DEF FlowInv, TokenOK, ShownAdviceIsCurrent, Flow!ShownAdviceIsCurrent, Flow!Continuous
<1>7. QED
  BY <1>4, <1>5, <1>6 DEF FlowInv

LEMMA KeyStep == ASSUME FlowInv, Flow!Keys PROVE FlowInv'
<1>1. ASSUME NEW key \in {"strategy", "debug"}, Flow!Press(key) PROVE FlowInv'
  <2>1. /\ pc' = "capture" /\ first' = Flow!NoCapture /\ validated' = Flow!NoCapture
        /\ final' = Flow!NoCapture /\ raw' = Flow!NoReading /\ shown'.by = "none"
        /\ UNCHANGED <<table, runtime, route, history>>
    BY <1>1 DEF Flow!Press, Flow!world
  <2>2. Flow!NoCapture \in Captured /\ Flow!NoReading \in Readings
    BY DEF Flow!NoCapture, Flow!NoReading, Captured, Readings, Moments
  <2>3. FlowTypes'
    BY <2>1, <2>2 DEF FlowInv, FlowTypes
  <2>4. AnalysisOK' /\ TokenOK' /\ ShownAdviceIsCurrent'
    BY <2>1 DEF FlowInv, AnalysisOK, TokenOK, ShownAdviceIsCurrent, Flow!ShownAdviceIsCurrent,
                Seen, Candidates, Deciding, Judged
  <2>5. QED
    BY <2>3, <2>4 DEF FlowInv
<1>2. CASE Flow!PressNewHand
  <2>1. /\ pc = "idle" /\ history' = <<>>
        /\ UNCHANGED <<table, runtime, route, pc, mode, first, validated, final, raw, token, advice, shown>>
    BY <1>2 DEF Flow!PressNewHand, Flow!Idle, Flow!world, Flow!captures
  <2>2. FlowTypes'
    BY <2>1 DEF FlowInv, FlowTypes
  <2>3. AnalysisOK' /\ TokenOK'
    BY <2>1 DEF FlowInv, AnalysisOK, TokenOK, Flow!Continuous, Seen, Candidates, Deciding, Judged
  <2>4. ShownAdviceIsCurrent'
    BY <2>1 DEF FlowInv, ShownAdviceIsCurrent, Flow!ShownAdviceIsCurrent, Flow!Continuous
  <2>5. QED
    BY <2>2, <2>3, <2>4 DEF FlowInv
<1>3. QED
  BY <1>1, <1>2 DEF Flow!Keys

LEMMA CaptureFacts ==
  ASSUME FlowTypes, NEW c \in Flow!Captures
  PROVE  c \in Captured /\ c.at = table /\ c.at \in Flow!Moments
BY DEF Flow!Captures, FlowTypes, Captured, Moments

\* Controls that were lit and go unreported are still there, and the same if
\* they are still lit.
LEMMA PassedFacts ==
  ASSUME NEW before, NEW after, before.at \in Flow!Moments, after.at \in Flow!Moments,
         FALSE \in Flow!Changed(before, after)
  PROVE  Passed(before, after)
<1>1. before.at # after.at => ~Flow!MustReport(before, after)
  BY DEF Flow!Changed
<1>2. CASE before.at = after.at
  BY <1>2 DEF Passed, Flow!ButtonsDetected
<1>3. CASE before.at # after.at
  <2>1. /\ Flow!Board(before.at) = Flow!Board(after.at) /\ before.at.hand = after.at.hand
        /\ Flow!ButtonsDetected(before) => Flow!Dimmed(after)
    BY <1>1, <1>3 DEF Flow!MustReport
  <2>2. Flow!Street(before.at) \in Nat /\ Flow!Street(after.at) \in Nat
    BY ReadingFacts
  <2>3. 1..Flow!Street(before.at) = 1..Flow!Street(after.at)
    BY <2>1 DEF Flow!Board
  <2>4. Flow!Street(before.at) = Flow!Street(after.at)
    BY <2>2, <2>3
  <2>5. QED
    BY <2>1, <2>4 DEF Passed, Flow!Dimmed
<1>4. QED
  BY <1>2, <1>3

LEMMA SeeingStep == ASSUME FlowInv, Flow!Capture \/ Flow!Vision \/ Flow!Validate PROVE FlowInv'
<1>0. FlowTypes /\ AnalysisOK /\ TokenOK
  BY DEF FlowInv
<1>1. CASE Flow!Capture
  <2>1. PICK c \in Flow!Captures :
          /\ pc = "capture" /\ first' = c
          /\ pc' = IF mode = "strategy" /\ ~Flow!ButtonsDetected(c) THEN "idle" ELSE "vision"
    BY <1>1 DEF Flow!Capture
  <2>2. UNCHANGED <<table, runtime, route, mode, validated, final, raw, history, token, advice, shown>>
    BY <1>1 DEF Flow!Capture, Flow!world
  <2>3. c \in Captured /\ c.at \in Flow!Moments
    BY <1>0, CaptureFacts
  <2>4. FlowTypes'
    BY <1>0, <2>1, <2>2, <2>3 DEF FlowTypes
  <2>5. shown.by = "none"
    BY <1>0, <2>1 DEF AnalysisOK
  <2>6. pc' \in {"idle", "vision"} /\ (pc' = "vision" => (mode = "strategy" => Flow!ButtonsDetected(c)))
    BY <2>1
  <2>7. Flow!ButtonsDetected(c) => Flow!ButtonsDetected(first)'
    BY <2>1 DEF Flow!ButtonsDetected, Flow!HeroToAct
  <2>8. AnalysisOK'
    BY <2>1, <2>2, <2>3, <2>5, <2>6, <2>7 DEF AnalysisOK, Seen, Candidates, Deciding, Judged
  <2>9. TokenOK' /\ ShownAdviceIsCurrent'
    BY <1>0, <2>2, <2>5, <2>6 DEF TokenOK, Judged, ShownAdviceIsCurrent, Flow!ShownAdviceIsCurrent
  <2>10. QED
    BY <2>4, <2>8, <2>9 DEF FlowInv
<1>2. CASE Flow!Vision
  <2>1. PICK cards \in Cards, dealer \in Dealers, controls \in BOOLEAN, ok \in BOOLEAN :
          raw' = [at |-> first.at, cards |-> Flow!CardsAs(cards),
                  dealer |-> IF dealer = "read" THEN Flow!Button(first.at.hand) ELSE Flow!Unknown,
                  board |-> Flow!Board(first.at),
                  turn |-> controls /\ Flow!ButtonsDetected(first), ok |-> ok]
    BY <1>2 DEF Flow!Vision
  <2>2. /\ pc = "vision" /\ pc' = IF mode = "strategy" THEN "validate" ELSE "candidate"
        /\ UNCHANGED <<table, runtime, route, mode, first, validated, final, history, token, advice, shown>>
    BY <1>2 DEF Flow!Vision, Flow!world, Flow!captures
  <2>3. first.at \in Flow!Moments /\ shown.by = "none"
    BY <1>0, <2>2 DEF AnalysisOK
  <2>4. /\ first.at.hand \in Int /\ Flow!Button(first.at.hand) \in Int
        /\ Flow!Board(first.at) \in Seq(Flow!Hands)
    BY <2>3, ReadingFacts
  <2>5. Flow!CardsAs(cards) \in {0, first.at.hand, -first.at.hand}
    BY DEF Flow!CardsAs, Flow!NoCards
  <2>6. (controls /\ Flow!ButtonsDetected(first)) \in BOOLEAN
    OBVIOUS
  <2>7. raw' \in Readings
    <3> DEFINE t == controls /\ Flow!ButtonsDetected(first)
               d == IF dealer = "read" THEN Flow!Button(first.at.hand) ELSE Flow!Unknown
    <3>1. d \in Int /\ Flow!CardsAs(cards) \in Int /\ first.at \in Moments /\ t \in BOOLEAN
      BY <2>3, <2>4, <2>5 DEF Flow!Unknown, Moments
    <3>2. raw' = [at |-> first.at, cards |-> Flow!CardsAs(cards), dealer |-> d,
                  board |-> Flow!Board(first.at), turn |-> t, ok |-> ok]
      BY <2>1
    <3> HIDE DEF t, d
    <3>3. QED
      BY <2>4, <3>1, <3>2 DEF Readings
  <2>8. /\ raw'.at = first.at /\ raw'.cards = Flow!CardsAs(cards) /\ raw'.board = Flow!Board(first.at)
        /\ raw'.dealer = IF dealer = "read" THEN Flow!Button(first.at.hand) ELSE Flow!Unknown
    BY <2>1
  <2>9. IsRead(raw)'
    BY <2>2, <2>5, <2>8 DEF IsRead, Flow!Board, Flow!Street
  <2>10. FlowTypes'
    BY <1>0, <2>2, <2>7 DEF FlowTypes
  <2>11. Flow!ButtonsDetected(first)' = Flow!ButtonsDetected(first)
    BY <2>2 DEF Flow!ButtonsDetected, Flow!HeroToAct
  <2>12. AnalysisOK'
    BY <1>0, <2>2, <2>3, <2>9, <2>11 DEF AnalysisOK, Seen, Candidates, Deciding, Judged
  <2>13. TokenOK' /\ ShownAdviceIsCurrent'
    BY <1>0, <2>2, <2>3 DEF TokenOK, Judged, ShownAdviceIsCurrent, Flow!ShownAdviceIsCurrent
  <2>14. QED
    BY <2>10, <2>12, <2>13 DEF FlowInv
<1>3. CASE Flow!Validate
  <2>1. PICK c \in Flow!Captures :
          /\ pc = "validate" /\ validated' = c
          /\ \E changed \in Flow!Changed(first, c) : pc' = IF changed THEN "idle" ELSE "candidate"
    BY <1>3 DEF Flow!Validate
  <2>2. UNCHANGED <<table, runtime, route, mode, first, final, raw, history, token, advice, shown>>
    BY <1>3 DEF Flow!Validate, Flow!world
  <2>3. c \in Captured /\ c.at \in Flow!Moments
    BY <1>0, CaptureFacts
  <2>4. FlowTypes'
    BY <1>0, <2>1, <2>2, <2>3 DEF FlowTypes
  <2>5. /\ shown.by = "none" /\ first.at \in Flow!Moments /\ IsRead(raw)
        /\ mode = "strategy" => Flow!ButtonsDetected(first)
    BY <1>0, <2>1 DEF AnalysisOK, Seen
  <2>6. pc' = "candidate" => Passed(first, c)
    <3>1. ASSUME pc' = "candidate" PROVE FALSE \in Flow!Changed(first, c)
      BY <2>1, <3>1 DEF Flow!Changed
    <3>2. QED
      BY <2>3, <2>5, <3>1, PassedFacts
  <2>7. Flow!ButtonsDetected(first)' = Flow!ButtonsDetected(first) /\ IsRead(raw)'
    BY <2>2, <2>5 DEF Flow!ButtonsDetected, Flow!HeroToAct, IsRead
  <2>8. pc' \in {"idle", "candidate"} /\ (pc' = "candidate" => Passed(first, validated)')
    BY <2>1, <2>2, <2>6 DEF Passed, Flow!ButtonsDetected, Flow!HeroToAct, Flow!Street
  <2>9. AnalysisOK'
    BY <2>1, <2>2, <2>5, <2>7, <2>8 DEF AnalysisOK, Seen, Candidates, Deciding, Judged
  <2>10. TokenOK' /\ ShownAdviceIsCurrent'
    BY <1>0, <2>2, <2>5, <2>8 DEF TokenOK, Judged, ShownAdviceIsCurrent, Flow!ShownAdviceIsCurrent
  <2>11. QED
    BY <2>4, <2>9, <2>10 DEF FlowInv
<1>4. QED
  BY <1>1, <1>2, <1>3
LEMMA AddCandidateStep == ASSUME FlowInv, Flow!AddCandidate PROVE FlowInv'
<1>0. FlowTypes /\ AnalysisOK /\ TokenOK
  BY DEF FlowInv
<1>1. /\ pc = "candidate"
      /\ UNCHANGED <<table, runtime, route, mode, first, validated, final, raw, token, advice, shown>>
  BY DEF Flow!AddCandidate, Flow!world, Flow!captures
<1>2. \/ pc' = "idle" /\ history' = history
      \/ history' = Flow!Extended(Flow!Preserved(raw))
         /\ pc' = IF mode = "strategy" THEN "strategy" ELSE "idle"
  BY DEF Flow!AddCandidate, Flow!Return
<1>3. /\ IsRead(raw) /\ first.at \in Flow!Moments /\ shown.by = "none"
      /\ mode = "strategy" => Flow!ButtonsDetected(first) /\ Passed(first, validated)
  BY <1>0, <1>1 DEF AnalysisOK, Seen, Candidates
<1>4. history' \in Seq(Readings) /\ (pc' = "strategy" => history' # <<>> /\ Flow!Last(history)'.at = first.at)
  <2>1. CASE pc' = "idle" /\ history' = history
    BY <1>0, <2>1 DEF FlowTypes
  <2>2. CASE history' = Flow!Extended(Flow!Preserved(raw))
    <3> DEFINE s == Flow!Preserved(raw)
    <3>1. s \in Readings /\ s.at = first.at
      <4>1. raw \in Readings
        BY <1>0 DEF FlowTypes
      <4>2. s \in Readings /\ s.at = raw.at
        BY <1>0, <4>1, SnapshotKept
      <4>3. QED
        BY <1>3, <4>2 DEF IsRead
    <3> HIDE DEF s
    <3>2. /\ Flow!Extended(s) \in Seq(Readings) /\ Flow!Extended(s) # <<>>
          /\ Flow!Last(Flow!Extended(s)).at = s.at
      BY <1>0, <3>1, ExtendedFacts
    <3>3. history' = Flow!Extended(s)
      BY <2>2 DEF s
    <3>4. QED
      BY <3>1, <3>2, <3>3 DEF Flow!Last
  <2>3. QED
    BY <1>2, <2>1, <2>2
<1>5. FlowTypes'
  BY <1>0, <1>1, <1>4 DEF FlowTypes
<1>6. pc' \in {"idle", "strategy"} /\ (pc' = "strategy" => mode = "strategy")
  BY <1>2
<1>7. /\ Flow!ButtonsDetected(first)' = Flow!ButtonsDetected(first) /\ IsRead(raw)'
      /\ mode = "strategy" => Passed(first, validated)'
  BY <1>1, <1>3 DEF Passed, Flow!ButtonsDetected, Flow!HeroToAct, Flow!Street, IsRead
<1>8. AnalysisOK'
  BY <1>1, <1>3, <1>4, <1>6, <1>7 DEF AnalysisOK, Seen, Candidates, Deciding, Judged
<1>9. TokenOK' /\ ShownAdviceIsCurrent'
  BY <1>0, <1>1, <1>3, <1>6 DEF TokenOK, Judged, ShownAdviceIsCurrent, Flow!ShownAdviceIsCurrent
<1>10. QED
  BY <1>5, <1>8, <1>9 DEF FlowInv

(* The steps that decide on the advice touch nothing of what was captured. *)
LEMMA DecidingKeeps ==
  ASSUME FlowInv, pc \in Deciding, pc' \in (Deciding \ {"display"}) \cup {"idle"},
         UNCHANGED <<table, route, mode, first, validated, final, raw, history, shown>>,
         runtime' \in Runtimes
  PROVE  FlowTypes' /\ AnalysisOK' /\ ShownAdviceIsCurrent'
<1>1. FlowTypes'
  BY DEF FlowInv, FlowTypes
<1>2. AnalysisOK /\ pc \in Seen /\ pc \in Candidates /\ pc # "idle"
  BY DEF FlowInv, Seen, Candidates, Deciding, Judged
<1>3. IsRead(raw) /\ Flow!ButtonsDetected(first) /\ first.at \in Flow!Moments /\ shown.by = "none"
      /\ mode = "strategy" /\ Passed(first, validated) /\ history # <<>>
      /\ Flow!Last(history).at = first.at
  BY <1>2 DEF AnalysisOK
<1>4. /\ Flow!ButtonsDetected(first)' = Flow!ButtonsDetected(first) /\ IsRead(raw)'
      /\ Flow!Last(history)' = Flow!Last(history) /\ Passed(first, validated)'
  BY <1>3 DEF Passed, Flow!ButtonsDetected, Flow!HeroToAct, Flow!Street, IsRead, Flow!Last
<1>5. AnalysisOK'
  BY <1>3, <1>4 DEF AnalysisOK
<1>6. ShownAdviceIsCurrent'
  BY <1>3 DEF ShownAdviceIsCurrent, Flow!ShownAdviceIsCurrent
<1>7. QED
  BY <1>1, <1>5, <1>6

Decisions ==
  \/ Flow!StartLegacyRoute \/ Flow!TakeToken \/ Flow!CheckToken \/ Flow!Evaluate
  \/ Flow!Solve \/ Flow!Unsolved \/ Flow!AskClaude

LEMMA DecisionStep == ASSUME FlowInv, Decisions PROVE FlowInv'
<1>0. FlowTypes /\ TokenOK
  BY DEF FlowInv
<1>1. UNCHANGED <<table, route, mode, first, validated, final, raw, history, shown>>
  BY DEF Decisions, Flow!StartLegacyRoute, Flow!TakeToken, Flow!CheckToken, Flow!Evaluate,
         Flow!Solve, Flow!Unsolved, Flow!AskClaude, Flow!captures, Flow!world
<1>2. runtime' = runtime \/ Flow!InvalidateIfSick
  BY DEF Decisions, Flow!StartLegacyRoute, Flow!TakeToken, Flow!CheckToken, Flow!Evaluate,
         Flow!Solve, Flow!Unsolved, Flow!AskClaude, Flow!world
<1>3. /\ runtime' \in Runtimes
      /\ runtime'.consumed = TRUE /\ runtime'.bundle # Flow!NoMoment =>
           runtime'.bundle = runtime'.sampled
  BY <1>0, <1>2, InvalidateFacts DEF FlowTypes, TokenOK
<1>4. pc \in Deciding /\ pc' \in (Deciding \ {"display"}) \cup {"idle"}
  <2>1. CASE Flow!StartLegacyRoute \/ Flow!TakeToken
    BY <2>1 DEF Flow!StartLegacyRoute, Flow!TakeToken, Flow!Return, Deciding
  <2>2. CASE Flow!CheckToken
    BY <2>2 DEF Flow!CheckToken, Deciding, Judged
  <2>3. CASE Flow!Evaluate
    BY <2>3 DEF Flow!Evaluate, Deciding
  <2>4. CASE Flow!Solve
    BY <2>4 DEF Flow!Solve, Flow!Judged, Deciding, Judged
  <2>5. CASE Flow!Unsolved \/ Flow!AskClaude
    BY <2>5 DEF Flow!Unsolved, Flow!AskClaude, Flow!Return, Flow!Judged, Deciding, Judged
  <2>6. QED
    BY <2>1, <2>2, <2>3, <2>4, <2>5 DEF Decisions
<1>5. /\ Flow!Continuous /\ pc' = "solve" => raw.at = token'
      /\ Flow!Continuous /\ pc' \in Judged /\ advice' # "error" => raw.at = token'
  <2>1. CASE Flow!StartLegacyRoute \/ Flow!TakeToken
    BY <2>1 DEF Flow!StartLegacyRoute, Flow!TakeToken, Flow!Return, Judged
  <2>2. CASE Flow!CheckToken
    BY <1>0, <2>2 DEF Flow!CheckToken, TokenOK, Judged
  <2>3. CASE Flow!Evaluate
    <3>1. pc' = "solve" => Flow!CanSolve
      BY <2>3 DEF Flow!Evaluate
    <3>2. Flow!CanSolve /\ Flow!Continuous => raw.at = token
      BY DEF Flow!CanSolve, Flow!Continuous, Flow!Replays
    <3>3. pc' \notin Judged /\ token' = token
      BY <2>3 DEF Flow!Evaluate, Judged
    <3>4. QED
      BY <3>1, <3>2, <3>3
  <2>4. CASE Flow!Solve
    <3>1. pc = "solve" /\ token' = token /\ pc' # "solve"
      BY <2>4 DEF Flow!Solve, Flow!Judged
    <3>2. QED
      BY <1>0, <3>1 DEF TokenOK
  <2>5. CASE Flow!Unsolved \/ Flow!AskClaude
    BY <2>5 DEF Flow!Unsolved, Flow!AskClaude, Flow!Return, Flow!Judged, Judged
  <2>6. QED
    BY <2>1, <2>2, <2>3, <2>4, <2>5 DEF Decisions
<1>6. Flow!Continuous' = Flow!Continuous
  BY <1>1 DEF Flow!Continuous
<1>7. TokenOK'
  BY <1>1, <1>3, <1>5, <1>6 DEF TokenOK
<1>8. FlowTypes' /\ AnalysisOK' /\ ShownAdviceIsCurrent'
  BY <1>1, <1>3, <1>4, DecidingKeeps
<1>9. QED
  BY <1>7, <1>8 DEF FlowInv

LEMMA FinalCaptureStep == ASSUME FlowInv, Flow!FinalCapture PROVE FlowInv'
<1>0. FlowTypes /\ AnalysisOK /\ TokenOK
  BY DEF FlowInv
<1>1. PICK c \in Flow!Captures :
        /\ pc = "final" /\ final' = c
        /\ \E changed \in Flow!Changed(validated, c) : pc' = IF changed THEN "idle" ELSE "display"
  BY DEF Flow!FinalCapture
<1>2. UNCHANGED <<table, runtime, route, mode, first, validated, raw, history, token, advice, shown>>
  BY DEF Flow!FinalCapture, Flow!world
<1>3. c \in Captured /\ c.at \in Flow!Moments
  BY <1>0, CaptureFacts
<1>4. FlowTypes'
  BY <1>0, <1>1, <1>2, <1>3 DEF FlowTypes
<1>5. pc \in Deciding /\ pc \in Candidates /\ pc \in Seen
  BY <1>1 DEF Deciding, Judged, Candidates, Seen
<1>6. IsRead(raw) /\ Flow!ButtonsDetected(first) /\ first.at \in Flow!Moments /\ shown.by = "none"
      /\ mode = "strategy" /\ Passed(first, validated) /\ history # <<>>
      /\ Flow!Last(history).at = first.at
  BY <1>0, <1>1, <1>5 DEF AnalysisOK
<1>7. /\ Flow!ButtonsDetected(first)' = Flow!ButtonsDetected(first) /\ IsRead(raw)'
      /\ Flow!Last(history)' = Flow!Last(history) /\ Passed(first, validated)'
  BY <1>2, <1>6 DEF Passed, Flow!ButtonsDetected, Flow!HeroToAct, Flow!Street, IsRead, Flow!Last
<1>8. ASSUME pc' = "display" PROVE Passed(validated, final)'
  <2>1. FALSE \in Flow!Changed(validated, c)
    BY <1>1, <1>8 DEF Flow!Changed
  <2>2. validated.at \in Flow!Moments
    BY <1>6 DEF Passed
  <2>3. Passed(validated, c)
    BY <1>3, <2>1, <2>2, PassedFacts
  <2>4. QED
    BY <1>1, <1>2, <2>3 DEF Passed, Flow!ButtonsDetected, Flow!HeroToAct, Flow!Street
<1>9. AnalysisOK'
  BY <1>2, <1>6, <1>7, <1>8 DEF AnalysisOK
<1>10. pc' \in {"idle", "display"}
  BY <1>1
<1>11. TokenOK' /\ ShownAdviceIsCurrent'
  BY <1>0, <1>1, <1>2, <1>6, <1>10
    DEF TokenOK, Judged, Flow!Continuous, ShownAdviceIsCurrent, Flow!ShownAdviceIsCurrent
<1>12. QED
  BY <1>4, <1>9, <1>11 DEF FlowInv

LEMMA DisplayStep == ASSUME FlowInv, Flow!Display PROVE FlowInv'
<1>0. FlowTypes /\ AnalysisOK /\ TokenOK
  BY DEF FlowInv
<1>1. /\ pc = "display" /\ pc' = "idle"
      /\ UNCHANGED <<table, route, mode, first, validated, final, raw, history, token, advice>>
      /\ runtime' = runtime \/ Flow!InvalidateIfSick
  BY DEF Flow!Display, Flow!Return, Flow!captures
<1>2. /\ runtime' \in Runtimes
      /\ runtime'.consumed = TRUE /\ runtime'.bundle # Flow!NoMoment =>
           runtime'.bundle = runtime'.sampled
  BY <1>0, <1>1, InvalidateFacts DEF FlowTypes, TokenOK
<1>3. FlowTypes'
  BY <1>0, <1>1, <1>2 DEF FlowTypes
<1>4. pc' \notin Seen /\ pc' # "vision" /\ pc' \notin Candidates /\ pc' \notin Deciding /\ pc' \notin Judged
  BY <1>1 DEF Seen, Candidates, Deciding, Judged
<1>5. AnalysisOK' /\ TokenOK'
  BY <1>1, <1>2, <1>4 DEF AnalysisOK, TokenOK
<1>6. pc \in Deciding /\ pc \in Candidates /\ pc \in Seen /\ pc \in Judged
  BY <1>1 DEF Deciding, Judged, Candidates, Seen
<1>7. IsRead(raw) /\ Flow!ButtonsDetected(first) /\ first.at = raw.at
      /\ mode = "strategy" /\ Passed(first, validated)
      /\ Flow!Last(history).at = first.at /\ Passed(validated, final)
  BY <1>0, <1>1, <1>6 DEF AnalysisOK, IsRead
<1>8. /\ first.at.hand = final.at.hand /\ Flow!Street(first.at) = Flow!Street(final.at)
      /\ validated.lit => Flow!HeroToAct(final.at)
      /\ validated.lit /\ final.lit => first.at = final.at
  BY <1>7 DEF Passed, Flow!ButtonsDetected
<1>9. ASSUME shown'.by # "none" PROVE Flow!ShownAdviceIsCurrent'
  <2>1. /\ ~(advice = "error" \/ (Flow!Continuous /\ ~Flow!TokenReady))
        /\ shown' = [by |-> advice,
                     snapshot |-> IF Flow!Continuous THEN raw ELSE Flow!Last(history),
                     newest |-> runtime.sampled]
    BY <1>9 DEF Flow!Display
  <2>2. CASE Flow!Continuous
    <3>1. raw.at = token /\ runtime.bundle = token /\ runtime.consumed = TRUE
          /\ runtime.bundle # Flow!NoMoment
      <4>1. runtime.consumed \in BOOLEAN
        BY <1>0 DEF FlowTypes, Runtimes
      <4>2. Flow!TokenReady
        BY <2>1, <2>2
      <4>3. runtime.consumed /\ runtime.bundle # Flow!NoMoment /\ runtime.bundle = token
        BY <4>2 DEF Flow!TokenReady, Flow!Ready
      <4>4. runtime.consumed = TRUE
        BY <4>1, <4>3, Zenon
      <4>5. QED
        BY <1>0, <1>6, <2>1, <2>2, <4>3, <4>4 DEF TokenOK
    <3>2. raw.at = runtime.sampled
      BY <1>0, <3>1 DEF TokenOK
    <3>3. shown'.snapshot = raw /\ shown'.newest = runtime.sampled
      BY <2>1, <2>2
    <3>4. QED
      BY <1>1, <1>7, <1>8, <2>2, <3>2, <3>3
        DEF Flow!ShownAdviceIsCurrent, Flow!Continuous, Flow!HeroToAct, Flow!Street
  <2>3. CASE ~Flow!Continuous
    <3>1. shown'.snapshot = Flow!Last(history)
      BY <2>1, <2>3
    <3>2. QED
      BY <1>1, <1>7, <1>8, <2>3, <3>1
        DEF Flow!ShownAdviceIsCurrent, Flow!Continuous, Flow!HeroToAct, Flow!Street
  <2>4. QED
    BY <2>2, <2>3
<1>10. ShownAdviceIsCurrent'
  BY <1>9 DEF ShownAdviceIsCurrent, Flow!ShownAdviceIsCurrent
<1>11. QED
  BY <1>3, <1>5, <1>10 DEF FlowInv

LEMMA FlowNext == FlowInv /\ [Flow!Next]_Flow!vars => FlowInv'
<1> SUFFICES ASSUME FlowInv, [Flow!Next]_Flow!vars PROVE FlowInv'
  OBVIOUS
<1>1. CASE Flow!Table \/ Flow!ContinuousHistory
  BY <1>1, WorldStep
<1>2. CASE Flow!Keys
  BY <1>2, KeyStep
<1>3. CASE Flow!Capture \/ Flow!Vision \/ Flow!Validate
  BY <1>3, SeeingStep
<1>4. CASE Flow!AddCandidate
  BY <1>4, AddCandidateStep
<1>5. CASE Decisions
  BY <1>5, DecisionStep
<1>6. CASE Flow!FinalCapture
  BY <1>6, FinalCaptureStep
<1>7. CASE Flow!Display
  BY <1>7, DisplayStep
<1>8. CASE UNCHANGED Flow!vars
  <2>1. UNCHANGED <<table, runtime, route, pc, mode, first, validated, final, raw, history, token, advice, shown>>
    BY <1>8 DEF Flow!vars, Flow!world, Flow!captures
  <2>2. FlowTypes'
    BY <2>1 DEF FlowInv, FlowTypes
  <2>3. AnalysisOK'
    BY <2>1 DEF FlowInv, AnalysisOK, IsRead, Passed, Flow!ButtonsDetected, Flow!HeroToAct, Flow!Street
  <2>4. TokenOK' /\ ShownAdviceIsCurrent'
    BY <2>1 DEF FlowInv, TokenOK, ShownAdviceIsCurrent, Flow!ShownAdviceIsCurrent, Flow!Continuous
  <2>5. QED
    BY <2>2, <2>3, <2>4 DEF FlowInv
<1>9. QED
  BY <1>1, <1>2, <1>3, <1>4, <1>5, <1>6, <1>7, <1>8 DEF Flow!Next, Flow!Analysis, Decisions

(* Advice on the screen is for the hand and the street that was captured   *)
(* last, for the very decision if the second and the last capture showed   *)
(* lit controls, and, on a route that depends on the continuous history,   *)
(* for its newest frame.                                                   *)
THEOREM LiveAdviceIsCurrent == LiveSpec => []ShownAdviceIsCurrent
<1>1. FlowInv => ShownAdviceIsCurrent
  BY DEF FlowInv
<1>2. Flow!Spec => []FlowInv
  BY FlowInit, FlowNext, PTL DEF Flow!Spec
<1>3. QED
  BY <1>1, <1>2, LiveIsFlow, PTL
-----------------------------------------------------------------------------
(* The manual history.  A guess that a snapshot goes on with the last hand *)
(* is right about the seat that deals: that is all the dealer, the cards   *)
(* and the board can tell.                                                 *)
OfButton(s, button) ==
  /\ Flow!Button(s.at.hand) = button
  /\ s.dealer \in {Flow!Unknown, button}
  /\ \E hand \in Flow!Hands : s.cards \in {hand, -hand} /\ Flow!Button(hand) = button
  /\ Len(s.board) = Flow!Street(s.at)
  /\ \A i \in DOMAIN s.board : Flow!Button(s.board[i]) = button

HistoryIsOfOneButton ==
  /\ \A i \in DOMAIN history : history[i].at \in Flow!Moments
  /\ (\A i \in DOMAIN history : history[i].cards # Flow!NoCards) =>
       \E button : \A i \in DOMAIN history : OfButton(history[i], button)

\* What the analysis knows of the reading it is about to add.
LEMMA CandidateFacts ==
  ASSUME FlowInv, pc = "candidate"
  PROVE  /\ raw \in Readings /\ raw.at \in Flow!Moments
         /\ raw.cards \in {0, raw.at.hand, -raw.at.hand}
         /\ raw.dealer \in {Flow!Unknown, Flow!Button(raw.at.hand)}
         /\ raw.board = Flow!Board(raw.at) /\ raw.board \in Seq(Flow!Hands)
         /\ Len(raw.board) = Flow!Street(raw.at)
         /\ \A i \in 1..Len(raw.board) : raw.board[i] = raw.at.hand
         /\ raw.at.hand \in Flow!Hands /\ raw.at.hand \in Nat \ {0}
<1>1. IsRead(raw) /\ first.at \in Flow!Moments /\ raw \in Readings
  BY DEF FlowInv, FlowTypes, AnalysisOK, Seen, Candidates
<1>2. raw.at \in Flow!Moments
  BY <1>1 DEF IsRead
<1>3. QED
  BY <1>1, <1>2, ReadingFacts DEF IsRead

LEMMA ReadingOfButton ==
  ASSUME FlowInv, pc = "candidate", raw.cards # Flow!NoCards
  PROVE  OfButton(raw, Flow!Button(raw.at.hand))
<1>1. raw.at.hand \in Flow!Hands /\ raw.cards \in {raw.at.hand, -raw.at.hand}
  BY CandidateFacts DEF Flow!NoCards
<1>2. DOMAIN raw.board = 1..Len(raw.board)
  BY CandidateFacts
<1>3. QED
  BY <1>1, <1>2, CandidateFacts DEF OfButton

\* A snapshot of a new hand was not completed from the old one.
LEMMA NewHandIsRead ==
  ASSUME FlowInv, pc = "candidate",
         history = <<>> \/ Flow!IsNewHand(Flow!Last(history), Flow!Preserved(raw))
  PROVE  Flow!Preserved(raw) = raw
<1> DEFINE s == Flow!Preserved(raw)
           last == Flow!Last(history)
<1>1. raw \in Readings /\ FlowTypes
  BY CandidateFacts DEF FlowInv
<1>2. s.at = raw.at /\ s.board = raw.board /\ s.dealer = raw.dealer
  BY <1>1, SnapshotKept
<1>3. CASE history = <<>>
  BY <1>3 DEF Flow!Preserved
<1>4. ASSUME history # <<>>, s # raw PROVE FALSE
  <2>1. /\ Flow!Continues(last, raw) /\ last.cards # Flow!NoCards
        /\ s = [raw EXCEPT !.cards = last.cards]
    BY <1>4 DEF Flow!Preserved
  <2>2. s.cards = last.cards
    BY <1>1, <2>1 DEF Readings
  <2>3. Flow!IsNewHand(last, s)
    BY <1>4
  <2>4. s.board = <<>>
    BY <2>1, <2>2, <2>3 DEF Flow!IsNewHand
  <2>5. raw.board = <<>> /\ Len(raw.board) = 0
    BY <1>2, <2>4
  <2>6. last \in Readings
    BY <1>1, <1>4 DEF FlowTypes, Flow!Last
  <2>7. last.board \in Seq(Flow!Hands)
    BY <2>6 DEF Readings
  <2>8. Flow!BoardContinues(last, raw)
    BY <2>1, <2>5 DEF Flow!Continues, Flow!FlopFollows
  <2>9. last.board # <<>> /\ Len(last.board) <= Len(raw.board)
    BY <2>8 DEF Flow!BoardContinues, Flow!IsPrefix
  <2>10. QED
    BY <2>5, <2>7, <2>9
<1>5. QED
  BY <1>3, <1>4

\* What goes on with the last snapshot has its dealer.
LEMMA SameButton ==
  ASSUME FlowInv, pc = "candidate", history # <<>>, NEW button,
         OfButton(Flow!Last(history), button),
         ~Flow!IsNewHand(Flow!Last(history), Flow!Preserved(raw)),
         Flow!Last(history).cards # Flow!NoCards, Flow!Preserved(raw).cards # Flow!NoCards
  PROVE  Flow!Button(raw.at.hand) = button
<1> DEFINE s == Flow!Preserved(raw)
           last == Flow!Last(history)
           h == raw.at.hand
<1>1. raw \in Readings /\ FlowTypes
  BY CandidateFacts DEF FlowInv
<1>2. s.at = raw.at /\ s.board = raw.board /\ s.dealer = raw.dealer
  BY <1>1, SnapshotKept
<1>3. last \in Readings
  BY <1>1 DEF FlowTypes, Flow!Last
<1>4. Flow!Continues(last, s) = Flow!Continues(last, raw)
  BY <1>2 DEF Flow!Continues, Flow!BoardContinues, Flow!FlopFollows
<1>5. Flow!Continues(last, raw) \/ last.cards = s.cards
  BY <1>4 DEF Flow!IsNewHand
<1>6. CASE Flow!BoardContinues(last, raw)
  <2>1. last.board \in Seq(Flow!Hands) /\ raw.board \in Seq(Flow!Hands) /\ last.board # <<>>
    BY <1>3, <1>6, CandidateFacts DEF Readings, Flow!BoardContinues
  <2> DEFINE n == Len(last.board)
  <2>2. n \in Nat /\ n >= 1 /\ n <= Len(raw.board) /\ Len(raw.board) \in Nat
        /\ SubSeq(last.board, 1, n) = SubSeq(raw.board, 1, n)
    BY <1>6, <2>1 DEF Flow!BoardContinues, Flow!IsPrefix
  <2>3. \A i \in 1..n : last.board[i] \in Flow!Hands /\ raw.board[i] \in Flow!Hands
    BY <2>1, <2>2, ElementOfSeq
  <2>4. SubSeq(last.board, 1, n)[1] = last.board[1] /\ SubSeq(raw.board, 1, n)[1] = raw.board[1]
    <3>1. \A i \in 1 .. n - 1 + 1 : SubSeq(last.board, 1, n)[i] = last.board[1 + i - 1]
      BY <2>2, <2>3, SubSeqProperties
    <3>2. \A i \in 1 .. n - 1 + 1 : SubSeq(raw.board, 1, n)[i] = raw.board[1 + i - 1]
      BY <2>2, <2>3, SubSeqProperties
    <3>3. 1 \in 1 .. n - 1 + 1 /\ 1 + 1 - 1 = 1
      BY <2>2
    <3>4. QED
      BY <3>1, <3>2, <3>3
  <2>5. raw.board[1] = h /\ 1 \in DOMAIN last.board
    BY <2>1, <2>2, CandidateFacts
  <2>6. QED
    BY <2>2, <2>4, <2>5 DEF OfButton
<1>7. CASE Flow!FlopFollows(last, raw)
  BY <1>7, CandidateFacts DEF Flow!FlopFollows, OfButton
<1>8. CASE ~Flow!Continues(last, raw)
  <2>1. s = raw /\ last.cards = raw.cards
    BY <1>5, <1>8 DEF Flow!Preserved
  <2>2. PICK hand \in Flow!Hands : last.cards \in {hand, -hand} /\ Flow!Button(hand) = button
    BY DEF OfButton
  <2>3. h \in Nat \ {0} /\ raw.cards \in {h, -h} /\ hand \in Nat \ {0}
    BY <2>1, <2>2, CandidateFacts, FlowAssumption DEF Flow!NoCards, Flow!Hands
  <2>4. h = hand
    BY <2>1, <2>2, <2>3
  <2>5. QED
    BY <2>2, <2>4
<1>9. QED
  BY <1>6, <1>7, <1>8 DEF Flow!Continues

\* The board that is kept is of that dealer, and as long as the one read.
LEMMA KeptBoard ==
  ASSUME FlowInv, pc = "candidate", history # <<>>, NEW button,
         OfButton(Flow!Last(history), button), Flow!Button(raw.at.hand) = button,
         NEW s \in Readings, s.at = raw.at, s.board = raw.board
  PROVE  /\ Len(Flow!BoardKept(s).board) = Flow!Street(raw.at)
         /\ \A i \in DOMAIN Flow!BoardKept(s).board : Flow!Button(Flow!BoardKept(s).board[i]) = button
<1> DEFINE old == Flow!Last(history).board
           n == Len(old)
           m == Len(raw.board)
           more == SubSeq(raw.board, n + 1, m)
           new == old \o more
<1>1. FlowTypes /\ Flow!Last(history) \in Readings
  BY DEF FlowInv, FlowTypes, Flow!Last
<1>2. /\ old \in Seq(Flow!Hands) /\ raw.board \in Seq(Flow!Hands) /\ n \in Nat /\ m \in Nat
      /\ m = Flow!Street(raw.at) /\ \A i \in 1..m : raw.board[i] = raw.at.hand
      /\ \A i \in 1..n : Flow!Button(old[i]) = button
  BY <1>1, CandidateFacts DEF Readings, OfButton
<1>3. CASE m < n
  <2>1. Flow!BoardKept(s) = s
    BY <1>2, <1>3 DEF Flow!BoardKept
  <2>2. DOMAIN raw.board = 1..m
    BY <1>2
  <2>3. QED
    BY <1>2, <2>1, <2>2
<1>4. CASE m >= n
  <2>1. Flow!BoardKept(s) = [s EXCEPT !.board = new]
    BY <1>4 DEF Flow!BoardKept
  <2>2. Flow!BoardKept(s).board = new
    BY <2>1 DEF Readings
  <2>3. \A i \in n + 1 .. m : raw.board[i] \in Flow!Hands
    BY <1>2, ElementOfSeq
  <2>4. /\ more \in Seq(Flow!Hands) /\ Len(more) = IF n + 1 <= m THEN m - (n + 1) + 1 ELSE 0
        /\ \A i \in 1 .. m - (n + 1) + 1 : more[i] = raw.board[n + 1 + i - 1]
    BY <1>2, <2>3, SubSeqProperties
  <2>5. Len(more) = m - n /\ \A i \in 1 .. m - n : more[i] = raw.at.hand
    <3>1. Len(more) = m - n
      BY <1>2, <1>4, <2>4
    <3>2. ASSUME NEW i \in 1 .. m - n PROVE more[i] = raw.at.hand
      <4>1. i \in 1 .. m - (n + 1) + 1 /\ n + 1 + i - 1 \in 1..m
        BY <1>2, <1>4
      <4>2. QED
        BY <1>2, <2>4, <4>1
    <3>3. QED
      BY <3>1, <3>2
  <2> HIDE DEF more
  <2>6. /\ new \in Seq(Flow!Hands) /\ Len(new) = n + Len(more)
        /\ \A i \in 1 .. n + Len(more) : new[i] = IF i <= n THEN old[i] ELSE more[i - n]
    BY <1>2, <2>4, ConcatProperties
  <2> HIDE DEF new
  <2>7. Len(new) = m /\ DOMAIN new = 1..m
    BY <1>2, <1>4, <2>5, <2>6
  <2>8. ASSUME NEW i \in 1..m PROVE Flow!Button(new[i]) = button
    <3>1. i \in 1 .. n + Len(more)
      BY <1>2, <2>5
    <3>2. CASE i <= n
      <4>1. new[i] = old[i] /\ i \in 1..n
        BY <2>6, <3>1, <3>2
      <4>2. QED
        BY <1>2, <4>1
    <3>3. CASE i > n
      <4>1. new[i] = more[i - n] /\ i - n \in 1 .. m - n
        BY <1>2, <2>6, <3>1, <3>3
      <4>2. QED
        BY <2>5, <4>1
    <3>4. QED
      BY <1>2, <3>2, <3>3
  <2>9. QED
    BY <1>2, <2>2, <2>7, <2>8
<1>5. QED
  BY <1>2, <1>3, <1>4

LEMMA AppendedOfButton ==
  ASSUME FlowInv, pc = "candidate", history # <<>>, NEW button,
         \A i \in DOMAIN history : OfButton(history[i], button),
         ~Flow!IsNewHand(Flow!Last(history), Flow!Preserved(raw)),
         Flow!Last(history).cards # Flow!NoCards, Flow!Preserved(raw).cards # Flow!NoCards
  PROVE  OfButton(Flow!BoardKept(Flow!Reconciled(Flow!Preserved(raw))), button)
<1> DEFINE s == Flow!Preserved(raw)
           r == Flow!Reconciled(s)
           t == Flow!BoardKept(r)
           last == Flow!Last(history)
<1>1. raw \in Readings /\ FlowTypes /\ history \in Seq(Readings)
  BY CandidateFacts DEF FlowInv, FlowTypes
<1>2. OfButton(last, button)
  <2>1. Len(history) \in DOMAIN history
    BY <1>1
  <2>2. QED
    BY <2>1 DEF Flow!Last
<1>3. Flow!Button(raw.at.hand) = button
  BY <1>2, SameButton
<1>4. s \in Readings /\ s.at = raw.at /\ s.board = raw.board /\ s.dealer = raw.dealer
  BY <1>1, SnapshotKept
<1>5. r \in Readings /\ r.at = s.at /\ r.board = s.board /\ r.cards = s.cards
  BY <1>1, <1>4, SnapshotKept
<1>6. t.at = r.at /\ t.cards = r.cards /\ t.dealer = r.dealer
  BY <1>1, <1>5, SnapshotKept
<1>7. r.dealer \in {Flow!Unknown, button}
  <2>1. r.dealer = IF s.dealer = Flow!Unknown THEN Flow!KnownDealer ELSE s.dealer
    BY <1>4 DEF Flow!Reconciled, Readings
  <2>2. Flow!KnownDealer \in {Flow!Unknown, button}
    BY <1>1, KnownDealerFacts DEF OfButton
  <2>3. QED
    BY <1>3, <1>4, <2>1, <2>2, CandidateFacts
<1>8. \E hand \in Flow!Hands : s.cards \in {hand, -hand} /\ Flow!Button(hand) = button
  <2>1. CASE s = raw
    BY <1>3, <2>1, CandidateFacts DEF Flow!NoCards
  <2>2. CASE s = [raw EXCEPT !.cards = last.cards]
    <3>1. s.cards = last.cards
      BY <1>1, <2>2 DEF Readings
    <3>2. QED
      BY <1>2, <3>1 DEF OfButton
  <2>3. QED
    BY <2>1, <2>2 DEF Flow!Preserved
<1>9. /\ Len(t.board) = Flow!Street(raw.at)
      /\ \A i \in DOMAIN t.board : Flow!Button(t.board[i]) = button
  BY <1>2, <1>3, <1>4, <1>5, KeptBoard
<1> HIDE DEF s, r, t, last
<1>10. OfButton(t, button)
  BY <1>3, <1>4, <1>5, <1>6, <1>7, <1>8, <1>9 DEF OfButton
<1>11. QED
  BY <1>10 DEF t, r, s
LEMMA HistoryNext ==
  FlowInv /\ HistoryIsOfOneButton /\ [Flow!Next]_Flow!vars => HistoryIsOfOneButton'
<1> SUFFICES ASSUME FlowInv, HistoryIsOfOneButton, [Flow!Next]_Flow!vars
             PROVE  HistoryIsOfOneButton'
  OBVIOUS
<1>1. CASE history' = history
  BY <1>1 DEF HistoryIsOfOneButton, OfButton, Flow!Button, Flow!Street
<1>2. CASE history' = <<>>
  BY <1>2 DEF HistoryIsOfOneButton
<1>3. CASE pc = "candidate" /\ history' = Flow!Extended(Flow!Preserved(raw))
  <2> DEFINE s == Flow!Preserved(raw)
             t == Flow!BoardKept(Flow!Reconciled(s))
             new == history = <<>> \/ Flow!IsNewHand(Flow!Last(history), s)
  <2>1. raw \in Readings /\ FlowTypes /\ history \in Seq(Readings) /\ raw.at \in Flow!Moments
    BY <1>3, CandidateFacts DEF FlowInv, FlowTypes
  <2>2. CASE new
    <3>1. s = raw
      BY <1>3, <2>2, NewHandIsRead
    <3>2. history' = <<raw>>
      BY <1>3, <2>2, <3>1 DEF Flow!Extended
    <3>3. DOMAIN history' = {1} /\ history'[1] = raw
      BY <3>2
    <3>4. raw.cards # Flow!NoCards => OfButton(raw, Flow!Button(raw.at.hand))
      BY <1>3, ReadingOfButton
    <3>5. QED
      BY <2>1, <3>3, <3>4 DEF HistoryIsOfOneButton, OfButton, Flow!Button, Flow!Street
  <2>3. CASE ~new
    <3>1. history' = Append(history, t) /\ history # <<>>
      BY <1>3, <2>3 DEF Flow!Extended
    <3>2. s \in Readings /\ s.at = raw.at
      BY <2>1, SnapshotKept
    <3>3. Flow!Reconciled(s) \in Readings /\ Flow!Reconciled(s).at = raw.at
          /\ Flow!Reconciled(s).cards = s.cards
      BY <2>1, <3>2, SnapshotKept
    <3>4. t \in Readings /\ t.at = raw.at /\ t.cards = s.cards
      BY <2>1, <3>1, <3>3, SnapshotKept
    <3> DEFINE n == Len(history)
    <3>5. n \in Nat /\ n >= 1 /\ DOMAIN history = 1..n
      BY <2>1, <3>1
    <3>6. /\ DOMAIN history' = 1 .. n + 1 /\ history'[n + 1] = t
          /\ \A i \in 1..n : history'[i] = history[i]
      BY <2>1, <3>1, <3>4, <3>5, AppendProperties
    <3>7. \A i \in 1 .. n + 1 : i = n + 1 \/ i \in 1..n
      BY <3>5
    <3>8. \A i \in DOMAIN history' : history'[i].at \in Flow!Moments
      BY <2>1, <3>4, <3>5, <3>6, <3>7 DEF HistoryIsOfOneButton
    <3>9. ASSUME \A i \in DOMAIN history' : history'[i].cards # Flow!NoCards
          PROVE  \E button : \A i \in DOMAIN history' : OfButton(history'[i], button)
      <4>1. n + 1 \in DOMAIN history' /\ 1..n \subseteq DOMAIN history' /\ n \in 1..n
        BY <3>5, <3>6
      <4>2. s.cards # Flow!NoCards
        BY <3>4, <3>6, <3>9, <4>1
      <4>3. \A i \in DOMAIN history : history[i].cards # Flow!NoCards
        BY <3>5, <3>6, <3>9, <4>1
      <4>4. PICK button : \A i \in DOMAIN history : OfButton(history[i], button)
        BY <4>3 DEF HistoryIsOfOneButton
      <4>5. Flow!Last(history).cards # Flow!NoCards
        BY <3>5, <4>1, <4>3 DEF Flow!Last
      <4>6. OfButton(t, button)
        BY <1>3, <2>3, <3>1, <4>2, <4>4, <4>5, AppendedOfButton
      <4> HIDE DEF t
      <4>7. \A i \in DOMAIN history' : OfButton(history'[i], button)
        BY <3>5, <3>6, <3>7, <4>4, <4>6
      <4>8. QED
        BY <4>7
    <3> HIDE DEF t
    <3>10. QED
      BY <3>8, <3>9 DEF HistoryIsOfOneButton, OfButton, Flow!Button, Flow!Street
  <2>4. QED
    BY <2>2, <2>3
<1>4. CASE Flow!AddCandidate
  BY <1>1, <1>3, <1>4 DEF Flow!AddCandidate
<1>5. CASE Flow!Keys
  BY <1>1, <1>2, <1>5 DEF Flow!Keys, Flow!Press, Flow!PressNewHand
<1>6. CASE Flow!Table \/ Flow!ContinuousHistory
  BY <1>1, <1>6 DEF Flow!Table, Flow!Act, Flow!DealHand, Flow!ContinuousHistory, Flow!Sample,
    Flow!Accept, Flow!Lose, Flow!Sicken, Flow!OnRuntime
<1>7. CASE Flow!Capture \/ Flow!Vision \/ Flow!Validate \/ Flow!FinalCapture \/ Flow!Display
  BY <1>1, <1>7 DEF Flow!Capture, Flow!Vision, Flow!Validate, Flow!FinalCapture, Flow!Display
<1>8. CASE Decisions
  BY <1>1, <1>8 DEF Decisions, Flow!StartLegacyRoute, Flow!TakeToken, Flow!CheckToken,
    Flow!Evaluate, Flow!Solve, Flow!Unsolved, Flow!AskClaude
<1>9. CASE UNCHANGED Flow!vars
  BY <1>1, <1>9 DEF Flow!vars
<1>10. QED
  BY <1>4, <1>5, <1>6, <1>7, <1>8, <1>9 DEF Flow!Next, Flow!Analysis, Decisions

(* However many hands pass between two keys: the snapshots of a history    *)
(* whose cards were all read are of hands with one dealer, and so are      *)
(* their cards and their boards.                                           *)
THEOREM LiveHistoryIsOfOneButton == LiveSpec => []HistoryIsOfOneButton
<1>1. Flow!Init => FlowInv /\ HistoryIsOfOneButton
  BY FlowInit DEF Flow!Init, HistoryIsOfOneButton
<1>2. FlowInv /\ HistoryIsOfOneButton /\ [Flow!Next]_Flow!vars => (FlowInv /\ HistoryIsOfOneButton)'
  BY FlowNext, HistoryNext
<1>3. Flow!Spec => []HistoryIsOfOneButton
  BY <1>1, <1>2, PTL DEF Flow!Spec
<1>4. QED
  BY <1>3, LiveIsFlow, PTL

LEMMA ButtonTells ==
  ASSUME MaxHand <= Seats, NEW g \in Flow!Hands, NEW h \in Flow!Hands,
         Flow!Button(g) = Flow!Button(h)
  PROVE  g = h
<1>1. Seats \in Nat \ {0} /\ g \in 1..Seats /\ h \in 1..Seats
  BY FlowAssumption DEF Flow!Hands
<1>2. g < Seats => g % Seats = g
  BY <1>1
<1>3. h < Seats => h % Seats = h
  BY <1>1
<1>4. Seats % Seats = 0
  BY <1>1
<1>5. CASE g < Seats /\ h < Seats
  BY <1>2, <1>3, <1>5 DEF Flow!Button
<1>6. CASE g < Seats /\ h = Seats
  BY <1>1, <1>2, <1>4, <1>6 DEF Flow!Button
<1>7. CASE g = Seats /\ h < Seats
  BY <1>1, <1>3, <1>4, <1>7 DEF Flow!Button
<1>8. QED
  BY <1>1, <1>5, <1>6, <1>7

(* Until the dealer is back at a seat, that is one hand.  It has to be     *)
(* assumed: after a whole round the program does take a hand for more of   *)
(* an old one (MCOtherHand).                                               *)
THEOREM LiveHistoryIsOfOneHand ==
  ASSUME MaxHand <= Seats PROVE LiveSpec => []HistoryIsOfOneHand
<1>1. ASSUME HistoryIsOfOneButton, FlowTypes PROVE HistoryIsOfOneHand
  <2> SUFFICES ASSUME \A i \in DOMAIN history : history[i].cards # Flow!NoCards,
                      NEW i \in DOMAIN history, NEW j \in DOMAIN history
               PROVE  /\ history[i].at.hand = history[j].at.hand
                      /\ history[i].cards \in {history[j].at.hand, -history[j].at.hand}
                      /\ history[i].board = Flow!Board(history[i].at)
    BY DEF HistoryIsOfOneHand, Flow!HistoryIsOfOneHand
  <2>1. PICK button : \A k \in DOMAIN history : OfButton(history[k], button)
    BY <1>1 DEF HistoryIsOfOneButton
  <2>2. history[i].at \in Flow!Moments /\ history[j].at \in Flow!Moments
    BY <1>1 DEF HistoryIsOfOneButton
  <2>3. PICK hand : hand = history[i].at.hand
    OBVIOUS
  <2>4. hand \in Flow!Hands /\ Flow!Button(hand) = button
    BY <2>1, <2>2, <2>3, ReadingFacts DEF OfButton
  <2>5. \A g \in Flow!Hands : Flow!Button(g) = button => g = hand
    BY <2>4, ButtonTells
  <2>6. history[j].at.hand = hand
    <3>1. history[j].at.hand \in Flow!Hands /\ Flow!Button(history[j].at.hand) = button
      BY <2>1, <2>2, ReadingFacts DEF OfButton
    <3>2. QED
      BY <2>5, <3>1
  <2>7. history[i].cards \in {hand, -hand}
    <3>1. OfButton(history[i], button)
      BY <2>1
    <3>2. PICK g \in Flow!Hands : history[i].cards \in {g, -g} /\ Flow!Button(g) = button
      BY <3>1 DEF OfButton
    <3>3. g = hand
      BY <2>5, <3>2
    <3>4. QED
      BY <3>2, <3>3
  <2>8. history[i].board = Flow!Board(history[i].at)
    <3>1. PICK board : board = history[i].board
      OBVIOUS
    <3>2. history[i] \in Readings
      BY <1>1 DEF FlowTypes
    <3>3. board \in Seq(Flow!Hands)
      BY <3>1, <3>2 DEF Readings
    <3>4. PICK m : m = Flow!Street(history[i].at)
      OBVIOUS
    <3>5. m \in Nat /\ Len(board) = m /\ \A k \in DOMAIN board : Flow!Button(board[k]) = button
      BY <2>1, <2>2, <3>1, <3>4, ReadingFacts DEF OfButton
    <3>6. \A k \in 1..m : board[k] \in Flow!Hands /\ k \in DOMAIN board
      BY <3>3, <3>5, ElementOfSeq
    <3>7. \A k \in 1..m : board[k] = hand
      BY <2>5, <3>5, <3>6
    <3>8. PICK read : read = Flow!Board(history[i].at)
      OBVIOUS
    <3>9. read \in Seq(Flow!Hands) /\ Len(read) = m /\ \A k \in 1..m : read[k] = hand
      BY <2>2, <2>3, <3>4, <3>8, ReadingFacts
    <3>10. board = read
      BY <3>3, <3>5, <3>7, <3>9, SeqEqual
    <3>11. QED
      BY <3>1, <3>8, <3>10
  <2>9. QED
    BY <2>3, <2>6, <2>7, <2>8
<1>2. FlowInv => FlowTypes
  BY DEF FlowInv
<1>3. Flow!Spec => []FlowInv
  BY FlowInit, FlowNext, PTL DEF Flow!Spec
<1>4. QED
  BY <1>1, <1>2, <1>3, LiveHistoryIsOfOneButton, LiveIsFlow, PTL
=============================================================================
