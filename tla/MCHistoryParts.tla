--------------------------- MODULE MCHistoryParts ---------------------------
(* The keyframe ring and the history coordinator, each alone with every    *)
(* legal sequence of calls, and the table decoder watching a table: a      *)
(* behaviour is one of the three.  The worker's runs compose the first two.*)
(*                                                                         *)
(* Two keyframes, four frames, two causes of loss and three gap events are *)
(* enough to fill the ring, overflow it, free it, merge gaps and keep gaps *)
(* apart in every order.  Two hands, positions up to a skipped one and     *)
(* four frames are enough for a transcript to start, advance, repeat, be   *)
(* replaced, be lost and recover on another hand, with candidates decoded  *)
(* out of order.  Three seats for the dealer and four hands bring him back *)
(* to a seat with hands in between that were seen or missed.               *)
EXTENDS KeyframeRing, TLC

CONSTANTS Hands, NoHand, MaxPos, DealerSeats, Live, LastStreet, LastHand
VARIABLES coord, play, previous, ordinal, result, decoded, gapped, part
decoderVars == <<play, previous, ordinal, result, decoded, gapped>>

Coord == INSTANCE PublicHistoryCoordinator
Decoder == INSTANCE TableDecoder
ASSUME PartsAssumption == Coord!CoordinatorAssumption /\ Decoder!DecoderAssumption

Symmetry == Permutations(Hands)

PartsInit ==
  /\ part \in {"ring", "coordinator", "decoder"}
  /\ Init /\ Coord!Init /\ Decoder!Init
  /\ part # "decoder" => play.dealer = 1
PartsNext ==
  \/ part = "ring" /\ Next /\ UNCHANGED <<coord, decoderVars, part>>
  \/ part = "coordinator" /\ Coord!Next /\ UNCHANGED <<vars, decoderVars, part>>
  \/ part = "decoder" /\ Decoder!Next /\ UNCHANGED <<vars, coord, part>>
PartsSpec == PartsInit /\ [][PartsNext]_<<vars, coord, decoderVars, part>>

(* A hand cut off by a loss or by the next hand never comes back.          *)
ClosedHandNeverExposed == Coord!ClosedHandNeverExposed
(* A bundle is exposed only while it is the newest decision.               *)
ExposedIsNewestDecision == Coord!ExposedIsNewestDecision
(* A transcript resumes after a loss only where nothing from before it can *)
(* be mixed in.                                                            *)
RecoveryIsFresh == Coord!RecoveryIsFresh
(* Frames with one identifier are of one hand.                             *)
IdentityIsOfOneHand == Decoder!IdentityIsOfOneHand
=============================================================================
