----------------------------- MODULE AdviceFlow -----------------------------
(***************************************************************************)
(* From a key press to advice on the screen (poker_assistant.py): the      *)
(* capture, the vision request, the tests that the table did not change    *)
(* meanwhile, the history of manual snapshots with its guess of where a    *)
(* hand begins, the decision token of the continuous history, the solver   *)
(* or Claude, and the display.                                             *)
(*                                                                         *)
(* The table plays on by itself: a hand is a number, a moment of a hand a  *)
(* step of the script Steps, which gives its street (0 before the flop)    *)
(* and whether Hero is to act.  Vision reads the board and the amounts     *)
(* right; it may miss Hero's cards or the dealer, misread a card, miss the *)
(* controls, or fail.  A board is the sequence of the hands that its       *)
(* streets were dealt in, Hero's cards are the hand they were dealt in     *)
(* (its negative if misread), so that mixed facts show.                    *)
(***************************************************************************)
EXTENDS Integers, Sequences, SequencesExt, FiniteSets

CONSTANTS
  Steps,           \* the moments of a hand: [street, turn]
  Seats,           \* seats the dealer moves round
  Routes,          \* configurations: [backend, router]
  Cards, Dealers,  \* what vision may make of them: "read", "misread", "unread"
  MaxHand,         \* bound: hands played
  MaxPresses       \* bound: keys pressed, for each route

VARIABLES
  table,           \* the hand and the step being played
  runtime,         \* what the continuous history offers: the newest frame
                   \* sampled, whether it is consumed, the hand's bundle
  route,
  pc, mode,        \* where the one analysis is: "strategy" (J) or "debug" (L)
  first, validated, final,  \* the three captures of one analysis
  raw,             \* what vision read from the first
  history,         \* current_history.snapshots
  token,           \* the accepted decision the advice is bound to
  advice,          \* the answer not yet displayed
  shown,           \* the advice that the latest analysis put on the screen
  presses

world == <<table, runtime, route>>
captures == <<first, validated, final>>
vars == <<world, pc, mode, captures, raw, history, token, advice, shown, presses>>

Hands == 1..MaxHand
Moments == [hand : Hands, step : DOMAIN Steps]
NoMoment == [hand |-> 0, step |-> 0]
NoCapture == [at |-> NoMoment, lit |-> FALSE]
NoReading == [at |-> NoMoment, cards |-> 0, dealer |-> -1, board |-> <<>>, turn |-> FALSE, ok |-> FALSE]
NoCards == 0
Unknown == -1
Street(moment) == Steps[moment.step].street
HeroToAct(moment) == Steps[moment.step].turn
Button(hand) == hand % Seats
Board(moment) == [i \in 1..Street(moment) |-> moment.hand]
Idle == pc = "idle"
Return == pc' = "idle"

-----------------------------------------------------------------------------
(* The table and the continuous history, whose frames are sampled from it. *)

Act ==
  /\ table.step < Len(Steps)
  /\ table' = [table EXCEPT !.step = @ + 1]
  /\ UNCHANGED <<runtime, route, pc, mode, captures, raw, history, token, advice, shown, presses>>

DealHand ==
  /\ table.hand < MaxHand
  /\ table' = [hand |-> table.hand + 1, step |-> 1]
  /\ UNCHANGED <<runtime, route, pc, mode, captures, raw, history, token, advice, shown, presses>>

Continuous == route.backend = "GTO_MULTIWAY" \/ route.router = "multiway"

OnRuntime(new) ==
  /\ Continuous
  /\ runtime' = new
  /\ UNCHANGED <<table, route, pc, mode, captures, raw, history, token, advice, shown, presses>>

Sample ==
  /\ runtime.healthy /\ runtime.sampled # table
  /\ OnRuntime([runtime EXCEPT !.sampled = table, !.consumed = FALSE])

Accept ==
  /\ runtime.healthy /\ ~runtime.consumed /\ runtime.sampled.hand \notin runtime.lost
  /\ OnRuntime([runtime EXCEPT !.bundle = runtime.sampled, !.consumed = TRUE])

Lose ==
  /\ runtime.healthy /\ ~runtime.consumed
  /\ OnRuntime([runtime EXCEPT !.bundle = NoMoment, !.consumed = TRUE,
                               !.lost = @ \cup {runtime.sampled.hand}])

Sicken ==
  /\ runtime.healthy
  /\ OnRuntime([runtime EXCEPT !.healthy = FALSE])

\* An unhealthy runtime is told to invalidate; otherwise nothing changes.
InvalidateIfSick ==
  runtime' = IF runtime.healthy THEN runtime ELSE [runtime EXCEPT !.bundle = NoMoment]

Ready == runtime.healthy /\ runtime.consumed /\ runtime.bundle # NoMoment
TokenReady == Ready /\ runtime.bundle = token

-----------------------------------------------------------------------------
(* Keys.  One analysis at a time; the other keys wait for it to end.       *)

Press(key) ==
  /\ Idle /\ presses < MaxPresses[route]
  /\ presses' = presses + 1
  /\ pc' = "capture" /\ mode' = key
  /\ first' = NoCapture /\ validated' = NoCapture /\ final' = NoCapture
  /\ raw' = NoReading /\ token' = NoMoment /\ advice' = "error"
  /\ shown' = [by |-> "none"]
  /\ UNCHANGED <<world, history>>

PressNewHand ==
  /\ Idle /\ presses < MaxPresses[route] /\ history # <<>>
  /\ presses' = presses + 1
  /\ history' = <<>>
  /\ UNCHANGED <<world, pc, mode, captures, raw, token, advice, shown>>

-----------------------------------------------------------------------------
(* Capture, vision, and what may have changed meanwhile.                   *)

Captures == [at : {table}, lit : BOOLEAN]

\* The buttons must be lit for a strategy; a window without focus dims them.
ButtonsDetected(capture) == HeroToAct(capture.at) /\ capture.lit

Capture ==
  /\ pc = "capture"
  /\ \E capture \in Captures :
       /\ first' = capture
       /\ pc' = IF mode = "strategy" /\ ~ButtonsDetected(capture) THEN "idle" ELSE "vision"
  /\ UNCHANGED <<world, mode, validated, final, raw, history, token, advice, shown, presses>>

CardsAs(how) ==
  CASE how = "read" -> first.at.hand
    [] how = "misread" -> -first.at.hand
    [] OTHER -> NoCards

Vision ==
  /\ pc = "vision"
  /\ \E cards \in Cards, dealer \in Dealers, controls, ok \in BOOLEAN :
       raw' = [at |-> first.at, cards |-> CardsAs(cards),
               dealer |-> IF dealer = "read" THEN Button(first.at.hand) ELSE Unknown,
               board |-> Board(first.at),
               turn |-> controls /\ ButtonsDetected(first), ok |-> ok]
  /\ pc' = IF mode = "strategy" THEN "validate" ELSE "candidate"
  /\ UNCHANGED <<world, mode, captures, history, token, advice, shown, presses>>

\* Controls that are dimmed keep their outline, whatever amounts they offer.
Dimmed(capture) == HeroToAct(capture.at) /\ ~capture.lit

\* What table_state_change_reasons() reports for certain: other community
\* cards, other cards of Hero, and controls that were lit and are gone or are
\* lit again and redrawn, if only in an amount.
MustReport(before, after) ==
  \/ Board(before.at) # Board(after.at)
  \/ before.at.hand # after.at.hand
  \/ ButtonsDetected(before) /\ before.at # after.at /\ ~Dimmed(after)

\* The answers it may give: of another decision on the same street, the pot
\* and controls that are now dimmed may differ too little, or enough.
Changed(before, after) ==
  {changed \in BOOLEAN : IF before.at = after.at THEN ~changed
                         ELSE MustReport(before, after) => changed}

Validate ==
  /\ pc = "validate"
  /\ \E capture \in Captures :
       /\ validated' = capture
       /\ \E changed \in Changed(first, capture) :
            pc' = IF changed THEN "idle" ELSE "candidate"
  /\ UNCHANGED <<world, mode, first, final, raw, history, token, advice, shown, presses>>

-----------------------------------------------------------------------------
(* The manual history.                                                     *)

BoardContinues(previous, current) ==
  previous.board # <<>> /\ IsPrefix(previous.board, current.board)

FlopFollowsAnyDealer(previous, current) ==
  /\ previous.board = <<>> /\ Street(previous.at) = 0
  /\ Len(current.board) = 1

\* confirmed_preflop_to_flop_transition(): same dealer, same seats.
FlopFollows(previous, current) ==
  /\ previous.board = <<>> /\ Street(previous.at) = 0
  /\ Len(current.board) = 1
  /\ previous.dealer # Unknown /\ previous.dealer = current.dealer

Continues(previous, current) ==
  BoardContinues(previous, current) \/ FlopFollows(previous, current)

\* HandHistory.is_new_hand(), of the last snapshot and the candidate.
IsNewHand(last, current) ==
  LET moved == last.dealer # Unknown /\ current.dealer # Unknown /\ last.dealer # current.dealer
  IN  \/ /\ last.cards # NoCards /\ current.cards # NoCards /\ last.cards # current.cards
         /\ ~Continues(last, current)
      \/ moved /\ current.board = <<>> /\ last.board # <<>>
      \/ moved /\ current.board = <<>> /\ last.board = <<>>
      \/ moved /\ current.cards # NoCards /\ last.cards = NoCards

\* preserve_hero_cards_on_continuing_board(), for a strategy only.
Preserved(snapshot) ==
  IF /\ mode = "strategy" /\ history # <<>>
     /\ Continues(Last(history), snapshot) /\ Last(history).cards # NoCards
  THEN [snapshot EXCEPT !.cards = Last(history).cards]
  ELSE snapshot

\* validate_snapshot_candidate() and the tests that follow it.
IsCandidate(snapshot) ==
  snapshot.ok /\ (mode = "strategy" => snapshot.cards # NoCards /\ snapshot.turn)

\* The latest dealer that was read.
KnownDealer ==
  LET known == {i \in DOMAIN history : history[i].dealer # Unknown}
  IN  IF known = {} THEN Unknown
      ELSE history[CHOOSE i \in known : \A j \in known : j <= i].dealer

\* reconcile_snapshot_with_history(), as far as the dealer.
Reconciled(snapshot) ==
  [snapshot EXCEPT !.dealer = IF @ = Unknown THEN KnownDealer ELSE @]

\* Cards on the board do not change: only new ones are taken.
BoardKept(snapshot) ==
  LET old == Last(history).board
  IN  IF Len(snapshot.board) >= Len(old)
      THEN [snapshot EXCEPT !.board = old \o SubSeq(@, Len(old) + 1, Len(@))]
      ELSE snapshot

Extended(snapshot) ==
  IF history = <<>> \/ IsNewHand(Last(history), snapshot)
  THEN <<snapshot>>
  ELSE Append(history, BoardKept(Reconciled(snapshot)))

AddCandidate ==
  /\ pc = "candidate"
  /\ LET snapshot == Preserved(raw)
     IN  IF ~IsCandidate(snapshot)
         THEN Return /\ UNCHANGED history
         ELSE /\ history' = Extended(snapshot)
              /\ pc' = IF mode = "strategy" THEN "strategy" ELSE "idle"
  /\ UNCHANGED <<world, mode, captures, raw, token, advice, shown, presses>>

-----------------------------------------------------------------------------
(* The route to a solver.                                                  *)

StartLegacyRoute ==
  /\ pc = "strategy" /\ ~Continuous
  /\ pc' = "evaluate"
  /\ UNCHANGED <<world, mode, captures, raw, history, token, advice, shown, presses>>

\* The accepted frame must show Hero to act, the raw one the same dealer and
\* the same cards.
Pairs(snapshot, bundle) ==
  /\ HeroToAct(bundle)
  /\ snapshot.ok /\ snapshot.turn
  /\ snapshot.dealer = Button(bundle.hand) /\ snapshot.cards = bundle.hand

\* accepted_multiway_strategy_input(), from the raw snapshot.
TakeToken ==
  /\ pc = "strategy" /\ Continuous
  /\ IF Ready /\ Pairs(raw, runtime.bundle)
     THEN token' = runtime.bundle /\ pc' = "precheck"
     ELSE Return /\ UNCHANGED token
  /\ InvalidateIfSick
  /\ UNCHANGED <<table, route, mode, captures, raw, history, advice, shown, presses>>

\* The token is tested before the request and after it.
CheckToken ==
  /\ \/ pc = "precheck" /\ pc' = IF TokenReady THEN "evaluate" ELSE "idle"
     \/ pc = "postcheck" /\ pc' = IF TokenReady THEN "final" ELSE "idle"
  /\ InvalidateIfSick
  /\ UNCHANGED <<table, route, mode, captures, raw, history, token, advice, shown, presses>>

\* build_multiway_solver_state(): every public field of the raw snapshot
\* equals the replay of the accepted history.
Replays(snapshot) == snapshot.at = token /\ snapshot.board = Board(token)

\* evaluate_strategy_backend() up to the call of the router.  A history of the
\* token has no to_json(): neither Claude nor the fallback can use it.
CanSolve ==
  CASE route.router = "none" -> FALSE
    [] route.router = "multiway" -> TokenReady /\ Replays(raw)
    [] OTHER -> route.backend # "GTO_MULTIWAY"

Evaluate ==
  /\ pc = "evaluate"
  /\ pc' = IF route.backend = "CLAUDE" THEN "claude"
           ELSE IF CanSolve THEN "solve"
           ELSE IF route.backend = "HYBRID" THEN "claude" ELSE "unsolved"
  /\ IF route.backend # "CLAUDE" /\ route.router = "multiway"
     THEN InvalidateIfSick ELSE UNCHANGED runtime
  /\ UNCHANGED <<table, route, mode, captures, raw, history, token, advice, shown, presses>>

\* A strict backend refuses an approximate answer; an amount must be legal.
Usable(outcome) == outcome = "exact" \/ (outcome = "approximate" /\ route.backend # "GTO")

Judged == IF Continuous THEN "postcheck" ELSE "final"

Solve ==
  /\ pc = "solve"
  /\ \E outcome \in {"exact", "approximate", "illegal", "unsolved"} :
       IF Usable(outcome)
       THEN advice' = "solver" /\ pc' = Judged
       ELSE /\ pc' = IF route.backend = "HYBRID" THEN "claude" ELSE "unsolved"
            /\ UNCHANGED advice
  /\ UNCHANGED <<world, mode, captures, raw, history, token, shown, presses>>

\* The analysis is an error text, and is treated like any other.
Unsolved ==
  /\ pc = "unsolved"
  /\ advice' = "error" /\ pc' = Judged
  /\ UNCHANGED <<world, mode, captures, raw, history, token, shown, presses>>

AskClaude ==
  /\ pc = "claude"
  /\ IF Continuous
     THEN Return /\ UNCHANGED advice
     ELSE advice' \in {"claude", "error"} /\ pc' = Judged
  /\ UNCHANGED <<world, mode, captures, raw, history, token, shown, presses>>

-----------------------------------------------------------------------------
FinalCaptureTrusted ==
  /\ pc = "final"
  /\ \E capture \in Captures : final' = capture
  /\ pc' = "display"
  /\ UNCHANGED <<world, mode, first, validated, raw, history, token, advice, shown, presses>>

FinalCapture ==
  /\ pc = "final"
  /\ \E capture \in Captures :
       /\ final' = capture
       /\ \E changed \in Changed(validated, capture) :
            pc' = IF changed THEN "idle" ELSE "display"
  /\ UNCHANGED <<world, mode, first, validated, raw, history, token, advice, shown, presses>>

\* The token is tested once more; `newest' remembers what the continuous
\* history had last sampled.
Display ==
  /\ pc = "display"
  /\ shown' = IF advice = "error" \/ (Continuous /\ ~TokenReady) THEN [by |-> "none"]
              ELSE [by |-> advice,
                    snapshot |-> IF Continuous THEN raw ELSE Last(history),
                    newest |-> runtime.sampled]
  /\ Return
  /\ IF Continuous THEN InvalidateIfSick ELSE UNCHANGED runtime
  /\ UNCHANGED <<table, route, mode, captures, raw, history, token, advice, presses>>

-----------------------------------------------------------------------------
Init ==
  /\ table = [hand |-> 1, step |-> 1]
  /\ runtime = [healthy |-> TRUE, sampled |-> table, consumed |-> FALSE,
                bundle |-> NoMoment, lost |-> {}]
  /\ route \in Routes
  /\ pc = "idle" /\ mode = "debug"
  /\ first = NoCapture /\ validated = NoCapture /\ final = NoCapture
  /\ raw = NoReading /\ history = <<>> /\ token = NoMoment
  /\ advice = "error" /\ shown = [by |-> "none"] /\ presses = 0

Keys == Press("strategy") \/ Press("debug") \/ PressNewHand
Table == Act \/ DealHand
ContinuousHistory == Sample \/ Accept \/ Lose \/ Sicken
Analysis ==
  \/ Capture \/ Vision \/ Validate \/ AddCandidate
  \/ StartLegacyRoute \/ TakeToken \/ CheckToken \/ Evaluate
  \/ Solve \/ Unsolved \/ AskClaude \/ FinalCapture \/ Display

Next == Table \/ ContinuousHistory \/ Keys \/ Analysis

Spec == Init /\ [][Next]_vars

-----------------------------------------------------------------------------
Snapshots ==
  [at : Moments, cards : -MaxHand..MaxHand, dealer : -1..Seats - 1,
   board : Seq(Hands), turn : BOOLEAN, ok : BOOLEAN]

(* Every variable has its type.                                            *)
TypeOK ==
  /\ table \in Moments /\ route \in Routes /\ mode \in {"strategy", "debug"}
  /\ runtime.bundle \in Moments \cup {NoMoment} /\ runtime.lost \subseteq Hands
  /\ pc \in {"idle", "capture", "vision", "validate", "candidate", "strategy", "precheck",
             "evaluate", "solve", "unsolved", "claude", "postcheck", "final", "display"}
  /\ {first, validated, final} \subseteq
       [at : Moments, lit : BOOLEAN] \cup {NoCapture}
  /\ raw \in Snapshots \cup {NoReading} /\ token \in Moments \cup {NoMoment}
  /\ \A i \in DOMAIN history : history[i] \in Snapshots
  /\ advice \in {"solver", "claude", "error"}
  /\ presses \in 0..MaxPresses[route]

(* Whatever the table did during the vision request and the solve, advice  *)
(* on the screen is for the hand and the street that the last capture      *)
(* before it showed; if the second capture showed lit controls, for a      *)
(* moment when Hero is still to act; if the last one did too, for that     *)
(* very decision.  Once the second or the last capture shows dimmed        *)
(* controls, another decision on the street may pass for the one asked     *)
(* about - except where the route depends on the continuous history: there *)
(* the advice is for the newest frame sampled, however dim the controls.   *)
ShownAdviceIsCurrent ==
  shown.by # "none" =>
    LET asked == shown.snapshot.at
    IN  /\ asked.hand = final.at.hand /\ Street(asked) = Street(final.at)
        /\ validated.lit => HeroToAct(final.at)
        /\ validated.lit /\ final.lit => asked = final.at
        /\ Continuous => asked = shown.newest

(* When every snapshot of the history shows Hero's cards, they are all of  *)
(* one hand, with its cards and its board: a new hand is never taken for   *)
(* more of the last, though cards may be misread and the dealer missed.    *)
HistoryIsOfOneHand ==
  (\A i \in DOMAIN history : history[i].cards # NoCards) =>
    \A i, j \in DOMAIN history :
      /\ history[i].at.hand = history[j].at.hand
      /\ history[i].cards \in {history[j].at.hand, -history[j].at.hand}
      /\ history[i].board = Board(history[i].at)

(* preserve_hero_cards_on_continuing_board(): "Keep validated hole cards   *)
(* across a confirmed same-hand board advance."  The cards a strategy is   *)
(* asked for are those of the hand that was captured.                      *)
CardsAreOfTheirHand ==
  pc = "strategy" => Last(history).cards \in {first.at.hand, -first.at.hand}
=============================================================================
