------------------------------- MODULE MCLive -------------------------------
(* The capture service and the analysis of one key press, which share no   *)
(* state: a behaviour is one of either.                                    *)
EXTENDS CaptureService
CONSTANTS Steps, Seats, Routes, Cards, Dealers, MaxHand, MaxPresses
VARIABLES table, runtime, route, pc, mode, first, validated, final, raw, history,
          token, advice, shown, presses, part
Flow == INSTANCE AdviceFlow

ASSUME FlowAssumption ==
  /\ Seats \in Nat \ {0} /\ MaxHand \in Nat \ {0}
  /\ Steps \in Seq([street : Nat, turn : BOOLEAN]) /\ Steps # <<>>

flowVars == <<table, runtime, route, pc, mode, first, validated, final, raw, history,
             token, advice, shown, presses>>
MCSteps == << [street |-> 0, turn |-> TRUE], [street |-> 1, turn |-> TRUE],
              [street |-> 1, turn |-> FALSE], [street |-> 1, turn |-> TRUE] >>
MCManual == {[backend |-> "HYBRID", router |-> "local"], [backend |-> "GTO", router |-> "local"]}
MCStreamed == {[backend |-> "HYBRID", router |-> "multiway"],
               [backend |-> "GTO_MULTIWAY", router |-> "local"]}
MCRoutes == MCManual \cup MCStreamed
MCPresses == [r \in MCRoutes |-> IF r \in MCManual THEN 2 ELSE 1]

LiveInit ==
  /\ part \in {"capture", "flow"}
  /\ Init /\ Flow!Init
  /\ part = "capture" => route = [backend |-> "GTO", router |-> "local"]
LiveNext ==
  \/ part = "capture" /\ Next /\ UNCHANGED <<part, flowVars>>
  \/ part = "flow" /\ Flow!Next /\ UNCHANGED <<part, vars>>
LiveSpec == LiveInit /\ [][LiveNext]_<<vars, flowVars, part>>

(* Advice on the screen is for the hand and street captured last before    *)
(* it, and for the very decision while the controls are lit.               *)
ShownAdviceIsCurrent == Flow!ShownAdviceIsCurrent
(* The manual history is of one hand.                                      *)
HistoryIsOfOneHand == Flow!HistoryIsOfOneHand
=============================================================================
