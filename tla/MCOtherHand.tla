---------------------------- MODULE MCOtherHand ----------------------------
EXTENDS AdviceFlow
MCSteps == << [street |-> 0, turn |-> TRUE], [street |-> 1, turn |-> TRUE] >>
MCRoutes == {[backend |-> "CLAUDE", router |-> "none"]}
MCPresses == [r \in MCRoutes |-> 2]
=============================================================================
