------------------------ MODULE MCRemoteExchange ------------------------
(* Clients that retry and reuse two identifiers.  Their manifest is of a   *)
(* heads-up tree, the server may be restarted on its multiway successor or *)
(* back.  The decisions: a turn reached heads-up after three players saw   *)
(* the flop, a flop two players saw, and a v2 decision without a           *)
(* transcript.  A replay cache of one entry, which evicts.                 *)
EXTENDS RemoteExchange

MCTurn == [schema |-> 3, seats |-> 4, street |-> "PREFLOP",
           events |-> <<"FOLD", "DEAL_FLOP", "FOLD", "DEAL_TURN">>]
MCFlop == [schema |-> 3, seats |-> 3, street |-> "PREFLOP",
           events |-> <<"FOLD", "DEAL_FLOP">>]
MCPlain == [schema |-> 2, seats |-> 2, street |-> "POSTFLOP", events |-> <<>>]
MCDecisions == {MCTurn, MCFlop, MCPlain}

MCTree == [external |-> TRUE, schemas |-> {2, 3}, preflop |-> "SOLVED_TREE",
           postflop |-> "MULTIWAY_TREE", maxPlayers |-> 2, stateful |-> FALSE,
           allStreets |-> TRUE, bunching |-> FALSE, exactGame |-> TRUE]
MCSuccessor == [MCTree EXCEPT !.maxPlayers = 6, !.stateful = TRUE, !.bunching = TRUE]
MCBackends == {MCTree, MCSuccessor}
=============================================================================
