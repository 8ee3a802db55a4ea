-------------------------- MODULE MCTurnExecution --------------------------
(* Instances of TurnExecution for TLC. *)
EXTENDS TurnExecution, TLC

CONSTANTS c1, c2, none, y1

Symmetry == Permutations(Charts)

\* An answer is made of this turn's chart and question throughout, and a turn
\* that ends has an output for every node of its plan or the failure that kept
\* it from having one (TurnExecution).
TurnsAreWhole == TurnTypeOK /\ AnswerIsCoherent /\ EveryNodeAccountedFor
=============================================================================
