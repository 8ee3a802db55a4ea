----------------------------- MODULE MCWorkEnds -----------------------------
(* That the work on a profile ends, in three parts: a node that threads     *)
(* share, a turn, the profile's lease.  Each is proper to one module, so a  *)
(* behaviour exercises the part that `part` names; the others rest in an    *)
(* initial state.                                                           *)
EXTENDS SingleFlight, TLC

CONSTANTS
  t1, t2, t3, k1, k2,
  Requests, Kinds, MaxStops, Free, NoChart, NoFile, Torn,  \* ProfileStore
  Charts, TimeContexts, Aspects, MaxWorkers, MaxTurns      \* TurnExecution

VARIABLES
  part,
  disk, durable, lease, kind, at, copy, temp, turned, handed, leaving, stops,
  turnDisk, profile, turn, remaining, done, failed, outputs, jobs, calls, faults

leaseVars == <<disk, durable, lease, kind, at, copy, temp, turned, handed, leaving, stops>>
turnVars == <<turnDisk, profile, turn, remaining, done, failed, outputs, jobs, calls, faults>>

L == INSTANCE ProfileStore
T == INSTANCE TurnExecution WITH disk <- turnDisk

\* Where several initial states differ, the resting part is in one of them.
NodeRests == entry = NoEntry /\ key = [t \in Threads |-> k1]
LeaseRests == disk = NoFile /\ kind = [r \in Requests |-> CHOOSE k \in Kinds : TRUE]
TurnRests == turnDisk.cache = T!EmptyCache

EndsInit ==
  /\ part \in {"node", "lease", "turn"}
  /\ Init /\ (part # "node" => NodeRests)
  /\ L!Init /\ (part # "lease" => LeaseRests)
  /\ T!Init /\ (part # "turn" => TurnRests)

EndsNext ==
  \/ part = "node" /\ Next /\ UNCHANGED <<part, leaseVars, turnVars>>
  \/ part = "lease" /\ L!Next /\ UNCHANGED <<part, vars, turnVars>>
  \/ part = "turn" /\ T!Next /\ UNCHANGED <<part, vars, leaseVars>>

\* The fairness of each part, which is asked for only while it runs.
EndsFairness ==
  /\ \A t \in Threads : WF_vars(part = "node" /\ Progress(t))
  /\ \A r \in Requests : WF_leaseVars(part = "lease" /\ L!Step(r))
  /\ WF_turnVars(part = "turn" /\ T!TurnStep)
  /\ \A n \in T!LlmNodes : WF_turnVars(part = "turn" /\ T!JobStep(n))

EndsSpec == EndsInit /\ [][EndsNext]_<<part, vars, leaseVars, turnVars>> /\ EndsFairness

-----------------------------------------------------------------------------
\* Nobody is handed what was computed for other inputs, and a waiter fails only
\* because a computation failed or the shared entry was taken before it read it
\* (SingleFlight).
AnswersAreOwnOrExcused == FlightTypeOK /\ AnswersOwnInputs /\ WaiterFailsForAReason

\* Every turn ends: its loop never waits for a node nobody will run; and whoever
\* holds a profile's lease lets go of it (TurnExecution, ProfileStore).
WorkEnds == T!TurnEnds /\ L!LeaseComesBack
=============================================================================
