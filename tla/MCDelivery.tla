----------------------------- MODULE MCDelivery -----------------------------
(* What a turn says to the client and to the model: the buffer of a stream  *)
(* of events, one call of the model, a consultation.  They share no state;  *)
(* a behaviour exercises the one that `part` names, while the others rest   *)
(* in an initial state.                                                     *)
EXTENDS EventBuffer, TLC

CONSTANTS MaxRetries, ValidationRetries, MaxPieces   \* ModelCall

VARIABLES
  part,
  phase, stream, validated, feedback, attempt, requests, content, completed,  \* ModelCall
  deltas, replies, usages, result,
  req, pc, receipt, chart, prompts, said, logged, answer, status              \* Consultation

callVars == <<phase, stream, validated, feedback, attempt, requests, content, completed,
              deltas, replies, usages, result>>
consultationVars == <<req, pc, receipt, chart, prompts, said, logged, answer, status>>
deliveryVars == <<part, vars, callVars, consultationVars>>

M == INSTANCE ModelCall WITH finished <- completed
N == INSTANCE Consultation WITH replies <- said

ASSUME CallAssumption == M!RetriesAssumption /\ M!BoundAssumption

\* A delta, and an event twice as long.
MCSize == [e \in {"delta", "long"} |-> IF e = "delta" THEN 1 ELSE 2]

\* Where several initial states differ, the resting part is in one of them.
CallRests == ~stream /\ ~validated
SomeRequest == CHOOSE r \in N!Requests : N!Sensible(r)
ConsultationRests == req = SomeRequest

DeliveryInit ==
  /\ part \in {"stream", "call", "consultation"}
  /\ Init
  /\ M!Init /\ (part # "call" => CallRests)
  /\ N!Init /\ (part # "consultation" => ConsultationRests)

DeliveryNext ==
  \/ part = "stream" /\ Next /\ UNCHANGED <<part, callVars, consultationVars>>
  \/ part = "call" /\ M!Next /\ UNCHANGED <<part, vars, consultationVars>>
  \/ part = "consultation" /\ N!Next /\ UNCHANGED <<part, vars, callVars>>

\* The fairness of each part, which is asked for only while it runs.
DeliveryFairness ==
  /\ WF_vars(part = "stream" /\ WorkerEnds)
  /\ WF_vars(part = "stream" /\ Read)
  /\ WF_callVars(part = "call" /\ M!Next)

DeliverySpec == DeliveryInit /\ [][DeliveryNext]_deliveryVars /\ DeliveryFairness

-----------------------------------------------------------------------------
\* A client that stays sees the end of its stream, also when the worker's last
\* put finds the buffer full (EventBuffer); and a call of the model returns,
\* however its attempts and its replies fail (ModelCall).
DeliveryEnds ==
  /\ part = "stream" => ClientSeesEnd
  /\ part = "call" => M!CallReturns

\* An answer of the model is one reply and all of it, whatever broke off before;
\* its tokens are counted, those of rejected replies too; the stream ended with
\* it; and the requests stay within the product of the two loops (ModelCall).
AnswerIsOneReply ==
  /\ M!CallTypeOK /\ M!AnswerIsOneReply
  /\ M!EveryReplyCounted /\ M!StreamEndsWithAnswer

\* Whoever is charged for a consultation is charged for a whole analysis, and a
\* request with a mistake in it, found before the charge or behind it, costs
\* neither credits nor a call of the model (Consultation).
PaidForAnalysis == N!ConsultationTypeOK /\ N!PaidForAnalysis /\ N!FlawedCostsNothing

\* What is answered, logged and metered agree: a failed call shows nothing of
\* another's text, the log keeps the answer the client got, the tokens are
\* those of all calls, and the prompts are of this request (Consultation).
ConsultationIsCoherent ==
  N!FailureShowsNothing /\ N!LogAgrees /\ N!UsageIsWhole /\ N!PromptsAreWhole
=============================================================================
