----------------------------- MODULE ModelCall -----------------------------
(***************************************************************************)
(* llm_report_tool and _do_llm_api_call of agent/tools/llm_tool.py: one    *)
(* call of the model, with its attempts after transport errors, its event  *)
(* stream, and its repetition when a validator rejects the answer.         *)
(*                                                                         *)
(* A piece of text is the pair of the request that brought it and its      *)
(* position there.  Every body that arrives complete carries a usage       *)
(* block.  The stream of a provider ends (urlopen bounds each read, not    *)
(* the sum of them): MaxPieces.                                            *)
(***************************************************************************)
EXTENDS Integers, Sequences, FiniteSets

CONSTANTS
  MaxRetries,        \* LLM_MAX_RETRIES, any integer
  ValidationRetries, \* 2
  MaxPieces          \* bound: pieces of text in a stream

RetriesAssumption == MaxRetries \in Int /\ ValidationRetries \in Nat
BoundAssumption == MaxPieces \in Nat \ {0}

VARIABLES
  phase,
  stream,    \* the caller asked for a stream
  validated, \* NODE_VALIDATORS has an entry for the node
  feedback,  \* validation_attempt
  attempt,   \* of _do_llm_api_call
  requests,  \* sent so far
  content,   \* content_parts of the current attempt
  finished,  \* `completed` of the current attempt
  deltas,    \* what on_delta was given
  replies,   \* requests whose reply was accepted by _do_llm_api_call
  usages,    \* llm_usage events, by request
  result     \* what llm_report_tool returns

vars == <<phase, stream, validated, feedback, attempt, requests, content, finished,
          deltas, replies, usages, result>>
options == <<stream, validated>>

MaxAttempts == IF MaxRetries < 1 THEN 1 ELSE MaxRetries

Streaming == stream /\ feedback = 0

Piece(n) == [of |-> requests, n |-> n]
WholeBody == <<Piece(1)>>

NoResult == [kind |-> "none", text |-> <<>>]
Ok(text) == [kind |-> "ok", text |-> text]
Failure(kind) == [kind |-> kind, text |-> <<>>]

Init ==
  /\ phase = "start"
  /\ stream \in BOOLEAN
  /\ validated \in BOOLEAN
  /\ feedback = 0
  /\ attempt = 0
  /\ requests = 0
  /\ content = <<>>
  /\ finished = FALSE
  /\ deltas = <<>>
  /\ replies = {}
  /\ usages = {}
  /\ result = NoResult

Return(r) ==
  /\ phase' = "done"
  /\ result' = r

-----------------------------------------------------------------------------
(* Modes that send nothing.                                                *)

\* LLM_FORCE_ERROR, or no endpoint and credentials.
Refuse ==
  /\ phase = "start"
  /\ Return(Failure("error"))
  /\ UNCHANGED <<options, feedback, attempt, requests, content, finished, deltas, replies, usages>>

\* LLM_MODE=stub: one text, streamed if a stream was asked for.
Stub ==
  /\ phase = "start"
  /\ deltas' = IF stream THEN WholeBody ELSE <<>>
  /\ Return(Ok(WholeBody))
  /\ UNCHANGED <<options, feedback, attempt, requests, content, finished, replies, usages>>

Route ==
  /\ phase = "start"
  /\ phase' = "post"
  /\ attempt' = 1
  /\ UNCHANGED <<options, feedback, requests, content, finished, deltas, replies, usages, result>>

-----------------------------------------------------------------------------
(* _do_llm_api_call.                                                       *)

\* faulty
KeptParts == content

FreshParts == <<>>

Post ==
  /\ phase = "post"
  /\ attempt <= MaxAttempts
  /\ requests' = requests + 1
  /\ content' = FreshParts
  /\ finished' = FALSE
  /\ phase' = IF Streaming THEN "stream" ELSE "body"
  /\ UNCHANGED <<options, feedback, attempt, deltas, replies, usages, result>>

\* The event sink that is told of the request raises; so does emitting the
\* error, or it is no OSError: the call raises and its caller reports it.
SinkRaises ==
  /\ \/ phase = "post" /\ attempt <= MaxAttempts
     \/ phase = "stream"
  /\ Return(Failure("raised"))
  /\ UNCHANGED <<options, feedback, attempt, requests, content, finished, deltas, replies, usages>>

\* HTTPError, URLError, timeout, broken connection: before the reply or in it.
TransportError ==
  /\ phase \in {"stream", "body"}
  /\ IF attempt < MaxAttempts
     THEN attempt' = attempt + 1 /\ phase' = "post" /\ UNCHANGED result
     ELSE Return(Failure("error")) /\ UNCHANGED attempt
  /\ UNCHANGED <<options, feedback, requests, content, finished, deltas, replies, usages>>

\* A malformed frame, a stream that ends before it is complete, an answer
\* without text: no second attempt.
ProtocolError ==
  /\ \/ phase = "body"
     \/ phase = "stream"
     \/ phase = "end" /\ content = <<>>
  /\ Return(Failure("error"))
  /\ UNCHANGED <<options, feedback, attempt, requests, content, finished, deltas, replies, usages>>

Delivered(piece, last) == Append(deltas, piece)

\* A frame with text; it may carry the finish_reason too.
Delta(last) ==
  /\ phase = "stream"
  /\ Len(content) < MaxPieces
  /\ content' = Append(content, Piece(Len(content) + 1))
  /\ deltas' = Delivered(Piece(Len(content) + 1), last)
  /\ finished' = (finished \/ last)
  /\ UNCHANGED <<phase, options, feedback, attempt, requests, replies, usages, result>>

\* A frame with the finish_reason only.
Finish ==
  /\ phase = "stream"
  /\ ~finished
  /\ finished' = TRUE
  /\ UNCHANGED <<phase, options, feedback, attempt, requests, content, deltas, replies, usages, result>>

\* [DONE] completes the reply by itself; a connection that closes does not.
EndOfStream(done) ==
  /\ phase = "stream"
  /\ done \/ finished
  /\ phase' = "end"
  /\ UNCHANGED <<options, feedback, attempt, requests, content, finished, deltas, replies, usages, result>>

Body ==
  /\ phase = "body"
  /\ content' = WholeBody
  /\ phase' = "end"
  /\ UNCHANGED <<options, feedback, attempt, requests, finished, deltas, replies, usages, result>>

Counted == usages \cup {requests}

Reply ==
  /\ phase = "end"
  /\ content # <<>>
  /\ replies' = replies \cup {requests}
  /\ usages' = Counted
  /\ phase' = "reply"
  /\ UNCHANGED <<options, feedback, attempt, requests, content, finished, deltas, result>>

-----------------------------------------------------------------------------
(* The loop around it.                                                     *)

Accept ==
  /\ phase = "reply"
  /\ Return(Ok(content))
  /\ UNCHANGED <<options, feedback, attempt, requests, content, finished, deltas, replies, usages>>

MayRepeat == feedback < ValidationRetries

\* The answer is sent back with what is wrong with it.
RejectAndRepeat ==
  /\ phase = "reply"
  /\ validated
  /\ MayRepeat
  /\ feedback' = feedback + 1
  /\ attempt' = 1
  /\ phase' = "post"
  /\ UNCHANGED <<options, requests, content, finished, deltas, replies, usages, result>>

RejectForGood ==
  /\ phase = "reply"
  /\ validated
  /\ ~MayRepeat
  /\ Return(Failure("invalid"))
  /\ UNCHANGED <<options, feedback, attempt, requests, content, finished, deltas, replies, usages>>

Next ==
  \/ Refuse
  \/ Stub
  \/ Route
  \/ Post
  \/ SinkRaises
  \/ TransportError
  \/ ProtocolError
  \/ \E last \in BOOLEAN : Delta(last)
  \/ Finish
  \/ \E done \in BOOLEAN : EndOfStream(done)
  \/ Body
  \/ Reply
  \/ Accept
  \/ RejectAndRepeat
  \/ RejectForGood

Spec == Init /\ [][Next]_vars

\* The thread of the call goes on; a reply ends, one way or another.
FairSpec == Spec /\ WF_vars(Next)

-----------------------------------------------------------------------------
(* Properties.                                                             *)

\* Retries of the two loops multiply, and no further: for any LLM_MAX_RETRIES
\* the call sends at most this many requests.
CallTypeOK ==
  /\ phase \in {"start", "post", "stream", "body", "end", "reply", "done"}
  /\ requests <= (IF MaxRetries > 1 THEN MaxRetries ELSE 1) * (1 + ValidationRetries)
  /\ usages \subseteq 1..requests
  /\ result.kind \in {"none", "ok", "error", "invalid", "raised"}

\* An answer is the text of one reply, all of it: pieces of an attempt that
\* broke off never end up in it, and a reply that broke off is no answer.
AnswerIsOneReply ==
  result.kind = "ok" /\ requests > 0 =>
    /\ \E n \in 1..MaxPieces : result.text = [i \in 1..n |-> Piece(i)]
    /\ requests \in replies

\* Tokens are reported for every reply the provider will bill as an answer,
\* the ones the validator rejected included, and for each once.
EveryReplyCounted == usages = replies

\* What was streamed ends with the whole of the answer, unless the answer had
\* to be asked for again without a stream.
StreamEndsWithAnswer ==
  result.kind = "ok" /\ stream /\ feedback = 0 =>
    LET n == Len(result.text) IN
      /\ Len(deltas) >= n
      /\ SubSeq(deltas, Len(deltas) - n + 1, Len(deltas)) = result.text

\* The call returns, whatever the provider does.
CallReturns == (phase = "start") ~> (phase = "done")

\* "Do not retry after having delivered partial deltas."  A transport error in
\* the middle of the stream starts the stream again.
NoRetryAfterDeltas ==
  [][attempt' > attempt /\ attempt > 0 =>
       \A i \in DOMAIN deltas : deltas[i].of # requests]_vars
=============================================================================
