---------------------------- MODULE Consultation ----------------------------
(***************************************************************************)
(* The consultations that are not a profile's turn: hepan, cezi, najia and *)
(* zwds.  Each has a handler in web_server.py, an orchestrator, and a tool *)
(* that makes the chart; the four differ in what they check where, in what *)
(* they put into the prompt and, for najia, in a second call of the model. *)
(*                                                                         *)
(* A text is named after where it comes from.  The charge itself is in     *)
(* BilledRequest, the model client in ModelCall, the log in Conversations. *)
(***************************************************************************)
EXTENDS Integers, Sequences, SequencesExt, FiniteSets

VARIABLES
  req,     \* what the client sent
  pc,
  receipt, \* ctx["state"]["receipt"]
  chart,   \* result of the tool
  prompts, \* user prompts of the model calls, in order
  replies, \* what came back
  logged,  \* events the conversation log got
  answer,  \* the body of the answer
  status   \* HTTP status of the answer

vars == <<req, pc, receipt, chart, prompts, replies, logged, answer, status>>

Methods == {"hepan", "cezi", "najia", "zwds"}

\* What can be wrong with a request, by where it is found out: the handler of
\* the method, the code all handlers share, or the tool, after the charge.
HepanHandlerRefuses == {"no_question", "no_person"}
CeziHandlerRefuses == {"no_question", "no_character"}
NajiaHandlerRefuses == {"no_question"}
ZwdsHandlerRefuses == {"no_question", "no_birth"}
ContextRefuses == {"session_id"}
OptionsRefused == {"model"}

\* validate_birth takes a null hour for a missing one, _optional_int does not.
PersonToolRefuses == {"null_hour"}
CeziToolRefuses == {"several_characters"}
NajiaToolRefuses == {"yao_out_of_range"}
ZwdsToolRefuses == {"null_hour"}

HandlerRefuses(method) ==
  CASE method = "hepan" -> HepanHandlerRefuses
    [] method = "cezi" -> CeziHandlerRefuses
    [] method = "najia" -> NajiaHandlerRefuses
    [] method = "zwds" -> ZwdsHandlerRefuses

ToolRefuses(method) ==
  CASE method = "hepan" -> PersonToolRefuses
    [] method = "cezi" -> CeziToolRefuses
    [] method = "najia" -> NajiaToolRefuses
    [] method = "zwds" -> ZwdsToolRefuses

\* "engine" is input for which the chart engine fails.
FlawsOf(method) ==
  HandlerRefuses(method) \cup ContextRefuses \cup OptionsRefused
    \cup ToolRefuses(method) \cup {"none", "engine"}

Flaws == UNION {FlawsOf(method) : method \in Methods}

Requests == [method: Methods, flaw: Flaws, admin: BOOLEAN, history: BOOLEAN,
             paraphrase: BOOLEAN, starGong: BOOLEAN, funds: BOOLEAN]

\* paraphrase is read by najia only, include_star_gong by zwds only.
Sensible(r) ==
  /\ r.flaw \in FlawsOf(r.method)
  /\ r.paraphrase => r.method = "najia"
  /\ r.starGong => r.method = "zwds"

Texts == {"none", "analysis", "plain", "raw_chart", "ready-made", "error_message",
          "refusal", "both"}

NoAnswer == [text |-> "none", error |-> FALSE, usage |-> 0]

Init ==
  /\ req \in {r \in Requests : Sensible(r)}
  /\ pc = "validate"
  /\ receipt = "none"
  /\ chart = {}
  /\ prompts = <<>>
  /\ replies = <<>>
  /\ logged = <<>>
  /\ answer = NoAnswer
  /\ status = 0

GoTo(where) == pc' = where
Log(event) == logged' = Append(logged, event)

\* settle and refund do nothing without a receipt.
Resolve(how) == receipt' = IF receipt = "pending" THEN how ELSE receipt

AnswerWith(code, a) ==
  /\ GoTo("done")
  /\ status' = code
  /\ answer' = a

Refusal == [NoAnswer EXCEPT !.text = "refusal"]

-----------------------------------------------------------------------------
(* The handler, up to the turn.                                            *)

RefusedHere(method) == HandlerRefuses(method) \cup ContextRefuses \cup OptionsRefused

\* The handler looks at the fields its method needs, then at session_id and
\* the model options, and all of that before the charge.
Refuse ==
  /\ pc = "validate"
  /\ req.flaw \in RefusedHere(req.method)
  /\ AnswerWith(400, Refusal)
  /\ UNCHANGED <<req, receipt, chart, prompts, replies, logged>>

Receipt == IF req.admin THEN "none" ELSE "pending"

\* ctx["charge"]: none for the administrator.
Charge ==
  /\ pc = "validate"
  /\ req.flaw \notin RefusedHere(req.method)
  /\ req.admin \/ req.funds
  /\ receipt' = Receipt
  /\ GoTo("ask")
  /\ UNCHANGED <<req, chart, prompts, replies, logged, answer, status>>

ChargeRefused ==
  /\ pc = "validate"
  /\ req.flaw \notin RefusedHere(req.method)
  /\ ~req.admin /\ ~req.funds
  /\ AnswerWith(402, Refusal)
  /\ UNCHANGED <<req, receipt, chart, prompts, replies, logged>>

LogQuestion ==
  /\ pc = "ask"
  /\ Log("user_message")
  /\ GoTo("tool")
  /\ UNCHANGED <<req, receipt, chart, prompts, replies, answer, status>>

-----------------------------------------------------------------------------
(* The turn.                                                               *)

\* What a tool makes.
HepanChart == {"person_a", "person_b", "score"}
CeziChart == {"character"}
NajiaChart == {"bengua", "biangua"}
ZwdsChart == {"benming", "liunian"}

ChartOf(method) ==
  CASE method = "hepan" -> HepanChart
    [] method = "cezi" -> CeziChart
    [] method = "najia" -> NajiaChart
    [] method = "zwds" -> ZwdsChart

MakeChart ==
  /\ pc = "tool"
  /\ req.flaw \notin ToolRefuses(req.method) \cup {"engine"}
  /\ chart' = ChartOf(req.method)
  /\ Log("tool_invocation")
  /\ GoTo("model")
  /\ UNCHANGED <<req, receipt, prompts, replies, answer, status>>

RefundRejected == Resolve("refunded")

\* cezi_tool, _validate_yao_values, _normalize_person or the chart engine
\* raise ValueError: 400.
ToolRejects ==
  /\ pc = "tool"
  /\ req.flaw \in ToolRefuses(req.method)
  /\ RefundRejected
  /\ AnswerWith(400, Refusal)
  /\ UNCHANGED <<req, chart, prompts, replies, logged>>

\* Any other exception, of the tool or of an event sink: 500.
TurnRaises ==
  /\ \/ pc = "tool" /\ req.flaw = "engine"
     \/ pc \in {"model", "paraphrase"}
  /\ Resolve("refunded")
  /\ AnswerWith(500, Refusal)
  /\ UNCHANGED <<req, chart, prompts, replies, logged>>

History == IF req.history THEN {"history"} ELSE {}

\* What build_<method>_prompt puts together.
HepanPrompt == {"person_a", "person_b", "question"} \cup History
CeziPrompt == {"character", "question"} \cup History
NajiaPrompt == {"bengua", "biangua", "question"} \cup History
ZwdsPrompt == {"benming", "liunian", "question"} \cup History
                \cup (IF req.starGong THEN {"star_gong"} ELSE {})

Prompt ==
  CASE req.method = "hepan" -> HepanPrompt
    [] req.method = "cezi" -> CeziPrompt
    [] req.method = "najia" -> NajiaPrompt
    [] req.method = "zwds" -> ZwdsPrompt

\* _build_paraphrase_prompt sees nothing but the analysis.
SecondPrompt == {"analysis"}

Failed(reply) == reply # "text"
Twice == req.method = "najia" /\ req.paraphrase

\* llm_report_tool, for <METHOD>_RESPONSE.
CallModel(reply) ==
  /\ pc = "model"
  /\ prompts' = Append(prompts, Prompt)
  /\ replies' = Append(replies, reply)
  /\ GoTo(IF Twice /\ ~Failed(reply) THEN "paraphrase" ELSE "compose")
  /\ UNCHANGED <<req, receipt, chart, logged, answer, status>>

\* llm_report_tool, for NAJIA_PARAPHRASE.
CallAgain(reply) ==
  /\ pc = "paraphrase"
  /\ prompts' = Append(prompts, SecondPrompt)
  /\ replies' = Append(replies, reply)
  /\ GoTo("compose")
  /\ UNCHANGED <<req, receipt, chart, logged, answer, status>>

\* faulty
ResponseFailedFirst == Failed(Head(replies))

\* response_failed is that of the last call.
ResponseFailed == Failed(Last(replies))

\* The text a method falls back on when the model said nothing.
Fallback == IF req.method \in {"hepan", "cezi"} THEN "ready-made" ELSE "raw_chart"

Composed ==
  CASE Len(replies) = 2 /\ replies[2] = "text" -> "both"
    [] replies[1] = "blank" -> Fallback
    [] OTHER -> "analysis"

ResponseText == IF ResponseFailed THEN "error_message" ELSE Composed

\* A reply without text is an error of the client and carries no usage.
Usage == Cardinality({i \in DOMAIN replies : ~Failed(replies[i])})

Logged == ResponseText

\* The response event, then the answer; usage is that of the sink.
Compose ==
  /\ pc = "compose"
  /\ Log("response:" \o Logged)
  /\ answer' = [text |-> ResponseText, error |-> ResponseFailed, usage |-> Usage]
  /\ GoTo("resolve")
  /\ UNCHANGED <<req, receipt, chart, prompts, replies, status>>

\* faulty
SettleAlways == Resolve("settled")

ResolveByResult == Resolve(IF answer.error THEN "refunded" ELSE "settled")

Conclude ==
  /\ pc = "resolve"
  /\ ResolveByResult
  /\ AnswerWith(200, answer)
  /\ UNCHANGED <<req, chart, prompts, replies, logged>>

Next ==
  \/ Refuse
  \/ Charge
  \/ ChargeRefused
  \/ LogQuestion
  \/ MakeChart
  \/ ToolRejects
  \/ TurnRaises
  \/ \E reply \in {"text", "blank", "error"} : CallModel(reply) \/ CallAgain(reply)
  \/ Compose
  \/ Conclude

Spec == Init /\ [][Next]_vars

-----------------------------------------------------------------------------
(* Properties.                                                             *)

ConsultationTypeOK ==
  /\ receipt \in {"none", "pending", "settled", "refunded"}
  /\ answer.text \in Texts
  /\ Len(prompts) = Len(replies)
  /\ Len(replies) <= IF Twice THEN 2 ELSE 1
  /\ req.admin => receipt = "none"

Done == pc = "done"

\* Whoever is charged is charged for a whole analysis: the model's text, and
\* both of them when a paraphrase was asked for and priced.  Every other end of
\* the request leaves the receipt refunded, or there never was one.
PaidForAnalysis ==
  Done /\ ~req.admin =>
    /\ receipt # "pending"
    /\ receipt = "settled" <=>
         status = 200 /\ answer.text = (IF Twice THEN "both" ELSE "analysis")

\* A failure of any call of the model is answered with the failure message:
\* not with the half that succeeded, nor with the text of an error, nor with a
\* fallback that looks like an analysis.
FailureShowsNothing ==
  Done /\ (\E i \in DOMAIN replies : Failed(replies[i])) /\ status = 200 =>
    answer.text = "error_message" /\ answer.error

\* A request with something wrong in it costs no call of the model and no
\* credits, wherever along its way the mistake is found: two of the three places
\* are behind the charge or behind each other.
FlawedCostsNothing ==
  Done /\ req.flaw # "none" =>
    /\ status # 200
    /\ prompts = <<>>
    /\ receipt \in {"none", "refunded"}

\* The tokens in the answer are those of every call that was made, but the one
\* that failed: there is at most one, and the answer says so.
UsageIsWhole ==
  status = 200 => answer.usage = Len(prompts) - (IF answer.error THEN 1 ELSE 0)

\* The model analyses what the tool made of this request, with the question
\* and the rounds before it; the paraphrase sees the analysis and nothing else.
PromptsAreWhole ==
  \A i \in DOMAIN prompts :
    IF i = 1
    THEN /\ prompts[1] \cap UNION {ChartOf(m) : m \in Methods} = chart \ {"score"}
         /\ "question" \in prompts[1]
         /\ req.history => "history" \in prompts[1]
    ELSE prompts[i] = {"analysis"}

\* The response the conversation log keeps, which the next request reads as
\* history, is the one the client got.
LogAgrees ==
  status = 200 => Last(logged) = "response:" \o answer.text
=============================================================================
