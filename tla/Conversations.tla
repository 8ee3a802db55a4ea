--------------------------- MODULE Conversations ---------------------------
(***************************************************************************)
(* The log of a conversation (agent/storage/conversation_store.py): who    *)
(* appends to it, who reads it, who deletes it, and what a process that is *)
(* killed in the middle of an append leaves in it.                         *)
(*                                                                         *)
(* Requests of every question endpoint of web_server.py hold the lease of  *)
(* the profile from before they read the history until after their last    *)
(* append; scripts/prune_conversations.py takes the same lease; the page   *)
(* that shows a conversation takes none.  A question is named after the    *)
(* request that asks it and so is its answer, be it the apology for a      *)
(* model that failed.  What is charged for it is in BilledRequest.         *)
(***************************************************************************)
EXTENDS Naturals, Sequences, SequencesExt, FiniteSets

CONSTANTS
  Requests,
  Nobody,    \* holder of a free lease
  Legacy,    \* the author of what an older release logged
  HistoryNs, \* values of history_n
  MaxTears,  \* bound: processes killed in the middle of an append
  MaxPrunes  \* bound

NamesAssumption == Nobody \notin Requests \cup {Legacy} /\ Legacy \notin Requests
BoundsAssumption == HistoryNs \subseteq Nat /\ {MaxTears, MaxPrunes} \subseteq Nat

VARIABLES
  log,          \* the lines of the file
  unterminated, \* the last line has no newline
  old,          \* its mtime is past the retention period
  lease,
  pc,           \* of each request
  history,      \* history_rounds of each request
  asked,        \* its history_n
  complete,     \* requests whose question and answer were both appended
  tears,
  prunes

vars == <<log, unterminated, old, lease, pc, history, asked, complete, tears, prunes>>
file == <<log, unterminated, old>>

-----------------------------------------------------------------------------
(* The file and its readers.                                               *)

User(r) == [type |-> "user_message", of |-> r]
Response(r) == [type |-> "response", of |-> r]
AssistantFinal == [type |-> "assistant_final", of |-> Legacy]
Other == [type |-> "other", of |-> Nobody] \* plan, time_context, llm_*, tool_*
Garbage == [type |-> "garbage", of |-> Nobody] \* no JSON

\* A line appended to one that lacks its newline makes both unreadable.
Appended(e) ==
  IF unterminated THEN [log EXCEPT ![Len(log)] = Garbage] ELSE Append(log, e)

\* load_recent_rounds: an answer closes the latest question, if it is open.

\* faulty
ReadFirstQuestion(s, line) ==
  CASE line.type = "user_message" /\ s.pending = Nobody -> [s EXCEPT !.pending = line.of]
    [] line.type \in {"response", "assistant_final"} /\ s.pending # Nobody ->
         [pending |-> Nobody,
          rounds |-> Append(s.rounds, [user |-> s.pending, assistant |-> line.of])]
    [] OTHER -> s

ReadLine(s, line) ==
  CASE line.type = "user_message" -> [s EXCEPT !.pending = line.of]
    [] line.type \in {"response", "assistant_final"} /\ s.pending # Nobody ->
         [pending |-> Nobody,
          rounds |-> Append(s.rounds, [user |-> s.pending, assistant |-> line.of])]
    [] OTHER -> s

Rounds(lines) ==
  FoldLeft(ReadLine, [pending |-> Nobody, rounds |-> <<>>], lines).rounds

\* rounds[-n:], and nothing for n = 0
LastRounds(lines, n) ==
  LET rounds == Rounds(lines)
      first == IF Len(rounds) <= n THEN 1 ELSE 1 + Len(rounds) - n
  IN SubSeq(rounds, first, Len(rounds))

\* get_history: the messages of the page.
ShowLine(messages, line) ==
  CASE line.type = "user_message" -> Append(messages, [role |-> "user", of |-> line.of])
    [] \/ line.type = "response"
       \/ /\ line.type = "assistant_final"
          /\ messages = <<>> \/ Last(messages).role # "assistant" ->
         Append(messages, [role |-> "assistant", of |-> line.of])
    [] OTHER -> messages

Messages(lines) == FoldLeft(ShowLine, <<>>, lines)

LegacyLogs == {
  <<>>,
  <<User(Legacy), AssistantFinal>>,
  <<User(Legacy), Response(Legacy), AssistantFinal>>}

Init ==
  /\ log \in LegacyLogs
  /\ unterminated = FALSE
  /\ old = FALSE
  /\ lease = Nobody
  /\ pc = [r \in Requests |-> "idle"]
  /\ history = [r \in Requests |-> <<>>]
  /\ asked \in [Requests -> HistoryNs]
  /\ complete = {}
  /\ tears = 0
  /\ prunes = 0

At(r, where) == pc[r] = where
GoTo(r, where) == pc' = [pc EXCEPT ![r] = where]

\* append_event; the write makes the file young again.
Write(e) ==
  /\ log' = Appended(e)
  /\ unterminated' = FALSE
  /\ old' = FALSE

\* Teardown of the request, or the end of its streaming worker.
Finish(r) ==
  /\ GoTo(r, "done")
  /\ lease' = IF lease = r THEN Nobody ELSE lease

-----------------------------------------------------------------------------
(* A request.                                                              *)

\* faulty
LeaseFreeAlways == TRUE

LeaseFree == lease = Nobody

\* acquire_profile, then load_recent_rounds.
Prepare(r) ==
  /\ At(r, "idle")
  /\ LeaseFree
  /\ lease' = r
  /\ history' = [history EXCEPT ![r] = LastRounds(log, asked[r])]
  /\ GoTo(r, "prepared")
  /\ UNCHANGED <<file, asked, complete, tears, prunes>>

ProfileBusy(r) ==
  /\ At(r, "idle")
  /\ ~LeaseFree
  /\ GoTo(r, "done")
  /\ UNCHANGED <<file, lease, history, asked, complete, tears, prunes>>

\* An invalid option, or a charge that is refused.
Reject(r) ==
  /\ At(r, "prepared")
  /\ Finish(r)
  /\ UNCHANGED <<file, history, asked, complete, tears, prunes>>

Ask(r) ==
  /\ At(r, "prepared")
  /\ Write(User(r))
  /\ GoTo(r, "asked")
  /\ UNCHANGED <<lease, history, asked, complete, tears, prunes>>

\* The sink logs prompts, model calls and tool invocations.
Trace(r) ==
  /\ At(r, "asked")
  /\ Write(Other)
  /\ GoTo(r, "traced")
  /\ UNCHANGED <<lease, history, asked, complete, tears, prunes>>

Answer(r) ==
  /\ At(r, "traced")
  /\ Write(Response(r))
  /\ complete' = complete \cup {r}
  /\ GoTo(r, "answered")
  /\ UNCHANGED <<lease, history, asked, tears, prunes>>

\* An invalid chart (a ValueError) or any other exception of the turn.
TurnRaises(r) ==
  /\ pc[r] \in {"asked", "traced"}
  /\ Finish(r)
  /\ UNCHANGED <<file, history, asked, complete, tears, prunes>>

\* ask and ask_stream log the plan and the time context; the consultations
\* have nothing to add.
Conclude(r) ==
  /\ At(r, "answered")
  /\ Write(Other) \/ UNCHANGED file
  /\ Finish(r)
  /\ UNCHANGED <<history, asked, complete, tears, prunes>>

-----------------------------------------------------------------------------
(* The rest of the world.                                                  *)

\* What the request would append next.
NextLine(r) ==
  CASE At(r, "prepared") -> User(r)
    [] At(r, "traced") -> Response(r)
    [] OTHER -> Other

Running == {r \in Requests : pc[r] \notin {"idle", "done"}}

\* The process is killed: the system frees the lease.
Die ==
  /\ pc' = [r \in Requests |-> IF r \in Running THEN "done" ELSE pc[r]]
  /\ lease' = Nobody
  /\ UNCHANGED <<history, asked, complete, prunes>>

Crash ==
  /\ Running # {}
  /\ Die
  /\ UNCHANGED <<file, tears>>

\* ... in the middle of an append: a part of the line was written, or all of
\* it but the newline.
CrashInAppend(r) ==
  /\ r \in Running
  /\ tears < MaxTears
  /\ tears' = tears + 1
  /\ \E written \in {Garbage, NextLine(r)} : log' = Appended(written)
  /\ unterminated' = TRUE
  /\ old' = FALSE
  /\ Die

\* No request lasts for the retention period, which is at least a day.
GrowOld ==
  /\ lease = Nobody
  /\ log # <<>>
  /\ ~old
  /\ old' = TRUE
  /\ UNCHANGED <<log, unterminated, lease, pc, history, asked, complete, tears, prunes>>

\* prune, which holds the lease while it looks at the mtime and unlinks.
Prune ==
  /\ prunes < MaxPrunes
  /\ LeaseFree
  /\ old
  /\ log' = <<>>
  /\ unterminated' = FALSE
  /\ old' = FALSE
  /\ complete' = {}
  /\ prunes' = prunes + 1
  /\ UNCHANGED <<lease, pc, history, asked, tears>>

Next ==
  \/ \E r \in Requests :
       \/ Prepare(r)
       \/ ProfileBusy(r)
       \/ Reject(r)
       \/ Ask(r)
       \/ Trace(r)
       \/ Answer(r)
       \/ TurnRaises(r)
       \/ Conclude(r)
       \/ CrashInAppend(r)
  \/ Crash
  \/ GrowOld
  \/ Prune

Spec == Init /\ [][Next]_vars

-----------------------------------------------------------------------------
(* Properties.                                                             *)

\* The lease belongs to the one request that is between reading the history
\* and its last append.
ConversationTypeOK ==
  /\ \A i \in DOMAIN log : log[i].type \in
       {"user_message", "response", "assistant_final", "other", "garbage"}
  /\ unterminated => log # <<>>
  /\ Running = IF lease = Nobody THEN {} ELSE {lease}
  /\ \A r \in Requests : Len(history[r]) <= asked[r]

\* load_recent_rounds pairs a question with the answer it got, however many
\* requests ask at once and however their turns end; only a write torn by a
\* crash can pair it with the answer to another.
RoundsPairUp ==
  tears = 0 => \A i \in DOMAIN Rounds(log) : Rounds(log)[i].user = Rounds(log)[i].assistant

\* A torn write costs at most one other request its place in the history, as
\* long as it was answered in full.
TearsAreContained ==
  LET kept == {r \in complete : \E i \in DOMAIN Rounds(log) :
                                  Rounds(log)[i] = [user |-> r, assistant |-> r]}
  IN Cardinality(complete \ kept) <= tears

\* The history a request was given is that of the log when it asks: nothing
\* was appended or pruned since it was read.
HistoryIsCurrent ==
  \A r \in Requests : At(r, "prepared") => history[r] = LastRounds(log, asked[r])

\* The retention script never takes the log from under a request: its question
\* is there until the turn is over, unless an earlier crash garbled the line.
QuestionKept ==
  \A r \in Requests :
    pc[r] \in {"asked", "traced", "answered"} =>
      \E i \in DOMAIN log : log[i] = User(r) \/ (log[i] = Garbage /\ tears > 0)

\* The prompt and the page are read from the log by two pieces of code with
\* their own rules for old releases: the rounds of the one are the questions
\* that the other shows right above an answer.
ReadersAgree ==
  LET shown == Messages(log)
      closes(i) == i > 1 /\ shown[i].role = "assistant" /\ shown[i-1].role = "user"
      pairs == {<<shown[i-1].of, shown[i].of>> : i \in {j \in DOMAIN shown : closes(j)}}
  IN pairs = {<<Rounds(log)[i].user, Rounds(log)[i].assistant>> : i \in DOMAIN Rounds(log)}
=============================================================================
