------------------------------ MODULE MCShared ------------------------------
(* What concurrent requests share: the profile of a user, the log of a      *)
(* conversation, and sys.stdout, which the coin oracle swaps.  The lease    *)
(* that guards the first two is the same in the code, but none is read for  *)
(* another; a behaviour exercises the one that `part` names, while the      *)
(* others rest in an initial state.                                         *)
EXTENDS ProfileStore, TLC

CONSTANTS Nobody, Legacy, HistoryNs, MaxTears, MaxPrunes, Console

VARIABLES
  part,
  log, unterminated, old, logLease, pc, history, asked, complete, tears, prunes, \* Conversations
  stdout, thread, saved, printed, shared, captured, overlapped                   \* StdoutCapture

logVars == <<log, unterminated, old, logLease, pc, history, asked, complete, tears, prunes>>
consoleVars == <<stdout, thread, saved, printed, shared, captured, overlapped>>

C == INSTANCE Conversations WITH lease <- logLease
O == INSTANCE StdoutCapture WITH pc <- thread, chart <- captured

ASSUME SharedAssumption ==
  C!NamesAssumption /\ C!BoundsAssumption /\ O!ConsoleIsNoRequest

\* Where several initial states differ, the resting part is in one of them.
ProfileRests == disk = NoFile /\ kind = [r \in Requests |-> CHOOSE k \in Kinds : TRUE]
LogRests == log = <<>> /\ asked = [r \in Requests |-> 0]

SharedInit ==
  /\ part \in {"profile", "log", "console"}
  /\ Init /\ (part # "profile" => ProfileRests)
  /\ C!Init /\ (part # "log" => LogRests)
  /\ O!Init

SharedNext ==
  \/ part = "profile" /\ Next /\ UNCHANGED <<part, logVars, consoleVars>>
  \/ part = "log" /\ C!Next /\ UNCHANGED <<part, vars, consoleVars>>
  \/ part = "console" /\ O!Next /\ UNCHANGED <<part, vars, logVars>>

SharedSpec == SharedInit /\ [][SharedNext]_<<part, vars, logVars, consoleVars>>

Symmetry == Permutations(Requests) \cup Permutations(Charts)

-----------------------------------------------------------------------------
\* A reader without the lease, the next request, and whoever comes after a power
\* loss find a profile with the nodes of its own chart, whole unless a script has
\* rewritten it in place, which mends it in the end; a save that fails leaves no
\* temporary file; and from its load to its last save a request holds the lease,
\* also in the worker of a stream (ProfileStore).
ProfileStaysWhole ==
  /\ StoreTypeOK /\ AlwaysWhole /\ TornWhileRewritten
  /\ TempsAreCleanedUp /\ WorkUnderOneLease

\* A question is paired with its own answer in the history a request reads,
\* unless a write was torn; the history is that of the log when it asks, its
\* question is not lost, and page and prompt agree (Conversations).
RoundsPairUp ==
  /\ C!ConversationTypeOK /\ C!RoundsPairUp
  /\ C!HistoryIsCurrent /\ C!QuestionKept /\ C!ReadersAgree

\* A torn write costs at most one answered request its place in the history.
TearsAreContained == C!TearsAreContained

\* However requests interleave while sys.stdout is swapped under them, the
\* hexagram of a request is made from its own coins, a request that runs alone
\* captures its own line, and no line is printed twice (StdoutCapture).
ThrowsKeepApart == O!CaptureTypeOK /\ O!ChartIsOwn /\ O!AloneIsExact /\ O!EveryLineOnce
=============================================================================
