--------------------------- MODULE StdoutCapture ---------------------------
(***************************************************************************)
(* najia_tool when several requests throw at the same time.  It catches    *)
(* what GuaGenerator prints with contextlib.redirect_stdout, which swaps   *)
(* sys.stdout: one variable for the eight threads of the server.  The      *)
(* generator also has a list of lines in the class Gua that getFushen      *)
(* writes for every thread.                                                *)
(***************************************************************************)
EXTENDS Naturals, FiniteSets

CONSTANTS Requests, Console

ConsoleIsNoRequest == Console \notin Requests

VARIABLES
  stdout,   \* sys.stdout: Console or the buffer of a request
  pc,
  saved,    \* _old_targets of the request's redirect_stdout
  printed,  \* stream -> requests whose line is in it
  shared,   \* Gua.yaoYinyangList: whose palace was written last
  chart,    \* whose lines the request's hexagram has
  overlapped   \* requests that ran together with another; history

vars == <<stdout, pc, saved, printed, shared, chart, overlapped>>

Streams == Requests \cup {Console}

Init ==
  /\ stdout = Console
  /\ pc = [r \in Requests |-> "idle"]
  /\ saved = [r \in Requests |-> Console]
  /\ printed = [s \in Streams |-> {}]
  /\ shared = Console
  /\ chart = [r \in Requests |-> Console]
  /\ overlapped = {}

Within == {r \in Requests : pc[r] \notin {"idle", "done"}}

At(r, here, there) == pc[r] = here /\ pc' = [pc EXCEPT ![r] = there]

\* redirect_stdout.__enter__ reads sys.stdout ...
Enter(r) ==
  /\ At(r, "idle", "swap")
  /\ saved' = [saved EXCEPT ![r] = stdout]
  /\ overlapped' = IF Within = {} THEN overlapped ELSE overlapped \cup Within \cup {r}
  /\ UNCHANGED <<stdout, printed, shared, chart>>

\* ... and sets it.
Swap(r) ==
  /\ At(r, "swap", "print")
  /\ stdout' = r
  /\ UNCHANGED <<saved, printed, shared, chart, overlapped>>

PrintedNow(r) == [printed EXCEPT ![stdout] = @ \cup {r}]

\* print(self.time_info) goes to sys.stdout as it is then.
PrintTimeInfo(r) ==
  /\ At(r, "print", "gua")
  /\ printed' = PrintedNow(r)
  /\ UNCHANGED <<stdout, saved, shared, chart, overlapped>>

\* faulty
LinesOfClass(r) == shared

\* The hexagram is made with a yaoYinyangList of its own.
LinesOf(r) == r

MakeBengua(r) ==
  /\ At(r, "gua", "fushen")
  /\ chart' = [chart EXCEPT ![r] = LinesOf(r)]
  /\ UNCHANGED <<stdout, saved, printed, shared, overlapped>>

\* The palace's hexagram has none, and writes that of the class.
GetFushen(r) ==
  /\ At(r, "fushen", "exit")
  /\ shared' = r
  /\ UNCHANGED <<stdout, saved, printed, chart, overlapped>>

\* lunar_python or a table look-up raises: the block is left all the same.
Raise(r) ==
  /\ pc[r] \in {"print", "gua"}
  /\ pc' = [pc EXCEPT ![r] = "exit"]
  /\ UNCHANGED <<stdout, saved, printed, shared, chart, overlapped>>

Restored(r) == saved[r]

\* redirect_stdout.__exit__
Exit(r) ==
  /\ At(r, "exit", "done")
  /\ stdout' = Restored(r)
  /\ UNCHANGED <<saved, printed, shared, chart, overlapped>>

Next == \E r \in Requests :
  \/ Enter(r)
  \/ Swap(r)
  \/ PrintTimeInfo(r)
  \/ MakeBengua(r)
  \/ GetFushen(r)
  \/ Raise(r)
  \/ Exit(r)

Spec == Init /\ [][Next]_vars

-----------------------------------------------------------------------------
(* Properties.                                                             *)

CaptureTypeOK ==
  /\ stdout \in Streams
  /\ saved \in [Requests -> Streams]
  /\ printed \in [Streams -> SUBSET Requests]
  /\ chart \in [Requests -> Streams]

\* What a request reads as its generator_output is what its own generator
\* printed.  The code says it captures it.
CaptureIsOwn ==
  \A r \in Requests : pc[r] = "done" => printed[r] \subseteq {r}

\* A request that ran by itself captured exactly its own line, even when earlier
\* requests left sys.stdout pointing to a buffer of theirs; and as long as no two
\* ran together, sys.stdout is the console again whenever none runs.
AloneIsExact ==
  /\ overlapped = {} /\ Within = {} => stdout = Console
  /\ \A r \in Requests \ overlapped :
       /\ pc[r] = "exit" /\ chart[r] = r => printed[r] = {r} /\ stdout = r
       /\ pc[r] = "done" => printed[r] \subseteq {r} /\ r \notin printed[Console]

\* A line that was printed is in exactly one stream, whoever swapped which.
EveryLineOnce ==
  \A r \in Requests :
    /\ Cardinality({s \in Streams : r \in printed[s]}) <= 1
    /\ pc[r] \in {"fushen", "exit", "done"} /\ chart[r] # Console =>
         \E s \in Streams : r \in printed[s]

\* No request's hexagram is made of lines another request wrote, although all
\* of them write the list of the class.
ChartIsOwn ==
  \A r \in Requests : chart[r] \in {Console, r}
=============================================================================
