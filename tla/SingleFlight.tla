---------------------------- MODULE SingleFlight ----------------------------
(***************************************************************************)
(* ensure_node of agent/execution.py, called for one node of one profile   *)
(* by several threads that share the profile object: the entry of the node *)
(* in profile["node_cache"] and the events of _IN_FLIGHT.                  *)
(*                                                                         *)
(* _LOCK guards three separate sections: the look-up, the claim, and the   *)
(* store that also releases the claim.  A cache key stands for the inputs  *)
(* and the rendered prompt; an answer is the number of the claim that      *)
(* computed it.  The claim numbers are the threading.Event objects too.    *)
(***************************************************************************)
EXTENDS Naturals, FiniteSets

CONSTANTS
  Threads,
  Keys,
  MaxFailures \* bound: computations that fail

ASSUME ThreadsAssumption == IsFiniteSet(Threads)
ASSUME BoundAssumption == MaxFailures \in Nat

VARIABLES
  entry,    \* cache[node]
  inFlight, \* _IN_FLIGHT, by cache key
  claims,   \* number of claims made
  fate,     \* of each claim: unset event, or how it ended
  pc,
  key,      \* of the call of each thread
  bypass,   \* bypass_cache of its call
  event,    \* the claim it owns or waits for
  answer    \* what it returned

vars == <<entry, inFlight, claims, fate, pc, key, bypass, event, answer>>

Claims == 1..Cardinality(Threads) \* a call claims once
NoEvent == 0
NoEntry == [key |-> "none", of |-> "none", n |-> 0]
Entry(k, n) == [key |-> k, of |-> k, n |-> n]
\* Old releases stored failures; 0 is no claim of this process.
LegacyFailure(k) == Entry(k, 0)
IsFailure(e) == e.n = 0

Error == [of |-> "error", n |-> 0]
NoAnswer == [of |-> "none", n |-> 0]

At(t, where) == pc[t] = where

Init ==
  /\ entry \in {NoEntry} \cup {LegacyFailure(k) : k \in Keys}
  /\ inFlight = [k \in Keys |-> NoEvent]
  /\ claims = 0
  /\ fate = [c \in Claims |-> "unset"]
  /\ pc = [t \in Threads |-> "start"]
  /\ key \in [Threads -> Keys]
  /\ bypass = [t \in Threads |-> FALSE]
  /\ event = [t \in Threads |-> NoEvent]
  /\ answer = [t \in Threads |-> NoAnswer]

GoTo(t, where) == pc' = [pc EXCEPT ![t] = where]

Return(t, a) ==
  /\ answer' = [answer EXCEPT ![t] = a]
  /\ GoTo(t, "done")

AnswerOf(e) == [of |-> e.of, n |-> e.n]

\* faulty
MatchesAny(e, k) == e # NoEntry

Matches(e, k) == e.key = k

-----------------------------------------------------------------------------
\* The prompt is built and the key computed before any lock is taken.
Enter(t, b) ==
  /\ At(t, "start")
  /\ bypass' = [bypass EXCEPT ![t] = b]
  /\ GoTo(t, IF b THEN "claim" ELSE "lookup")
  /\ UNCHANGED <<entry, inFlight, claims, fate, key, event, answer>>

PromptFails(t) ==
  /\ At(t, "start")
  /\ Return(t, Error)
  /\ UNCHANGED <<entry, inFlight, claims, fate, key, bypass, event>>

\* First section: an answer, or at least the removal of an old failure.
LookUp(t) ==
  LET mine == Matches(entry, key[t]) IN
  /\ At(t, "lookup")
  /\ \/ mine /\ ~IsFailure(entry) /\ Return(t, AnswerOf(entry)) /\ UNCHANGED entry
     \/ mine /\ IsFailure(entry) /\ GoTo(t, "claim") /\ entry' = NoEntry /\ UNCHANGED answer
     \/ ~mine /\ GoTo(t, "claim") /\ UNCHANGED <<entry, answer>>
  /\ UNCHANGED <<inFlight, claims, fate, key, bypass, event>>

\* faulty
TakenNever(k) == FALSE

Taken(k) == inFlight[k] # NoEvent

\* Second section.
Claim(t) ==
  LET k == key[t] IN
  /\ At(t, "claim")
  /\ IF Taken(k)
     THEN /\ event' = [event EXCEPT ![t] = inFlight[k]]
          /\ GoTo(t, "wait")
          /\ UNCHANGED <<inFlight, claims>>
     ELSE /\ claims' = claims + 1
          /\ inFlight' = [inFlight EXCEPT ![k] = claims']
          /\ event' = [event EXCEPT ![t] = claims']
          /\ GoTo(t, "work")
  /\ UNCHANGED <<entry, fate, key, bypass, answer>>

Freed(k, how) == [inFlight EXCEPT ![k] = NoEvent]

\* faulty
SetUnlessFailed(c, how) == IF how = "failed" THEN fate ELSE [fate EXCEPT ![c] = how]

Set(c, how) == [fate EXCEPT ![c] = how]

Release(t, how) ==
  /\ At(t, "work")
  /\ inFlight' = Freed(key[t], how)
  /\ fate' = Set(event[t], how)
  /\ UNCHANGED <<claims, key, bypass, event>>

\* Third section: the entry, whatever key it had, is replaced.
Complete(t) ==
  /\ Release(t, "ok")
  /\ entry' = Entry(key[t], event[t])
  /\ Return(t, AnswerOf(entry'))

\* A failure is not cached, and neither is an exception of the event sink.
Fail(t) ==
  /\ Cardinality({c \in Claims : fate[c] = "failed"}) < MaxFailures
  /\ Release(t, "failed")
  /\ Return(t, Error)
  /\ UNCHANGED entry

IsSet(c) == fate[c] # "unset"

\* A waiter reads the cache again; another key may have taken the entry.
Join(t) ==
  /\ At(t, "wait")
  /\ IsSet(event[t])
  /\ Return(t, IF Matches(entry, key[t]) THEN AnswerOf(entry) ELSE Error)
  /\ UNCHANGED <<entry, inFlight, claims, fate, key, bypass, event>>

Next ==
  \E t \in Threads :
    \/ \E b \in BOOLEAN : Enter(t, b)
    \/ PromptFails(t)
    \/ LookUp(t)
    \/ Claim(t)
    \/ Complete(t)
    \/ Fail(t)
    \/ Join(t)

Spec == Init /\ [][Next]_vars

\* Threads are scheduled, and a computation ends (the model call has a
\* timeout and a bounded number of attempts).
Progress(t) == LookUp(t) \/ Claim(t) \/ Complete(t) \/ Join(t)
FairSpec == Spec /\ \A t \in Threads : WF_vars(Progress(t))

-----------------------------------------------------------------------------
(* Properties.                                                             *)

\* A claim is in the map exactly as long as its owner computes, a thread
\* that has a claim or waits for one knows which, and it is one of its key.
FlightTypeOK ==
  /\ claims \in 0..Cardinality(Threads)
  /\ pc \in [Threads -> {"start", "lookup", "claim", "work", "wait", "done"}]
  /\ \A k \in Keys :
       Taken(k) => \E t \in Threads : At(t, "work") /\ key[t] = k /\ event[t] = inFlight[k]
  /\ \A t \in Threads : At(t, "work") => inFlight[key[t]] = event[t]
  /\ \A c \in Claims : fate[c] # "unset" => c <= claims

\* However the look-up, the claim and the store of the threads interleave, no
\* two of them compute the node for the same key at the same time.
OneComputationPerKey ==
  \A t, u \in Threads : At(t, "work") /\ At(u, "work") /\ key[t] = key[u] => t = u

\* Nobody is handed what was computed for other inputs, though all keys of
\* the node share the one entry of the cache.
AnswersOwnInputs ==
  \A t \in Threads : At(t, "done") /\ answer[t].n # 0 => answer[t].of = key[t]

\* A thread that waited and got an error waited for a computation that
\* failed, or another key took the entry before it could read it.  ("inflight
\* completed without cached output" does not mean the node failed.)
WaiterFailsForAReason ==
  \A t \in Threads :
    At(t, "done") /\ answer[t] = Error /\ event[t] # NoEvent =>
      \/ fate[event[t]] = "failed"
      \/ \E u \in Threads : key[u] # key[t] /\ At(u, "done") /\ event[u] # NoEvent
                             /\ fate[event[u]] = "ok"

\* Every call returns: no waiter is left behind by a computation that failed.
EveryCallReturns == \A t \in Threads : ~At(t, "start") ~> At(t, "done")
=============================================================================
