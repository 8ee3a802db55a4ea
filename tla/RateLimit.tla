----------------------------- MODULE RateLimit -----------------------------
(***************************************************************************)
(* BillingService.check_rate_limit: a sliding window over the rows of      *)
(* rate_events, per scope (an API key, an address, an e-mail).             *)
(*                                                                         *)
(* The clock is read before the transaction waits for the writer lock, so  *)
(* that rows are inserted out of the order of their time stamps.           *)
(***************************************************************************)
EXTENDS Integers, Functions

CONSTANTS
  Scopes,    \* what is limited
  Clients,   \* threads and processes that check
  Limit,     \* admissions per window
  Window,    \* 60 seconds
  Keep,      \* 600 seconds: older rows are deleted
  MaxWait,   \* longest wait for the lock: sqlite's timeout, 30 seconds
  MaxTime    \* bound: the last moment that is modelled

LimitAssumption == Limit \in Nat \ {0}
TimesAssumption == {Window, Keep, MaxWait, MaxTime} \subseteq Nat
KeepAssumption == Window + MaxWait <= Keep

VARIABLES
  now,       \* wall clock
  events,    \* rate_events: per scope and time stamp the number of rows
  waiting,   \* checks that have read the clock and wait for the lock
  admitted,  \* history: like events, but never deleted
  refused    \* history: per scope the time stamps of refused checks

vars == <<now, events, waiting, admitted, refused>>

Times == 0..MaxTime
Check == [client: Clients, scope: Scopes, at: Times]

Rows(table, from, to) ==
  SumFunctionOnSet(table, {t \in Times : from <= t /\ t <= to})

Init ==
  /\ now = 0
  /\ events = [s \in Scopes |-> [t \in Times |-> 0]]
  /\ waiting = {}
  /\ admitted = events
  /\ refused = [s \in Scopes |-> {}]

\* now_epoch = int(time.time())
Arrive(c, s) ==
  /\ \A w \in waiting : w.client # c
  /\ waiting' = waiting \cup {[client |-> c, scope |-> s, at |-> now]}
  /\ UNCHANGED <<now, events, admitted, refused>>

-----------------------------------------------------------------------------
(* The transaction.                                                        *)
(* An operator marked "faulty" is the one below it with a plausible bug.   *)

Recent(w) == Rows(events[w.scope], w.at - Window, MaxTime)

Full(w) == Recent(w) >= Limit

PrunedToWindow(w, table) ==                                       \* faulty
  [s \in Scopes |-> [t \in Times |-> IF t < w.at - Window THEN 0 ELSE table[s][t]]]
Pruned(w, table) ==
  [s \in Scopes |-> [t \in Times |-> IF t < w.at - Keep THEN 0 ELSE table[s][t]]]

Admit(w) ==
  /\ ~Full(w)
  /\ LET inserted == [events EXCEPT ![w.scope][w.at] = @ + 1]
     IN events' = IF Recent(w) = 0 THEN Pruned(w, inserted) ELSE inserted
  /\ admitted' = [admitted EXCEPT ![w.scope][w.at] = @ + 1]
  /\ UNCHANGED refused

Refuse(w) ==
  /\ Full(w)
  /\ refused' = [refused EXCEPT ![w.scope] = @ \cup {w.at}]
  /\ UNCHANGED <<events, admitted>>

Decide(w) ==
  /\ w \in waiting
  /\ now - w.at <= MaxWait
  /\ waiting' = waiting \ {w}
  /\ Admit(w) \/ Refuse(w)
  /\ UNCHANGED now

\* "database is locked", or the process died.
GiveUp(w) ==
  /\ w \in waiting
  /\ waiting' = waiting \ {w}
  /\ UNCHANGED <<now, events, admitted, refused>>

Tick ==
  /\ now < MaxTime
  /\ now' = now + 1
  /\ UNCHANGED <<events, waiting, admitted, refused>>

Next ==
  \/ \E c \in Clients, s \in Scopes : Arrive(c, s)
  \/ \E w \in waiting : Decide(w) \/ GiveUp(w)
  \/ Tick

Spec == Init /\ [][Next]_vars

-----------------------------------------------------------------------------

RateTypeOK ==
  /\ now \in Times
  /\ events \in [Scopes -> [Times -> 0..Limit]]
  /\ waiting \subseteq Check
  /\ admitted \in [Scopes -> [Times -> 0..Limit]]
  /\ refused \in [Scopes -> SUBSET Times]

\* No window of 60 seconds holds more than the limit, by the time stamps of
\* the requests: not even when a check that waited for the lock is decided
\* after later ones, or when another scope's check deletes old rows first.
WindowBounded ==
  \A s \in Scopes, t \in Times : Rows(admitted[s], t, t + Window) <= Limit

\* Nobody is refused for nothing: in the window of a refused check, or by
\* checks that overtook it while it waited, the limit was used up.
RefusedForAReason ==
  \A s \in Scopes : \A t \in refused[s] :
    Rows(admitted[s], t - Window, t + MaxWait) >= Limit
=============================================================================
