------------------------- MODULE SingleFlightProofs -------------------------
(***************************************************************************)
(* Theorems about SingleFlight, for any number of threads and of keys.     *)
(* FlightInv is about the claims: who computes and who waits for whom.     *)
(* HandInv rests on it and is about what the threads take from the entry.  *)
(***************************************************************************)
EXTENDS MCWorkEnds, FiniteSetTheorems, TLAPS

Places == {"start", "lookup", "claim", "work", "wait", "done"}

\* The threads that may have claimed.  Each claims once, so that there is an
\* event for every claim.
Past == {t \in Threads : pc[t] \notin {"start", "lookup", "claim"}}

Types ==
  /\ inFlight \in [Keys -> Nat]
  /\ claims \in Nat
  /\ fate \in [Claims -> {"unset", "ok", "failed"}]
  /\ pc \in [Threads -> Places]
  /\ key \in [Threads -> Keys]
  /\ event \in [Threads -> Nat]

EventsSuffice == claims <= Cardinality(Past)

\* Who computes holds the claim of its key.
WorkersHoldClaims ==
  \A t \in Threads :
    At(t, "work") => event[t] \in 1..claims /\ inFlight[key[t]] = event[t]

\* A claim that is held is held by somebody who computes.
ClaimsHaveWorkers ==
  \A k \in Keys :
    Taken(k) => \E u \in Threads : At(u, "work") /\ key[u] = k /\ event[u] = inFlight[k]

\* Whoever waits will be woken: the event is set, or its owner still computes.
WaitersAreServed ==
  \A t \in Threads :
    At(t, "wait") =>
      IsSet(event[t]) \/ \E u \in Threads : At(u, "work") /\ event[u] = event[t]

FlightInv ==
  /\ Types
  /\ EventsSuffice
  /\ WorkersHoldClaims
  /\ ClaimsHaveWorkers
  /\ OneComputationPerKey
  /\ WaitersAreServed

-----------------------------------------------------------------------------
\* Threads are finitely many, so there are no more claims than events.
LEMMA ClaimsHaveEvents ==
  ASSUME Types, EventsSuffice
  PROVE  /\ IsFiniteSet(Past) /\ Cardinality(Past) \in Nat
         /\ 1..claims \subseteq Claims
<1>1. /\ IsFiniteSet(Past)
      /\ Cardinality(Past) <= Cardinality(Threads)
      /\ Cardinality(Past) \in Nat /\ Cardinality(Threads) \in Nat
  BY ThreadsAssumption, FS_Subset, FS_CardinalityType DEF Past
<1> QED
  BY <1>1 DEF Types, EventsSuffice, Claims

\* Before any thread is at work nothing is claimed.
LEMMA InitFlight == Init => FlightInv
<1> SUFFICES ASSUME Init PROVE FlightInv
  OBVIOUS
<1>1. Types
  BY DEF Init, Types, Places, NoEvent
<1>2. EventsSuffice
  <2>1. Past = {}
    BY DEF Init, Past
  <2> QED
    BY <2>1, FS_EmptySet DEF Init, EventsSuffice
<1>3. WorkersHoldClaims /\ ClaimsHaveWorkers /\ OneComputationPerKey /\ WaitersAreServed
  BY DEF Init, WorkersHoldClaims, ClaimsHaveWorkers, OneComputationPerKey, WaitersAreServed,
         At, Taken
<1> QED
  BY <1>1, <1>2, <1>3 DEF FlightInv

\* A thread that goes on without claiming or releasing anything.
LEMMA QuietStep ==
  ASSUME FlightInv, NEW t \in Threads, NEW where \in Places \ {"work", "wait"},
         ~At(t, "work"), At(t, "start") \/ At(t, "lookup") \/ where = "done",
         GoTo(t, where), UNCHANGED <<inFlight, claims, fate, key, event>>
  PROVE  FlightInv'
<1> USE DEF FlightInv
<1>1. Types'
  BY DEF Types, GoTo
<1>2. EventsSuffice'
  <2>1. Past \subseteq Past'
    BY DEF Past, GoTo, At, Types
  <2>2. IsFiniteSet(Past') /\ Cardinality(Past) <= Cardinality(Past')
    BY <2>1, ThreadsAssumption, FS_Subset DEF Past
  <2>3. Cardinality(Past) \in Nat /\ Cardinality(Past') \in Nat
    BY <2>2, FS_CardinalityType, ClaimsHaveEvents
  <2> QED
    BY <2>2, <2>3 DEF EventsSuffice, Types
<1>3. \A u \in Threads : /\ At(u, "work") <=> At(u, "work")'
                         /\ At(u, "wait")' => At(u, "wait")
  BY DEF GoTo, At, Types
<1>4. WorkersHoldClaims' /\ OneComputationPerKey'
  BY <1>3 DEF WorkersHoldClaims, OneComputationPerKey
<1>5. ClaimsHaveWorkers'
  BY <1>3 DEF ClaimsHaveWorkers, Taken
<1>6. WaitersAreServed'
  BY <1>3 DEF WaitersAreServed, IsSet
<1> QED
  BY <1>1, <1>2, <1>4, <1>5, <1>6

\* A claim is made only of a key that nobody computes.
LEMMA ClaimStep == ASSUME FlightInv, NEW t \in Threads, Claim(t) PROVE FlightInv'
<1> USE DEF FlightInv
<1>1. /\ At(t, "claim") /\ key[t] \in Keys /\ UNCHANGED <<fate, key>>
      /\ claims \in Nat /\ inFlight[key[t]] \in Nat
  BY DEF Claim, Types
<1>2. CASE Taken(key[t])
  <2>1. /\ event' = [event EXCEPT ![t] = inFlight[key[t]]]
        /\ pc' = [pc EXCEPT ![t] = "wait"] /\ UNCHANGED <<inFlight, claims>>
    BY <1>2 DEF Claim, GoTo
  <2>2. Types'
    BY <1>1, <2>1 DEF Types, Places
  <2>3. \A u \in Threads : u # t => event'[u] = event[u] /\ pc'[u] = pc[u]
    BY <2>1 DEF Types
  <2>4. pc[t] = "claim" /\ pc'[t] = "wait" /\ event'[t] = inFlight[key[t]]
    BY <1>1, <2>1 DEF At, Types
  <2>5. EventsSuffice'
    <3>1. Past \subseteq Past'
      BY <2>3, <2>4 DEF Past
    <3>2. IsFiniteSet(Past') /\ Cardinality(Past) <= Cardinality(Past')
      BY <3>1, ThreadsAssumption, FS_Subset DEF Past
    <3>3. Cardinality(Past) \in Nat /\ Cardinality(Past') \in Nat
      BY <3>2, FS_CardinalityType, ClaimsHaveEvents
    <3> QED
      BY <3>2, <3>3, <2>1 DEF EventsSuffice, Types
  <2>6. WorkersHoldClaims' /\ OneComputationPerKey' /\ ClaimsHaveWorkers'
    BY <1>1, <2>1, <2>3, <2>4
       DEF WorkersHoldClaims, OneComputationPerKey, ClaimsHaveWorkers, At, Taken
  <2>7. WaitersAreServed'
    <3> SUFFICES ASSUME NEW w \in Threads, At(w, "wait")'
                 PROVE  IsSet(event[w])' \/ \E u \in Threads : At(u, "work")' /\ event'[u] = event'[w]
      BY DEF WaitersAreServed
    <3>1. CASE w = t
      BY <1>1, <1>2, <2>3, <2>4, <3>1 DEF ClaimsHaveWorkers, At
    <3>2. CASE w # t
      BY <1>1, <2>3, <2>4, <3>2 DEF WaitersAreServed, At, IsSet
    <3> QED
      BY <3>1, <3>2
  <2> QED
    BY <2>2, <2>5, <2>6, <2>7
<1>3. CASE ~Taken(key[t])
  <2>1. /\ claims' = claims + 1
        /\ inFlight' = [inFlight EXCEPT ![key[t]] = claims + 1]
        /\ event' = [event EXCEPT ![t] = claims + 1]
        /\ pc' = [pc EXCEPT ![t] = "work"]
    BY <1>3 DEF Claim, GoTo
  <2>2. Types'
    BY <1>1, <2>1 DEF Types, Places
  <2>3. /\ \A u \in Threads : u # t => event'[u] = event[u] /\ pc'[u] = pc[u]
        /\ \A k \in Keys : k # key[t] => inFlight'[k] = inFlight[k]
    BY <2>1 DEF Types
  <2>4. /\ pc[t] = "claim" /\ pc'[t] = "work"
        /\ event'[t] = claims + 1 /\ inFlight'[key[t]] = claims + 1
    BY <1>1, <2>1 DEF At, Types
  <2>5. EventsSuffice'
    <3>1. Past' = Past \cup {t} /\ t \notin Past
      BY <2>3, <2>4 DEF Past
    <3>2. Cardinality(Past') = Cardinality(Past) + 1
      BY <3>1, ClaimsHaveEvents, FS_AddElement
    <3> QED
      BY <3>2, <2>1, <1>1, ClaimsHaveEvents DEF EventsSuffice
  <2>6. \A u \in Threads : At(u, "work") => key[u] # key[t]
    BY <1>1, <1>3 DEF WorkersHoldClaims, Taken, NoEvent
  <2>7. WorkersHoldClaims'
    <3> SUFFICES ASSUME NEW u \in Threads, At(u, "work")'
                 PROVE  event'[u] \in 1..claims' /\ inFlight'[key'[u]] = event'[u]
      BY DEF WorkersHoldClaims
    <3>1. CASE u = t
      BY <1>1, <2>1, <2>4, <3>1
    <3>2. CASE u # t
      <4>1. At(u, "work") /\ key[u] \in Keys
        BY <2>3, <3>2 DEF At, Types
      <4> QED
        BY <1>1, <2>1, <2>3, <2>6, <3>2, <4>1 DEF WorkersHoldClaims
    <3> QED
      BY <3>1, <3>2
  <2>8. OneComputationPerKey'
    BY <1>1, <2>3, <2>6 DEF OneComputationPerKey, At
  <2>9. ClaimsHaveWorkers'
    <3> SUFFICES ASSUME NEW k \in Keys, Taken(k)'
                 PROVE  \E u \in Threads : At(u, "work")' /\ key'[u] = k /\ event'[u] = inFlight'[k]
      BY DEF ClaimsHaveWorkers
    <3>1. CASE k = key[t]
      BY <1>1, <2>4, <3>1 DEF At
    <3>2. CASE k # key[t]
      <4>1. PICK u \in Threads : At(u, "work") /\ key[u] = k /\ event[u] = inFlight[k]
        BY <2>3, <3>2 DEF ClaimsHaveWorkers, Taken
      <4>2. u # t
        BY <3>2, <4>1
      <4> QED
        BY <1>1, <2>3, <3>2, <4>1, <4>2 DEF At
    <3> QED
      BY <3>1, <3>2
  <2>10. WaitersAreServed'
    <3> SUFFICES ASSUME NEW w \in Threads, At(w, "wait")'
                 PROVE  IsSet(event[w])' \/ \E u \in Threads : At(u, "work")' /\ event'[u] = event'[w]
      BY DEF WaitersAreServed
    <3>1. w # t /\ At(w, "wait")
      BY <2>3, <2>4 DEF At
    <3>2. CASE IsSet(event[w])
      BY <1>1, <2>3, <3>1, <3>2 DEF IsSet
    <3>3. CASE ~IsSet(event[w])
      <4>1. PICK u \in Threads : At(u, "work") /\ event[u] = event[w]
        BY <3>1, <3>3 DEF WaitersAreServed
      <4>2. u # t
        BY <1>1, <4>1 DEF At
      <4> QED
        BY <2>3, <3>1, <4>1, <4>2 DEF At
    <3> QED
      BY <3>2, <3>3
  <2> QED
    BY <2>2, <2>5, <2>7, <2>8, <2>9, <2>10
<1> QED
  BY <1>2, <1>3

\* The release sets the event it frees the key of, whatever the outcome.
LEMMA ReleaseStep ==
  ASSUME FlightInv, NEW t \in Threads, NEW how \in {"ok", "failed"},
         Release(t, how), GoTo(t, "done")
  PROVE  FlightInv'
<1> USE DEF FlightInv
<1>1. /\ At(t, "work") /\ key[t] \in Keys /\ UNCHANGED <<claims, key, event>>
      /\ inFlight' = [inFlight EXCEPT ![key[t]] = NoEvent]
      /\ fate' = [fate EXCEPT ![event[t]] = how]
      /\ pc' = [pc EXCEPT ![t] = "done"]
  BY DEF Release, Freed, Set, GoTo, Types
<1>2. event[t] \in Claims /\ inFlight[key[t]] = event[t]
  BY <1>1, ClaimsHaveEvents DEF WorkersHoldClaims
<1>3. Types'
  BY <1>1 DEF Types, Places, NoEvent
<1>4. /\ \A u \in Threads : u # t => pc'[u] = pc[u]
      /\ \A k \in Keys : k # key[t] => inFlight'[k] = inFlight[k]
      /\ pc[t] = "work" /\ pc'[t] = "done" /\ inFlight'[key[t]] = NoEvent
      /\ fate'[event[t]] = how
      /\ \A c \in Nat : c # event[t] => fate'[c] = fate[c]
  <2>1. \A c \in Nat : c # event[t] => fate'[c] = fate[c]
    BY <1>1, <1>2 DEF Types
  <2> QED
    BY <1>1, <1>2, <2>1 DEF Types, At
<1>5. EventsSuffice'
  <2>1. Past' = Past
    BY <1>4 DEF Past
  <2> QED
    BY <1>1, <2>1 DEF EventsSuffice
<1>6. \A u \in Threads : At(u, "work")' <=> At(u, "work") /\ u # t
  BY <1>4 DEF At
<1>7. \A u \in Threads : At(u, "work")' => key[u] # key[t]
  BY <1>1, <1>6 DEF OneComputationPerKey
<1>8. WorkersHoldClaims' /\ OneComputationPerKey'
  BY <1>1, <1>4, <1>6, <1>7 DEF WorkersHoldClaims, OneComputationPerKey, Types
<1>9. ClaimsHaveWorkers'
  <2> SUFFICES ASSUME NEW k \in Keys, Taken(k)'
               PROVE  \E u \in Threads : At(u, "work")' /\ key'[u] = k /\ event'[u] = inFlight'[k]
    BY DEF ClaimsHaveWorkers
  <2>1. k # key[t]
    BY <1>4 DEF Taken
  <2>2. PICK u \in Threads : At(u, "work") /\ key[u] = k /\ event[u] = inFlight[k]
    BY <1>4, <2>1 DEF ClaimsHaveWorkers, Taken
  <2> QED
    BY <1>1, <1>4, <1>6, <2>1, <2>2
<1>10. WaitersAreServed'
  <2> SUFFICES ASSUME NEW w \in Threads, At(w, "wait")'
               PROVE  IsSet(event[w])' \/ \E u \in Threads : At(u, "work")' /\ event'[u] = event'[w]
    BY DEF WaitersAreServed
  <2>1. At(w, "wait") /\ event[w] \in Nat /\ event'[w] = event[w]
    BY <1>1, <1>4 DEF At, Types
  <2>2. CASE event[w] = event[t]
    BY <1>1, <1>4, <2>1, <2>2 DEF IsSet
  <2>3. CASE event[w] # event[t]
    BY <1>1, <1>4, <1>6, <2>1, <2>3 DEF WaitersAreServed, IsSet
  <2> QED
    BY <2>2, <2>3
<1> QED
  BY <1>3, <1>5, <1>8, <1>9, <1>10

\* Every step of a call keeps the invariant.
LEMMA FlightStep == FlightInv /\ [Next]_vars => FlightInv'
<1> SUFFICES ASSUME FlightInv, [Next]_vars PROVE FlightInv'
  OBVIOUS
<1>1. ASSUME NEW t \in Threads, NEW b \in BOOLEAN, Enter(t, b) PROVE FlightInv'
  BY <1>1, QuietStep DEF Enter, At, GoTo, Places
<1>2. ASSUME NEW t \in Threads, PromptFails(t) PROVE FlightInv'
  BY <1>2, QuietStep DEF PromptFails, Return, At, Places
<1>3. ASSUME NEW t \in Threads, LookUp(t) PROVE FlightInv'
  <2>1. /\ At(t, "lookup") /\ UNCHANGED <<inFlight, claims, fate, key, event>>
        /\ GoTo(t, "done") \/ GoTo(t, "claim")
    BY <1>3 DEF LookUp, Return
  <2> QED
    BY <2>1, QuietStep DEF At, Places
<1>4. ASSUME NEW t \in Threads, Claim(t) PROVE FlightInv'
  BY <1>4, ClaimStep
<1>5. ASSUME NEW t \in Threads, Complete(t) PROVE FlightInv'
  BY <1>5, ReleaseStep DEF Complete, Return
<1>6. ASSUME NEW t \in Threads, Fail(t) PROVE FlightInv'
  BY <1>6, ReleaseStep DEF Fail, Return
<1>7. ASSUME NEW t \in Threads, Join(t) PROVE FlightInv'
  BY <1>7, QuietStep DEF Join, Return, At, Places
<1>8. ASSUME UNCHANGED vars PROVE FlightInv'
  BY <1>8 DEF vars, FlightInv, Types, EventsSuffice, Past, WorkersHoldClaims, ClaimsHaveWorkers,
              OneComputationPerKey, WaitersAreServed, At, Taken, IsSet
<1> QED
  BY <1>1, <1>2, <1>3, <1>4, <1>5, <1>6, <1>7, <1>8 DEF Next

\* However many threads call ensure_node at once, a key is computed by one of
\* them at a time.
THEOREM OneComputation == Spec => []OneComputationPerKey
<1>1. FlightInv => OneComputationPerKey
  BY DEF FlightInv
<1> QED
  BY <1>1, InitFlight, FlightStep, PTL DEF Spec

\* A thread never waits for an event that nobody is left to set, although it
\* waits without a timeout: the safe half of EveryCallReturns.
THEOREM NobodyWaitsInVain == Spec => []WaitersAreServed
<1>1. FlightInv => WaitersAreServed
  BY DEF FlightInv
<1> QED
  BY <1>1, InitFlight, FlightStep, PTL DEF Spec

-----------------------------------------------------------------------------
(* What is handed out.                                                     *)

\* A thread gets its event when it claims or finds the claim of another.
EventsKnown ==
  \A t \in Threads :
    /\ pc[t] \in {"start", "lookup", "claim"} => event[t] = NoEvent
    /\ pc[t] \in {"work", "wait"} => event[t] \in 1..claims

\* An event is set once: by its owner, and by nobody before it was claimed.
SetOnce ==
  /\ \A c \in Claims : fate[c] # "unset" => c <= claims
  /\ \A t \in Threads : At(t, "work") => fate[event[t]] = "unset"

\* Who waits for an event waits for a computation of its own key.
EventsOfOneKey ==
  \A t, u \in Threads :
    At(u, "work") /\ pc[t] \in {"work", "wait"} /\ event[t] = event[u] => key[t] = key[u]

\* Another key's computation was stored after this thread's.
Overtaken(t) ==
  \E u \in Threads : key[u] # key[t] /\ At(u, "done") /\ event[u] # NoEvent
                        /\ fate[event[u]] = "ok"

\* What a waiter was woken to read is still there, unless it was overtaken:
\* a look-up removes nothing but an old failure.
StoredOrOvertaken ==
  \A t \in Threads :
    At(t, "wait") /\ fate[event[t]] = "ok" =>
      (Matches(entry, key[t]) /\ ~IsFailure(entry)) \/ Overtaken(t)

EntryIsOwn == ~IsFailure(entry) => entry.of = entry.key

HandTypes ==
  /\ entry \in [key : Keys \cup {"none"}, of : Keys \cup {"none"}, n : Nat]
  /\ answer \in [Threads -> [of : Keys \cup {"none", "error"}, n : Nat]]

HandInv ==
  /\ HandTypes
  /\ EventsKnown
  /\ SetOnce
  /\ EventsOfOneKey
  /\ StoredOrOvertaken
  /\ EntryIsOwn
  /\ AnswersOwnInputs
  /\ WaiterFailsForAReason

-----------------------------------------------------------------------------
\* Nobody has an event before the first claim.
LEMMA InitHand == Init => HandInv
<1> SUFFICES ASSUME Init PROVE HandInv
  OBVIOUS
<1>1. HandTypes /\ EntryIsOwn
  BY DEF Init, HandTypes, EntryIsOwn, NoEntry, LegacyFailure, Entry, IsFailure, NoAnswer
<1>2. EventsKnown /\ SetOnce /\ EventsOfOneKey
  BY DEF Init, EventsKnown, SetOnce, EventsOfOneKey, At
<1>3. StoredOrOvertaken /\ AnswersOwnInputs /\ WaiterFailsForAReason
  BY DEF Init, StoredOrOvertaken, AnswersOwnInputs, WaiterFailsForAReason, At
<1> QED
  BY <1>1, <1>2, <1>3 DEF HandInv

\* A thread that returns, or goes on, and leaves the claims alone.  It may
\* remove an old failure from the entry, which nobody was woken to read.
LEMMA QuietHand ==
  ASSUME FlightInv, HandInv, NEW t \in Threads, NEW where \in {"lookup", "claim", "done"},
         pc[t] \in {"start", "lookup", "wait"}, At(t, "wait") => where = "done",
         GoTo(t, where), UNCHANGED <<inFlight, claims, fate, key, event>>,
         \/ UNCHANGED entry
         \/ IsFailure(entry) /\ entry' = NoEntry,
         NEW a \in [of : Keys \cup {"none", "error"}, n : Nat],
         IF where = "done" THEN answer' = [answer EXCEPT ![t] = a] ELSE UNCHANGED answer,
         a.n # 0 => a.of = key[t],
         a = Error /\ event[t] # NoEvent => fate[event[t]] = "failed" \/ Overtaken(t)
  PROVE  HandInv'
<1> USE DEF HandInv
<1>1. /\ \A u \in Threads : u # t => pc'[u] = pc[u] /\ answer'[u] = answer[u]
      /\ pc'[t] = where
      /\ where = "done" => answer'[t] = a
      /\ UNCHANGED <<inFlight, claims, fate, key, event>>
  BY DEF GoTo, FlightInv, Types, HandTypes
<1>2. HandTypes'
  BY DEF HandTypes, NoEntry
<1>3. EventsKnown' /\ SetOnce' /\ EventsOfOneKey'
  <2>1. EventsKnown'
    BY <1>1 DEF EventsKnown, At
  <2>2. SetOnce'
    BY <1>1 DEF SetOnce, At
  <2>3. EventsOfOneKey'
    BY <1>1 DEF EventsOfOneKey, At
  <2> QED
    BY <2>1, <2>2, <2>3
<1>4. \A u \in Threads : At(u, "done") => At(u, "done")' /\ u # t
  BY <1>1 DEF At
<1>5. \A u \in Threads : Overtaken(u) => Overtaken(u)'
  BY <1>1, <1>4 DEF Overtaken
<1>6. StoredOrOvertaken'
  <2> SUFFICES ASSUME NEW u \in Threads, At(u, "wait")', fate'[event'[u]] = "ok"
               PROVE  ((Matches(entry, key[u]) /\ ~IsFailure(entry)) \/ Overtaken(u))'
    BY DEF StoredOrOvertaken
  <2>1. At(u, "wait") /\ fate[event[u]] = "ok"
    BY <1>1 DEF At
  <2>2. CASE Overtaken(u)
    BY <1>5, <2>2
  <2>3. CASE Matches(entry, key[u]) /\ ~IsFailure(entry)
    BY <1>1, <2>3 DEF Matches, IsFailure
  <2> QED
    BY <2>1, <2>2, <2>3 DEF StoredOrOvertaken
<1>7. EntryIsOwn'
  BY DEF EntryIsOwn, IsFailure, NoEntry
<1>8. AnswersOwnInputs'
  BY <1>1 DEF AnswersOwnInputs, At
<1>9. WaiterFailsForAReason'
  <2> SUFFICES ASSUME NEW u \in Threads, At(u, "done")', answer'[u] = Error, event'[u] # NoEvent
               PROVE  fate'[event'[u]] = "failed" \/ Overtaken(u)'
    BY DEF WaiterFailsForAReason, Overtaken
  <2>1. fate[event[u]] = "failed" \/ Overtaken(u)
    BY <1>1 DEF WaiterFailsForAReason, Overtaken, At
  <2> QED
    BY <1>1, <1>5, <2>1
<1> QED
  BY <1>2, <1>3, <1>6, <1>7, <1>8, <1>9

\* A new claim has an event of its own; a thread that finds one waits for the
\* computation of its key.
LEMMA ClaimHand == ASSUME FlightInv, HandInv, NEW t \in Threads, Claim(t) PROVE HandInv'
<1> USE DEF HandInv
<1>1. /\ At(t, "claim") /\ key[t] \in Keys /\ UNCHANGED <<fate, key, entry, answer>>
      /\ claims \in Nat /\ inFlight[key[t]] \in Nat
  BY DEF Claim, FlightInv, Types
<1>2. /\ UNCHANGED <<fate, key, entry, answer>>
      /\ \A u \in Threads : u # t => event'[u] = event[u] /\ pc'[u] = pc[u]
      /\ pc[t] = "claim" /\ pc'[t] \in {"work", "wait"}
      /\ claims' = claims \/ claims' = claims + 1
  <2>1. event \in [Threads -> Nat] /\ pc \in [Threads -> Places]
    BY DEF FlightInv, Types
  <2> QED
    BY <1>1, <2>1 DEF Claim, GoTo, At
<1>3. \/ /\ Taken(key[t]) /\ claims' = claims
         /\ event'[t] = inFlight[key[t]] /\ pc'[t] = "wait"
      \/ claims' = claims + 1 /\ event'[t] = claims + 1 /\ pc'[t] = "work"
  <2>1. event \in [Threads -> Nat] /\ pc \in [Threads -> Places]
    BY DEF FlightInv, Types
  <2>2. CASE Taken(key[t])
    BY <2>1, <2>2 DEF Claim, GoTo
  <2>3. CASE ~Taken(key[t])
    BY <2>1, <2>3 DEF Claim, GoTo
  <2> QED
    BY <2>2, <2>3
<1>4. Taken(key[t]) => \E u \in Threads : At(u, "work") /\ key[u] = key[t]
                                           /\ event[u] = inFlight[key[t]]
                                           /\ event[u] \in 1..claims
  BY <1>1 DEF FlightInv, ClaimsHaveWorkers, WorkersHoldClaims
<1>5. EventsKnown'
  <2> SUFFICES ASSUME NEW u \in Threads
               PROVE  /\ pc'[u] \in {"start", "lookup", "claim"} => event'[u] = NoEvent
                      /\ pc'[u] \in {"work", "wait"} => event'[u] \in 1..claims'
    BY DEF EventsKnown
  <2>1. CASE u # t
    BY <1>1, <1>2, <2>1 DEF EventsKnown
  <2>2. CASE u = t
    BY <1>1, <1>2, <1>3, <1>4, <2>2
  <2> QED
    BY <2>1, <2>2
<1>6. SetOnce'
  <2>1. \A c \in Claims : fate'[c] # "unset" => c <= claims'
    <3> SUFFICES ASSUME NEW c \in Claims, fate[c] # "unset" PROVE c <= claims'
      BY <1>2
    <3>1. c <= claims /\ c \in Int
      <4>1. Cardinality(Threads) \in Nat
        BY ThreadsAssumption, FS_CardinalityType
      <4> QED
        BY <4>1 DEF SetOnce, Claims
    <3> QED
      BY <1>1, <1>2, <3>1
  <2>2. ASSUME NEW u \in Threads, At(u, "work")' PROVE fate'[event'[u]] = "unset"
    <3>1. CASE u # t
      BY <1>2, <2>2, <3>1 DEF SetOnce, At
    <3>2. CASE u = t
      <4>1. claims' = claims + 1 /\ event'[t] = claims + 1
        BY <1>3, <2>2, <3>2 DEF At
      <4>2. FlightInv'
        BY ClaimStep
      <4>3. claims + 1 \in Claims
        <5>1. Types' /\ EventsSuffice'
          BY <4>2 DEF FlightInv
        <5>2. claims' <= Cardinality(Past') /\ Cardinality(Past') <= Cardinality(Threads)
              /\ Cardinality(Past') \in Nat /\ Cardinality(Threads) \in Nat
          BY <5>1, ThreadsAssumption, FS_Subset, FS_CardinalityType DEF Past, EventsSuffice
        <5> QED
          BY <1>1, <4>1, <5>2 DEF Claims
      <4>4. fate[claims + 1] \in {"unset", "ok", "failed"}
        BY <4>3 DEF FlightInv, Types
      <4> QED
        BY <1>1, <1>2, <3>2, <4>1, <4>3, <4>4 DEF SetOnce
    <3> QED
      BY <3>1, <3>2
  <2> QED
    BY <2>1, <2>2 DEF SetOnce
<1>7. EventsOfOneKey'
  <2> SUFFICES ASSUME NEW w \in Threads, NEW u \in Threads, At(u, "work")',
                      pc'[w] \in {"work", "wait"}, event'[w] = event'[u]
               PROVE  key'[w] = key'[u]
    BY DEF EventsOfOneKey
  <2>1. CASE w # t /\ u # t
    BY <1>2, <2>1 DEF EventsOfOneKey, At
  <2>2. CASE w = u
    BY <2>2
  <2>3. CASE w # t /\ u = t
    <3>1. event[w] \in 1..claims /\ event'[w] = event[w]
      BY <1>2, <2>3 DEF EventsKnown
    <3>2. event'[t] = claims + 1
      BY <1>3, <2>3 DEF At
    <3> QED
      BY <1>1, <2>3, <3>1, <3>2
  <2>4. CASE w = t /\ u # t
    <3>1. At(u, "work") /\ event[u] \in 1..claims /\ event'[u] = event[u]
      BY <1>2, <2>4 DEF EventsKnown, At
    <3>2. Taken(key[t]) /\ event[u] = inFlight[key[t]]
      BY <1>1, <1>3, <2>4, <3>1
    <3>3. PICK v \in Threads : At(v, "work") /\ key[v] = key[t] /\ event[v] = inFlight[key[t]]
      BY <1>4, <3>2
    <3>4. key[v] = key[u]
      BY <3>1, <3>2, <3>3 DEF EventsOfOneKey, At
    <3> QED
      BY <1>2, <2>4, <3>3, <3>4
  <2> QED
    BY <2>1, <2>2, <2>3, <2>4
<1>8. \A u \in Threads : At(u, "done")' <=> At(u, "done")
  BY <1>2 DEF At
<1>9. \A u \in Threads : At(u, "done") => u # t /\ event'[u] = event[u]
  BY <1>2 DEF At
<1>10. \A u \in Threads : Overtaken(u) => Overtaken(u)'
  BY <1>2, <1>8, <1>9 DEF Overtaken
<1>11. StoredOrOvertaken'
  <2> SUFFICES ASSUME NEW u \in Threads, At(u, "wait")', fate'[event'[u]] = "ok"
               PROVE  ((Matches(entry, key[u]) /\ ~IsFailure(entry)) \/ Overtaken(u))'
    BY DEF StoredOrOvertaken
  <2>1. u # t
    <3> SUFFICES ASSUME u = t PROVE FALSE
      OBVIOUS
    <3>1. Taken(key[t]) /\ event'[t] = inFlight[key[t]]
      BY <1>3 DEF At
    <3>2. PICK v \in Threads : At(v, "work") /\ event[v] = inFlight[key[t]]
      BY <1>4, <3>1
    <3> QED
      BY <1>2, <3>1, <3>2 DEF SetOnce
  <2>2. At(u, "wait") /\ fate[event[u]] = "ok"
    BY <1>2, <2>1 DEF At
  <2> QED
    BY <1>2, <1>10, <2>2 DEF StoredOrOvertaken, Matches, IsFailure
<1>12. AnswersOwnInputs' /\ HandTypes' /\ EntryIsOwn'
  BY <1>2, <1>8 DEF AnswersOwnInputs, HandTypes, EntryIsOwn, IsFailure
<1>13. WaiterFailsForAReason'
  <2> SUFFICES ASSUME NEW u \in Threads, At(u, "done")', answer'[u] = Error, event'[u] # NoEvent
               PROVE  fate'[event'[u]] = "failed" \/ Overtaken(u)'
    BY DEF WaiterFailsForAReason, Overtaken
  <2>1. fate[event[u]] = "failed" \/ Overtaken(u)
    BY <1>2, <1>8, <1>9 DEF WaiterFailsForAReason, Overtaken
  <2> QED
    BY <1>2, <1>8, <1>9, <1>10, <2>1
<1> QED
  BY <1>5, <1>6, <1>7, <1>11, <1>12, <1>13

\* The end of a computation: its waiters are woken to an entry of their own
\* key or to a failure, and the waiters of other keys are overtaken.
LEMMA ReleaseHand ==
  ASSUME FlightInv, HandInv, NEW t \in Threads, Complete(t) \/ Fail(t)
  PROVE  HandInv'
<1> USE DEF HandInv
<1>1. /\ At(t, "work") /\ key[t] \in Keys /\ UNCHANGED <<claims, key, event>>
      /\ event[t] \in Claims /\ event[t] \in 1..claims /\ claims \in Nat
      /\ fate[event[t]] = "unset"
  <2>1. At(t, "work") /\ UNCHANGED <<claims, key, event>>
    BY DEF Complete, Fail, Release
  <2>2. event[t] \in 1..claims /\ 1..claims \subseteq Claims
    BY <2>1, ClaimsHaveEvents DEF FlightInv, WorkersHoldClaims
  <2> QED
    BY <2>1, <2>2 DEF FlightInv, Types, SetOnce
<1> DEFINE stored == fate'[event[t]] = "ok"
<1>2. /\ UNCHANGED <<claims, key, event>>
      /\ \A u \in Threads : u # t => pc'[u] = pc[u] /\ answer'[u] = answer[u]
      /\ pc[t] = "work" /\ pc'[t] = "done"
      /\ \A c : c # event[t] => fate'[c] = fate[c]
      /\ \/ /\ fate'[event[t]] = "ok" /\ entry' = Entry(key[t], event[t])
            /\ answer'[t] = AnswerOf(Entry(key[t], event[t]))
         \/ /\ fate'[event[t]] = "failed" /\ entry' = entry /\ answer'[t] = Error
  <2>1. /\ pc \in [Threads -> Places] /\ answer \in [Threads -> [of : Keys \cup {"none", "error"}, n : Nat]]
        /\ fate \in [Claims -> {"unset", "ok", "failed"}]
    BY DEF FlightInv, Types, HandTypes
  <2>2. CASE Complete(t)
    BY <1>1, <2>1, <2>2 DEF Complete, Release, Set, Return, GoTo, At
  <2>3. CASE Fail(t)
    BY <1>1, <2>1, <2>3 DEF Fail, Release, Set, Return, GoTo, At
  <2> QED
    BY <2>2, <2>3
<1>3. HandTypes' /\ EntryIsOwn'
  <2>1. Entry(key[t], event[t]) \in [key : Keys \cup {"none"}, of : Keys \cup {"none"}, n : Nat]
    BY <1>1 DEF Entry
  <2>2. Error \in [of : Keys \cup {"none", "error"}, n : Nat]
        /\ AnswerOf(Entry(key[t], event[t])) \in [of : Keys \cup {"none", "error"}, n : Nat]
    BY <1>1 DEF Error, Entry, AnswerOf
  <2>3. HandTypes'
    BY <2>1, <2>2 DEF HandTypes, Complete, Fail, Return
  <2>4. EntryIsOwn'
    BY <1>2 DEF EntryIsOwn, IsFailure, Entry
  <2> QED
    BY <2>3, <2>4
<1>4. EventsKnown'
  BY <1>2 DEF EventsKnown
<1>5. \A u \in Threads : At(u, "work")' <=> At(u, "work") /\ u # t
  BY <1>2 DEF At
<1>6. \A u \in Threads : At(u, "work") /\ u # t => event[u] # event[t]
  <2> SUFFICES ASSUME NEW u \in Threads, At(u, "work"), event[u] = event[t] PROVE u = t
    OBVIOUS
  <2>1. key[u] = key[t]
    BY <1>1 DEF EventsOfOneKey, At
  <2> QED
    BY <1>1, <2>1 DEF FlightInv, OneComputationPerKey
<1>7. SetOnce'
  <2>1. \A c \in Claims : fate'[c] # "unset" => c <= claims'
    BY <1>1, <1>2 DEF SetOnce
  <2>2. \A u \in Threads : At(u, "work")' => fate'[event'[u]] = "unset"
    BY <1>2, <1>5, <1>6 DEF SetOnce
  <2> QED
    BY <2>1, <2>2 DEF SetOnce
<1>8. EventsOfOneKey'
  BY <1>2, <1>5 DEF EventsOfOneKey
<1>9. \A u \in Threads : At(u, "done") => At(u, "done")' /\ u # t
  BY <1>2 DEF At
<1>10. \A c : fate[c] \in {"ok", "failed"} => fate'[c] = fate[c]
  BY <1>1, <1>2
<1>11. \A u \in Threads : Overtaken(u) => Overtaken(u)'
  BY <1>2, <1>9, <1>10 DEF Overtaken
<1>12. StoredOrOvertaken'
  <2> SUFFICES ASSUME NEW u \in Threads, At(u, "wait")', fate'[event'[u]] = "ok"
               PROVE  ((Matches(entry, key[u]) /\ ~IsFailure(entry)) \/ Overtaken(u))'
    BY DEF StoredOrOvertaken
  <2>1. At(u, "wait") /\ u # t
    BY <1>2 DEF At
  <2>2. CASE fate'[event[t]] = "ok" /\ key[u] = key[t]
    <3>1. entry' = Entry(key[t], event[t]) /\ event[t] # 0 /\ key'[u] = key[t]
      BY <1>1, <1>2, <2>2
    <3> QED
      BY <3>1 DEF Matches, Entry, IsFailure
  <2>3. CASE fate'[event[t]] = "ok" /\ key[u] # key[t]
    <3>1. key'[t] # key'[u] /\ At(t, "done")' /\ event'[t] # NoEvent /\ fate'[event'[t]] = "ok"
      BY <1>1, <1>2, <2>3 DEF At, NoEvent
    <3> QED
      BY <3>1 DEF Overtaken
  <2>4. CASE fate'[event[t]] # "ok"
    <3>1. event[u] # event[t] /\ entry' = entry
      BY <1>2, <2>4
    <3>2. fate[event[u]] = "ok"
      BY <1>2, <3>1
    <3> QED
      BY <1>2, <1>11, <2>1, <3>1, <3>2 DEF StoredOrOvertaken, Matches, IsFailure
  <2> QED
    BY <2>2, <2>3, <2>4
<1>13. AnswersOwnInputs'
  <2> SUFFICES ASSUME NEW u \in Threads, At(u, "done")', answer'[u].n # 0
               PROVE  answer'[u].of = key'[u]
    BY DEF AnswersOwnInputs
  <2>1. CASE u # t
    BY <1>2, <2>1 DEF AnswersOwnInputs, At
  <2>2. CASE u = t
    BY <1>2, <2>2 DEF AnswerOf, Entry, Error
  <2> QED
    BY <2>1, <2>2
<1>14. WaiterFailsForAReason'
  <2> SUFFICES ASSUME NEW u \in Threads, At(u, "done")', answer'[u] = Error, event'[u] # NoEvent
               PROVE  fate'[event'[u]] = "failed" \/ Overtaken(u)'
    BY DEF WaiterFailsForAReason, Overtaken
  <2>1. CASE u # t
    <3>1. fate[event[u]] = "failed" \/ Overtaken(u)
      BY <1>2, <2>1 DEF WaiterFailsForAReason, Overtaken, At
    <3> QED
      BY <1>2, <1>10, <1>11, <3>1
  <2>2. CASE u = t
    <3>1. AnswerOf(Entry(key[t], event[t])) # Error
      BY <1>1 DEF AnswerOf, Entry, Error
    <3> QED
      BY <1>2, <2>2, <3>1
  <2> QED
    BY <2>1, <2>2
<1> QED
  BY <1>3, <1>4, <1>7, <1>8, <1>12, <1>13, <1>14

\* Every step of a call keeps what is handed out right.
LEMMA HandStep == FlightInv /\ HandInv /\ [Next]_vars => HandInv'
<1> SUFFICES ASSUME FlightInv, HandInv, [Next]_vars PROVE HandInv'
  OBVIOUS
<1> DEFINE Answers == [of : Keys \cup {"none", "error"}, n : Nat]
<1>1. /\ Error \in Answers /\ Error.n = 0
      /\ AnswerOf(entry) \in Answers
      /\ AnswerOf(entry).n # 0 => AnswerOf(entry).of = entry.key
      /\ \A t \in Threads : pc[t] \in {"start", "lookup"} => event[t] = NoEvent
  BY DEF Error, AnswerOf, HandInv, HandTypes, EntryIsOwn, IsFailure, EventsKnown
<1>2. ASSUME NEW t \in Threads, NEW b \in BOOLEAN, Enter(t, b) PROVE HandInv'
  <2>1. /\ pc[t] = "start" /\ (GoTo(t, "lookup") \/ GoTo(t, "claim"))
        /\ UNCHANGED <<entry, inFlight, claims, fate, key, event, answer>>
    BY <1>2 DEF Enter, At
  <2>2. pc[t] \in {"start", "lookup", "wait"} /\ ~At(t, "wait")
    BY <1>2 DEF Enter, At
  <2>3. event[t] = NoEvent
    BY <1>1, <1>2 DEF Enter, At
  <2> QED
    BY <1>1, <2>1, <2>2, <2>3, QuietHand
<1>3. ASSUME NEW t \in Threads, PromptFails(t) PROVE HandInv'
  <2>1. /\ pc[t] = "start" /\ GoTo(t, "done") /\ answer' = [answer EXCEPT ![t] = Error]
        /\ UNCHANGED <<entry, inFlight, claims, fate, key, event>>
    BY <1>3 DEF PromptFails, Return, At
  <2>2. event[t] = NoEvent
    BY <1>1, <2>1
  <2> QED
    BY <1>1, <2>1, <2>2, QuietHand DEF At
<1>4. ASSUME NEW t \in Threads, LookUp(t) PROVE HandInv'
  <2>1. pc[t] = "lookup" /\ UNCHANGED <<inFlight, claims, fate, key, event>>
    BY <1>4 DEF LookUp, At
  <2>2. event[t] = NoEvent
    BY <1>1, <2>1
  <2>3. CASE GoTo(t, "claim") /\ UNCHANGED answer
             /\ (UNCHANGED entry \/ (IsFailure(entry) /\ entry' = NoEntry))
    BY <1>1, <2>1, <2>2, <2>3, QuietHand DEF At
  <2>4. CASE Matches(entry, key[t]) /\ Return(t, AnswerOf(entry)) /\ UNCHANGED entry
    <3>1. GoTo(t, "done") /\ answer' = [answer EXCEPT ![t] = AnswerOf(entry)] /\ entry.key = key[t]
      BY <2>4 DEF Return, Matches
    <3> QED
      BY <1>1, <2>1, <2>2, <2>4, <3>1, QuietHand DEF At
  <2>5. \/ Return(t, AnswerOf(entry)) /\ Matches(entry, key[t]) /\ entry' = entry
        \/ GoTo(t, "claim") /\ answer' = answer /\ IsFailure(entry) /\ entry' = NoEntry
        \/ GoTo(t, "claim") /\ answer' = answer /\ entry' = entry
    BY <1>4, Zenon DEF LookUp
  <2> QED
    BY <2>3, <2>4, <2>5
<1>5. ASSUME NEW t \in Threads, Claim(t) PROVE HandInv'
  BY <1>5, ClaimHand
<1>6. ASSUME NEW t \in Threads, Complete(t) \/ Fail(t) PROVE HandInv'
  BY <1>6, ReleaseHand
<1>7. ASSUME NEW t \in Threads, Join(t) PROVE HandInv'
  <2>1. /\ pc[t] = "wait" /\ GoTo(t, "done") /\ fate[event[t]] # "unset"
        /\ UNCHANGED <<entry, inFlight, claims, fate, key, event>>
    BY <1>7 DEF Join, IsSet, Return, At
  <2>2. fate[event[t]] \in {"ok", "failed"}
    <3>1. event[t] \in 1..claims /\ 1..claims \subseteq Claims
      BY <2>1, ClaimsHaveEvents DEF HandInv, EventsKnown, FlightInv
    <3> QED
      BY <2>1, <3>1 DEF FlightInv, Types
  <2>3. CASE Matches(entry, key[t])
    <3>1. answer' = [answer EXCEPT ![t] = AnswerOf(entry)] /\ entry.key = key[t]
      BY <1>7, <2>3 DEF Join, Return, Matches
    <3>2. AnswerOf(entry) = Error => fate[event[t]] = "failed" \/ Overtaken(t)
      <4> SUFFICES ASSUME AnswerOf(entry) = Error, fate[event[t]] = "ok", ~Overtaken(t) PROVE FALSE
        BY <2>2
      <4>1. entry.n # 0
        BY <2>1 DEF HandInv, StoredOrOvertaken, At, IsFailure
      <4> QED
        BY <4>1 DEF AnswerOf, Error
    <3> QED
      BY <1>1, <2>1, <3>1, <3>2, QuietHand DEF At
  <2>4. CASE ~Matches(entry, key[t])
    <3>1. answer' = [answer EXCEPT ![t] = Error]
      BY <1>7, <2>4 DEF Join, Return
    <3>2. fate[event[t]] = "failed" \/ Overtaken(t)
      BY <2>1, <2>2, <2>4 DEF HandInv, StoredOrOvertaken, At
    <3> QED
      BY <1>1, <2>1, <3>1, <3>2, QuietHand DEF At
  <2> QED
    BY <2>3, <2>4
<1>8. ASSUME UNCHANGED vars PROVE HandInv'
  BY <1>8 DEF vars, HandInv, HandTypes, EventsKnown, SetOnce, EventsOfOneKey, StoredOrOvertaken,
              Overtaken, EntryIsOwn, AnswersOwnInputs, WaiterFailsForAReason, At, Matches, IsFailure
<1> QED
  BY <1>2, <1>3, <1>4, <1>5, <1>6, <1>7, <1>8 DEF Next

\* However many threads share a node's entry, each is handed what was computed
\* for its own inputs; and whoever waited and came back with an error waited
\* for a computation that failed, or lost the entry to another key.
THEOREM AnswersAreOwn == Spec => []AnswersAreOwnOrExcused
<1>1. FlightInv /\ HandInv => AnswersAreOwnOrExcused
  <2> SUFFICES ASSUME FlightInv, HandInv PROVE FlightTypeOK
    BY DEF AnswersAreOwnOrExcused, HandInv
  <2>1. claims \in 0..Cardinality(Threads)
    <3>1. /\ Cardinality(Past) <= Cardinality(Threads)
          /\ Cardinality(Past) \in Nat /\ Cardinality(Threads) \in Nat
      BY ThreadsAssumption, FS_Subset, FS_CardinalityType DEF Past
    <3> QED
      BY <3>1 DEF FlightInv, Types, EventsSuffice
  <2> QED
    BY <2>1 DEF FlightTypeOK, FlightInv, Types, Places, ClaimsHaveWorkers, WorkersHoldClaims,
                HandInv, SetOnce
<1> QED
  BY <1>1, InitFlight, FlightStep, InitHand, HandStep, PTL DEF Spec
=============================================================================
