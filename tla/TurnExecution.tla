--------------------------- MODULE TurnExecution ---------------------------
(***************************************************************************)
(* One conversation turn after another over a profile: run_turn of         *)
(* agent/orchestrator.py, run_nodes_parallel and ensure_node of            *)
(* agent/execution.py, and the profile file they leave behind.             *)
(*                                                                         *)
(* The scheduling loop runs in the thread of the turn; each node runs in a *)
(* worker of the pool, which reads the outputs of other nodes from the     *)
(* cache the profile carries, without a lock, and writes its own there.    *)
(* The profile lease keeps two turns of a profile apart (BilledRequest).   *)
(*                                                                         *)
(* A chart is the triple birth, gender, birth_time_unknown.  PAIPAN is a   *)
(* function of it; a model call never answers the same twice, so that what *)
(* a node says is the number of the call.  In-flight deduplication cannot  *)
(* bite here: a turn submits a node once.                                  *)
(***************************************************************************)
EXTENDS NodeGraph, Naturals, FiniteSets

CONSTANTS
  Charts,
  TimeContexts, \* what the planner and TIME_CONTEXT may yield; None included
  Aspects,      \* aspects a plan may name (bound)
  MaxWorkers,   \* of the thread pool
  MaxTurns,     \* bound: turns in a behaviour
  MaxFailures   \* bound: nodes that fail in a behaviour

ASSUME AspectsAssumption == Aspects \subseteq AspectNodes
ASSUME TimesAssumption == TimeContexts # {}
ASSUME MaxWorkersAssumption == MaxWorkers \in Nat \ {0}
ASSUME BoundsAssumption == {MaxTurns, MaxFailures} \subseteq Nat

VARIABLES
  disk,      \* profile.json: chart and node_cache
  profile,   \* the same in the memory of the running turn
  turn,      \* the locals of run_turn
  remaining, \* the sets of run_nodes_parallel
  done,
  failed,
  outputs,   \* its outputs, by node
  jobs,      \* its futures, by node
  calls,     \* answers each node has been given by the model
  faults     \* nodes that have failed

vars == <<disk, profile, turn, remaining, done, failed, outputs, jobs, calls, faults>>
loop == <<remaining, done, failed, outputs, jobs>>

-----------------------------------------------------------------------------
(* Data.                                                                   *)

NoOutput == <<>>
Ok(what) == [kind |-> "ok", what |-> <<what>>]
Error == [kind |-> "error", what |-> NoOutput]
Skipped == [kind |-> "skipped", what |-> NoOutput]
IsFailure(output) == output.kind # "ok"

\* What the prompt of a node finds in the cache; nothing, if it is not there.
Cached(cache, d) == IF d \in DOMAIN cache THEN cache[d].output.what ELSE NoOutput

\* key_inputs of ensure_node: inputs, rendered prompt and chart_identity.
PromptKey(p, n) ==
  [chart |-> p.chart, time |-> turn.time,
   quotes |-> [d \in PromptReads[n] |-> Cached(p.cache, d)]]
PaipanKey(p) == [chart |-> p.chart]

Hit(cache, n, key) ==
  /\ n \in DOMAIN cache
  /\ cache[n].key = key
  /\ ~IsFailure(cache[n].output)

\* A matching entry that holds a failure is dropped.
Evicted(cache, n, key) ==
  IF n \in DOMAIN cache /\ cache[n].key = key /\ IsFailure(cache[n].output)
  THEN [m \in DOMAIN cache \ {n} |-> cache[m]] ELSE cache

Stored(cache, n, key, output) ==
  [m \in DOMAIN cache \cup {n} |->
     IF m = n THEN [key |-> key, output |-> output] ELSE cache[m]]

EmptyCache == [n \in {} |-> 0]

\* Old releases kept failures in the cache.
LegacyCache(chart) ==
  [n \in {"PAIPAN"} |-> [key |-> [chart |-> chart], output |-> Error]]

Requested == CommonPrereqs \cup turn.aspects

NoTurn == [phase |-> "idle", aspects |-> {}, time |-> CHOOSE t \in TimeContexts : TRUE,
           bypass |-> FALSE, n |-> 0, result |-> "none"]

Init ==
  /\ \E chart \in Charts, cache \in {EmptyCache} \cup {LegacyCache(c) : c \in Charts} :
       /\ cache \in {EmptyCache, LegacyCache(chart)}
       /\ disk = [chart |-> chart, cache |-> cache]
  /\ profile = disk
  /\ turn = NoTurn
  /\ remaining = {}
  /\ done = {}
  /\ failed = {}
  /\ outputs = EmptyCache
  /\ jobs = EmptyCache
  /\ calls = [n \in LlmNodes |-> 0]
  /\ faults = 0

GoTo(phase) == turn' = [turn EXCEPT !.phase = phase]
MayFail == faults < MaxFailures /\ faults' = faults + 1

-----------------------------------------------------------------------------
(* Before the nodes.                                                       *)

\* upsert_profile_from_payload empties the cache when the chart changes;
\* activate_v1_request saves the profile before the turn.
CacheIfSameChart(chart) == IF chart = disk.chart THEN disk.cache ELSE EmptyCache

StartTurn(chart, bypass) ==
  /\ turn.phase = "idle"
  /\ turn.n < MaxTurns
  /\ profile' = [chart |-> chart, cache |-> CacheIfSameChart(chart)]
  /\ disk' = profile'
  /\ turn' = [NoTurn EXCEPT !.phase = "paipan", !.bypass = bypass, !.n = turn.n + 1]
  /\ outputs' = EmptyCache
  /\ UNCHANGED <<remaining, done, failed, jobs, calls, faults>>

PaipanIs(output, cache) ==
  /\ profile' = [profile EXCEPT !.cache = cache]
  /\ outputs' = [n \in {"PAIPAN"} |-> output]
  /\ GoTo("plan")
  /\ UNCHANGED <<disk, remaining, done, failed, jobs, calls>>

\* ensure_node for PAIPAN: nothing else runs yet.
EnsurePaipan ==
  LET key == PaipanKey(profile)
      found == ~turn.bypass /\ Hit(profile.cache, "PAIPAN", key)
      cache == IF turn.bypass THEN profile.cache ELSE Evicted(profile.cache, "PAIPAN", key)
      output == Ok(profile.chart)
  IN
  /\ turn.phase = "paipan"
  /\ \/ found /\ PaipanIs(profile.cache["PAIPAN"].output, cache) /\ UNCHANGED faults
     \/ ~found /\ PaipanIs(output, Stored(cache, "PAIPAN", key, output)) /\ UNCHANGED faults
     \/ ~found /\ MayFail /\ PaipanIs(Error, cache)

\* PLANNER and TIME_CONTEXT; a planner that fails names no aspect.
RunPlanner(aspects, time) ==
  /\ turn.phase = "plan"
  /\ turn' = [turn EXCEPT !.phase = "top", !.aspects = aspects, !.time = time]
  /\ remaining' = CommonPrereqs \cup aspects
  /\ done' = {}
  /\ failed' = {}
  /\ jobs' = EmptyCache
  /\ UNCHANGED <<disk, profile, outputs, calls, faults>>

-----------------------------------------------------------------------------
(* The loop of run_nodes_parallel.  An operator marked "faulty" is the one *)
(* below it with a mistake somebody could make there; only the tests of    *)
(* the properties use it.                                                  *)

ReadyIfAnyDone ==                                                 \* faulty
  {n \in remaining : Deps[n] = {} \/ Deps[n] \cap done # {}}
Ready == {n \in remaining : Deps[n] \subseteq done}

\* One pass over what is ready, up to wait().
Schedule ==
  LET skipped == {n \in Ready : Deps[n] \cap failed # {}}
      submitted == (Ready \ skipped) \ {"PAIPAN"}
  IN
  /\ turn.phase = "top"
  /\ Ready # {} \/ DOMAIN jobs # {}
  /\ remaining' = remaining \ Ready
  /\ done' = done \cup skipped \cup (Ready \cap {"PAIPAN"})
  /\ failed' = failed \cup skipped
  /\ outputs' = [n \in DOMAIN outputs \cup skipped |->
                   IF n \in skipped THEN Skipped ELSE outputs[n]]
  /\ jobs' = [n \in DOMAIN jobs \cup submitted |->
                IF n \in submitted THEN [state |-> "queued"] ELSE jobs[n]]
  /\ GoTo(IF DOMAIN jobs' = {} THEN "top" ELSE "wait")
  /\ UNCHANGED <<disk, profile, calls, faults>>

FinishedJobs == {n \in DOMAIN jobs : jobs[n].state = "finished"}

\* wait(FIRST_COMPLETED) returns some of the finished futures.
Collect(completed) ==
  /\ turn.phase = "wait"
  /\ jobs' = [n \in DOMAIN jobs \ completed |-> jobs[n]]
  /\ outputs' = [n \in DOMAIN outputs \cup completed |->
                   IF n \in completed THEN jobs[n].output ELSE outputs[n]]
  /\ done' = done \cup completed
  /\ failed' = failed \cup {n \in completed : IsFailure(jobs[n].output)}
  /\ GoTo("top")
  /\ UNCHANGED <<disk, profile, remaining, calls, faults>>

-----------------------------------------------------------------------------
(* ensure_node in a worker.                                                *)

Occupied == {n \in DOMAIN jobs : jobs[n].state \in {"prompted", "calling"}}
Job(n, state) == n \in DOMAIN jobs /\ jobs[n].state = state
Becomes(n, job) == jobs' = [jobs EXCEPT ![n] = job]
Finished(output) == [state |-> "finished", output |-> output]
others == <<disk, turn, remaining, done, failed, outputs>>

WorkerFree == Cardinality(Occupied) < MaxWorkers

\* build_prompt, without the lock.
BuildPrompt(n) ==
  /\ Job(n, "queued")
  /\ WorkerFree
  /\ \/ Becomes(n, [state |-> "prompted", key |-> PromptKey(profile, n)])
        /\ UNCHANGED faults
     \/ Becomes(n, Finished(Error)) /\ MayFail
  /\ UNCHANGED <<others, profile, calls>>

NodeOnlyHit(cache, n, key) == n \in DOMAIN cache                  \* faulty
InputsOnlyHit(cache, n, key) ==                                   \* faulty
  Hit(cache, n, [key EXCEPT !.quotes = NoOutput])
LookupHit(cache, n, key) == Hit(cache, n, key)

Lookup(n) ==
  /\ Job(n, "prompted")
  /\ LET key == jobs[n].key
         found == ~turn.bypass /\ LookupHit(profile.cache, n, key)
     IN IF found THEN Becomes(n, Finished(profile.cache[n].output))
                 ELSE Becomes(n, [state |-> "calling", key |-> key])
  /\ UNCHANGED <<others, profile, calls, faults>>

\* llm_report_tool came back; a good answer goes to the cache.
Answered(n) ==
  /\ Job(n, "calling")
  /\ LET output == Ok(calls[n] + 1)
     IN /\ profile' = [profile EXCEPT !.cache = Stored(@, n, jobs[n].key, output)]
        /\ Becomes(n, Finished(output))
  /\ calls' = [calls EXCEPT ![n] = @ + 1]
  /\ UNCHANGED <<others, faults>>

ModelFails(n) ==
  /\ Job(n, "calling")
  /\ MayFail
  /\ Becomes(n, Finished(Error))
  /\ UNCHANGED <<others, profile, calls>>

-----------------------------------------------------------------------------
(* After the nodes.                                                        *)

FailedNodes == {n \in DOMAIN outputs : outputs[n].kind = "error"}

NothingToDo == Ready = {} /\ DOMAIN jobs = {}

\* workflow_error, or on to the answer.
LeaveLoop ==
  /\ turn.phase = "top"
  /\ NothingToDo
  /\ turn' = IF FailedNodes # {}
             THEN [turn EXCEPT !.phase = "write", !.result = "error"]
             ELSE [turn EXCEPT !.phase = "response"]
  /\ UNCHANGED <<disk, profile, loop, calls, faults>>

RunResponse(result) ==
  /\ turn.phase = "response"
  /\ turn' = [turn EXCEPT !.phase = "write", !.result = result]
  /\ UNCHANGED <<disk, profile, loop, calls, faults>>

\* save_profile, whether the turn failed or not.
WriteProfile ==
  /\ turn.phase = "write"
  /\ disk' = profile
  /\ GoTo("idle")
  /\ UNCHANGED <<profile, loop, calls, faults>>

\* An exception (the event sink writes to a file) or the death of the process
\* loses what is in memory.
Abort ==
  /\ turn.phase # "idle"
  /\ MayFail
  /\ profile' = disk
  /\ turn' = [turn EXCEPT !.phase = "idle"]
  /\ jobs' = EmptyCache
  /\ remaining' = {}
  /\ UNCHANGED <<disk, done, failed, outputs, calls>>

LoopStep ==
  \/ Schedule \/ LeaveLoop
  \/ \E completed \in SUBSET FinishedJobs : completed # {} /\ Collect(completed)
JobStep(n) == BuildPrompt(n) \/ Lookup(n) \/ Answered(n) \/ ModelFails(n)
TurnStep ==
  \/ EnsurePaipan
  \/ \E aspects \in SUBSET Aspects, time \in TimeContexts : RunPlanner(aspects, time)
  \/ LoopStep
  \/ \E result \in {"answer", "error"} : RunResponse(result)
  \/ WriteProfile

Next ==
  \/ \E chart \in Charts, bypass \in BOOLEAN : StartTurn(chart, bypass)
  \/ TurnStep
  \/ \E n \in LlmNodes : JobStep(n)
  \/ Abort

\* The turn's thread and the pool's are scheduled; a model call ends, because
\* llm_report_tool gives up after its timeout and retries.
Spec == /\ Init /\ [][Next]_vars
        /\ WF_vars(TurnStep)
        /\ \A n \in LlmNodes : WF_vars(JobStep(n))

-----------------------------------------------------------------------------
(* Invariants.                                                             *)

Phases == {"idle", "paipan", "plan", "top", "wait", "response", "write"}
OutputKinds == {"ok", "error", "skipped"}
JobStates == {"queued", "prompted", "calling", "finished"}

TurnTypeOK ==
  /\ {disk.chart, profile.chart} \subseteq Charts
  /\ DOMAIN disk.cache \cup DOMAIN profile.cache \subseteq PersistentNodes
  /\ turn.phase \in Phases
  /\ turn.aspects \subseteq Aspects
  /\ turn.time \in TimeContexts
  /\ remaining \cup done \cup failed \subseteq PersistentNodes
  /\ \A n \in DOMAIN outputs : n \in PersistentNodes /\ outputs[n].kind \in OutputKinds
  /\ \A n \in DOMAIN jobs : n \in LlmNodes /\ jobs[n].state \in JobStates
  /\ Cardinality(Occupied) <= MaxWorkers
  /\ calls \in [LlmNodes -> Nat]

Coherent(p, nodes) ==
  /\ Cached(p.cache, "PAIPAN") = <<p.chart>>
  /\ \A n \in nodes \ {"PAIPAN"} : Hit(p.cache, n, PromptKey(p, n))

\* The answer is written from one consistent reading of the chart: every
\* output it quotes is this turn's, and was written for this chart, this time
\* context and the very outputs that are quoted next to it, however old it is.
AnswerIsCoherent ==
  turn.phase = "response" =>
    /\ Coherent(profile, Requested)
    /\ \A n \in ResponseReads(turn.aspects) :
         n \in DOMAIN outputs /\ outputs[n] = profile.cache[n].output

\* A prompt quotes this turn's good outputs and none of them changes while its
\* node runs, although workers read the cache without the lock.
QuotesThisTurn ==
  \A n \in Occupied, d \in LlmNodes :
    d \in PromptReads[n] =>
      /\ d \in DOMAIN outputs
      /\ outputs[d] = Ok(profile.cache[d].output.what[1])
      /\ jobs[n].key.quotes[d] = outputs[d].what

\* The loop never drops a node: when it ends, each one asked for was answered,
\* failed, or skipped, and skipped only because of a failure before it.
EveryNodeAccountedFor ==
  /\ turn.phase \in {"response", "write"} => DOMAIN outputs = Requested
  /\ \A n \in DOMAIN outputs :
       outputs[n].kind = "skipped" =>
         \E d \in Deps[n] : d \in DOMAIN outputs /\ IsFailure(outputs[d])

-----------------------------------------------------------------------------
(* Action and liveness properties.                                         *)

\* Asking again for what the saved profile already holds calls no model, after
\* any history of failures and aborted turns.
RepeatIsFree ==
  [][\A n \in LlmNodes :
       calls'[n] # calls[n] /\ ~turn.bypass => ~Coherent(disk, Requested)]_vars

\* A turn ends, whatever fails and with a pool of one worker too.
TurnEnds == turn.phase # "idle" ~> turn.phase = "idle"

-----------------------------------------------------------------------------
(* What a test says of run_nodes_parallel.                                 *)

\* "Downstream nodes should be skipped when prerequisite fails."
SkippedAfterFailure ==
  \A n \in DOMAIN jobs :
    \A d \in Deps[n] : d \in DOMAIN outputs => ~IsFailure(outputs[d])

=============================================================================
