------------------------ MODULE TurnExecutionProofs ------------------------
(***************************************************************************)
(* Theorems about TurnExecution, for any charts, time contexts, aspects    *)
(* and pool of workers, and for any number of turns and failures.          *)
(***************************************************************************)
EXTENDS MCTurnExecution, FiniteSetTheorems, TLAPS

Planned == turn.phase \in {"top", "wait", "response", "write"}

\* A cache keeps what nodes said as it was said, and the chart as itself.
GoodCache(cache) ==
  /\ DOMAIN cache \subseteq PersistentNodes
  /\ cache = [n \in DOMAIN cache |-> cache[n]]
  /\ \A n \in DOMAIN cache \ {"PAIPAN"} : cache[n].output = Ok(cache[n].output.what[1])
  /\ "PAIPAN" \in DOMAIN cache =>
       \/ cache["PAIPAN"].output = Error
       \/ /\ cache["PAIPAN"].key = [chart |-> cache["PAIPAN"].key.chart]
          /\ cache["PAIPAN"].output = Ok(cache["PAIPAN"].key.chart)

Shape ==
  /\ disk = [chart |-> disk.chart, cache |-> disk.cache] /\ GoodCache(disk.cache)
  /\ profile = [chart |-> profile.chart, cache |-> profile.cache] /\ GoodCache(profile.cache)
  /\ turn \in [phase: Phases, aspects: SUBSET Aspects, time: TimeContexts,
               bypass: BOOLEAN, n: Nat, result: {"none", "answer", "error"}]
  /\ outputs = [n \in DOMAIN outputs |-> outputs[n]]
  /\ jobs = [n \in DOMAIN jobs |-> jobs[n]]
  /\ calls \in [LlmNodes -> Nat]

\* Each requested node is in one of the loop's sets, and its outcome is known
\* when it is done.
Books ==
  /\ turn.phase \notin {"top", "wait"} => DOMAIN jobs = {}
  /\ turn.phase = "plan" => DOMAIN outputs = {"PAIPAN"}
  /\ Planned =>
       /\ Requested = remaining \cup done \cup DOMAIN jobs
       /\ remaining \cap done = {}
       /\ DOMAIN jobs \cap (remaining \cup done \cup {"PAIPAN"}) = {}
       /\ failed \subseteq done \ {"PAIPAN"}
       /\ DOMAIN outputs = done \cup {"PAIPAN"}
       /\ \A n \in done \cup DOMAIN jobs : Deps[n] \subseteq done
       /\ \A n \in DOMAIN jobs : Deps[n] \cap failed = {}
       /\ \A n \in failed :
            outputs[n] = Error \/ (outputs[n] = Skipped /\ Deps[n] \cap failed # {})

\* The chart is in the cache, as it was put out, or the node failed.
ChartKnown ==
  turn.phase \in {"plan", "top", "wait", "response", "write"} =>
    /\ "PAIPAN" \in DOMAIN outputs
    /\ \/ outputs["PAIPAN"] = Error
       \/ /\ outputs["PAIPAN"] = Ok(profile.chart)
          /\ "PAIPAN" \in DOMAIN profile.cache
          /\ profile.cache["PAIPAN"].output = outputs["PAIPAN"]

\* A node that is done answered the prompt that would be built now, and one
\* that runs was given it: the entries a prompt quotes do not change any more.
Fresh(n) == Hit(profile.cache, n, PromptKey(profile, n))
PromptsHold ==
  Planned =>
    /\ \A n \in done \ (failed \cup {"PAIPAN"}) :
         Fresh(n) /\ outputs[n] = profile.cache[n].output
    /\ \A n \in DOMAIN jobs :
         /\ jobs[n].state \in JobStates
         /\ jobs[n].state \in {"prompted", "calling"} => jobs[n].key = PromptKey(profile, n)
         /\ jobs[n].state = "finished" =>
              \/ jobs[n].output = Error
              \/ Fresh(n) /\ jobs[n].output = profile.cache[n].output

\* The loop ends with nothing left, and is answered when nothing failed.
AllDone ==
  /\ turn.phase \in {"response", "write"} => remaining = {}
  /\ turn.phase = "response" => failed = {} /\ outputs["PAIPAN"] # Error

\* As long as the saved profile answers what is asked, nothing is added to it.
NothingNew ==
  /\ turn.phase = "paipan" => profile = disk
  /\ turn.phase = "plan" /\ ~turn.bypass /\ Cached(disk.cache, "PAIPAN") = <<disk.chart>>
       => profile = disk
  /\ turn.phase \in {"top", "wait"} /\ ~turn.bypass /\ Coherent(disk, Requested) =>
       profile = disk /\ \A n \in DOMAIN jobs : jobs[n].state # "calling"

\* Whatever is skipped depends on something that failed.
Explained ==
  \A n \in DOMAIN outputs :
    outputs[n].kind = "skipped" =>
      \E d \in Deps[n] : d \in DOMAIN outputs /\ IsFailure(outputs[d])

TurnInv ==
  Shape /\ Books /\ ChartKnown /\ PromptsHold /\ AllDone /\ NothingNew /\ Explained

-----------------------------------------------------------------------------
(* The graph of the nodes.                                                 *)

\* The table of deps.py, row by row.
LEMMA DepsAre ==
  /\ Deps["PAIPAN"] = {}
  /\ \A n \in {"OVERALL", "SHISHEN", "GEJU_ROUTER"} : Deps[n] = {"PAIPAN"}
  /\ Deps["GEJU_ANALYSIS"] = {"PAIPAN", "GEJU_ROUTER"}
  /\ Deps["GEJU_LEVEL"] = {"PAIPAN", "GEJU_ROUTER", "GEJU_ANALYSIS"}
  /\ Deps["WUXING_PREFS"] = {"PAIPAN", "OVERALL", "SHISHEN"} \cup GejuNodes
  /\ \A n \in AspectNodes : Deps[n] = CommonPrereqs
<1>1. /\ Deps["PAIPAN"] = {}
      /\ \A n \in {"OVERALL", "SHISHEN", "GEJU_ROUTER"} : Deps[n] = {"PAIPAN"}
  BY Zenon DEF Deps, PersistentNodes, CommonPrereqs, AspectNodes
<1>2. Deps["GEJU_ANALYSIS"] = {"PAIPAN", "GEJU_ROUTER"}
  BY Zenon DEF Deps, PersistentNodes, CommonPrereqs, AspectNodes
<1>3. Deps["GEJU_LEVEL"] = {"PAIPAN", "GEJU_ROUTER", "GEJU_ANALYSIS"}
  BY Zenon DEF Deps, PersistentNodes, CommonPrereqs, AspectNodes
<1>4. Deps["WUXING_PREFS"] = {"PAIPAN", "OVERALL", "SHISHEN"} \cup GejuNodes
  BY Zenon DEF Deps, PersistentNodes, CommonPrereqs, AspectNodes
<1>5. \A n \in AspectNodes : Deps[n] = CommonPrereqs
  BY Zenon DEF Deps, PersistentNodes, CommonPrereqs, AspectNodes
<1> QED
  BY <1>1, <1>2, <1>3, <1>4, <1>5

\* A prompt quotes only what its node depends on, and every node depends on
\* common nodes alone.
LEMMA GraphFacts ==
  /\ \A n \in PersistentNodes : Deps[n] \subseteq CommonPrereqs
  /\ \A n \in LlmNodes : PromptReads[n] \subseteq Deps[n]
<1>1. \A n \in PersistentNodes : Deps[n] \subseteq CommonPrereqs
  BY DepsAre DEF PersistentNodes, CommonPrereqs, GejuNodes
<1>2. \A n \in {"OVERALL", "SHISHEN", "GEJU_ROUTER"} : PromptReads[n] = {"PAIPAN"}
  BY Zenon DEF PromptReads, LlmNodes, PersistentNodes, CommonPrereqs, AspectNodes
<1>3. PromptReads["GEJU_ANALYSIS"] = {"PAIPAN", "GEJU_ROUTER"}
  BY Zenon DEF PromptReads, LlmNodes, PersistentNodes, CommonPrereqs, AspectNodes
<1>4. PromptReads["GEJU_LEVEL"] = {"PAIPAN", "GEJU_ROUTER", "GEJU_ANALYSIS"}
  BY Zenon DEF PromptReads, LlmNodes, PersistentNodes, CommonPrereqs, AspectNodes
<1>5. PromptReads["WUXING_PREFS"] = {"PAIPAN", "OVERALL", "SHISHEN"} \cup GejuNodes
  BY Zenon DEF PromptReads, LlmNodes, PersistentNodes, CommonPrereqs, AspectNodes
<1>6. \A n \in AspectNodes :
        PromptReads[n] = {"PAIPAN", "OVERALL", "SHISHEN", "WUXING_PREFS"} \cup GejuNodes
  BY Zenon DEF PromptReads, LlmNodes, PersistentNodes, CommonPrereqs, AspectNodes
<1>7. \A n \in LlmNodes : PromptReads[n] \subseteq Deps[n]
  BY <1>2, <1>3, <1>4, <1>5, <1>6, DepsAre
     DEF LlmNodes, PersistentNodes, CommonPrereqs, GejuNodes
<1> QED
  BY <1>1, <1>7

\* There is no cycle: a set whose every node depends on a node of the set is
\* empty.
LEMMA NoCycle ==
  ASSUME NEW S \in SUBSET PersistentNodes, \A n \in S : Deps[n] \cap S # {}
  PROVE  S = {}
<1>1. "PAIPAN" \notin S
  BY DepsAre
<1>2. "OVERALL" \notin S /\ "SHISHEN" \notin S /\ "GEJU_ROUTER" \notin S
  BY <1>1, DepsAre
<1>3. "GEJU_ANALYSIS" \notin S
  BY <1>1, <1>2, DepsAre
<1>4. "GEJU_LEVEL" \notin S
  BY <1>1, <1>2, <1>3, DepsAre
<1>5. "WUXING_PREFS" \notin S
  BY <1>1, <1>2, <1>3, <1>4, DepsAre DEF GejuNodes
<1>6. \A n \in CommonPrereqs : n \notin S
  BY <1>1, <1>2, <1>3, <1>4, <1>5 DEF CommonPrereqs
<1>7. \A n \in AspectNodes : n \notin S
  BY <1>6, DepsAre, ZenonT(30)
<1> QED
  BY <1>6, <1>7 DEF PersistentNodes

-----------------------------------------------------------------------------
(* Caches and keys.                                                        *)

\* The caches a behaviour can start from are good.
LEMMA CacheFacts ==
  /\ GoodCache(EmptyCache)
  /\ \A chart : GoodCache(LegacyCache(chart))
<1>1. GoodCache(EmptyCache)
  BY DEF GoodCache, EmptyCache
<1>2. ASSUME NEW chart PROVE GoodCache(LegacyCache(chart))
  BY DEF GoodCache, LegacyCache, PersistentNodes, CommonPrereqs
<1> QED
  BY <1>1, <1>2

\* Dropping a failure keeps a cache good.
LEMMA EvictedIsGood ==
  ASSUME NEW cache, GoodCache(cache), NEW n, NEW key
  PROVE  GoodCache(Evicted(cache, n, key))
<1>1. CASE n \in DOMAIN cache /\ cache[n].key = key /\ IsFailure(cache[n].output)
  <2> DEFINE new == [m \in DOMAIN cache \ {n} |-> cache[m]]
  <2>1. Evicted(cache, n, key) = new
    BY <1>1 DEF Evicted
  <2>2. DOMAIN new = DOMAIN cache \ {n} /\ \A m \in DOMAIN new : new[m] = cache[m]
    OBVIOUS
  <2>3. new = [m \in DOMAIN new |-> new[m]]
    OBVIOUS
  <2> HIDE DEF new
  <2> QED
    BY <2>1, <2>2, <2>3 DEF GoodCache
<1>2. CASE ~(n \in DOMAIN cache /\ cache[n].key = key /\ IsFailure(cache[n].output))
  BY <1>2 DEF Evicted
<1> QED
  BY <1>1, <1>2

\* So does adding what a node said.
LEMMA StoredIsGood ==
  ASSUME NEW cache, GoodCache(cache), NEW n \in LlmNodes, NEW key, NEW what, NEW new,
         new = Stored(cache, n, key, Ok(what))
  PROVE  GoodCache(new)
<1>1. /\ DOMAIN new = DOMAIN cache \cup {n}
      /\ new[n] = [key |-> key, output |-> Ok(what)]
      /\ \A m \in DOMAIN cache : m # n => new[m] = cache[m]
      /\ new = [m \in DOMAIN new |-> new[m]]
  BY DEF Stored
<1>2. new[n].key = key /\ new[n].output = Ok(what)
  BY <1>1
<1>3. Ok(what) = Ok(Ok(what).what[1])
  BY DEF Ok
<1>4. \A m \in DOMAIN new \ {"PAIPAN"} : new[m].output = Ok(new[m].output.what[1])
  BY <1>1, <1>2, <1>3 DEF GoodCache
<1> QED
  BY <1>1, <1>2, <1>4 DEF GoodCache, LlmNodes

\* PAIPAN's output is the chart it is kept for.
LEMMA StoredPaipan ==
  ASSUME NEW cache, GoodCache(cache), NEW chart, NEW new,
         new = Stored(cache, "PAIPAN", [chart |-> chart], Ok(chart))
  PROVE  GoodCache(new) /\ "PAIPAN" \in DOMAIN new /\ new["PAIPAN"].output = Ok(chart)
<1> DEFINE key == [chart |-> chart]
<1>1. /\ DOMAIN new = DOMAIN cache \cup {"PAIPAN"}
      /\ new["PAIPAN"] = [key |-> key, output |-> Ok(chart)]
      /\ \A m \in DOMAIN cache : m # "PAIPAN" => new[m] = cache[m]
      /\ new = [m \in DOMAIN new |-> new[m]]
  BY DEF Stored
<1>2. new["PAIPAN"].key = key /\ new["PAIPAN"].output = Ok(chart)
  BY <1>1
<1>3. \A m \in DOMAIN new \ {"PAIPAN"} : new[m].output = Ok(new[m].output.what[1])
  BY <1>1 DEF GoodCache
<1>4. DOMAIN new \subseteq PersistentNodes
  BY <1>1 DEF GoodCache, PersistentNodes, CommonPrereqs
<1> QED
  BY <1>1, <1>2, <1>3, <1>4 DEF GoodCache

\* A chart that is found in a good cache is the chart one looked for.
LEMMA ChartFound ==
  ASSUME NEW cache, GoodCache(cache), NEW chart
  PROVE  /\ Hit(cache, "PAIPAN", [chart |-> chart]) =>
              cache["PAIPAN"].output = Ok(chart)
         /\ Cached(cache, "PAIPAN") = <<chart>> =>
              Hit(cache, "PAIPAN", [chart |-> chart])
<1>1. ASSUME Hit(cache, "PAIPAN", [chart |-> chart])
      PROVE  cache["PAIPAN"].output = Ok(chart)
  <2>1. cache["PAIPAN"].output # Error
    BY <1>1 DEF Hit, IsFailure, Error
  <2>2. cache["PAIPAN"].key.chart = chart
    BY <1>1 DEF Hit
  <2> QED
    BY <1>1, <2>1, <2>2 DEF GoodCache, Hit
<1>2. ASSUME Cached(cache, "PAIPAN") = <<chart>>
      PROVE  Hit(cache, "PAIPAN", [chart |-> chart])
  <2>1. "PAIPAN" \in DOMAIN cache /\ cache["PAIPAN"].output.what = <<chart>>
    BY <1>2 DEF Cached, NoOutput
  <2>2. cache["PAIPAN"].output # Error
    BY <2>1 DEF Error, NoOutput
  <2>3. /\ cache["PAIPAN"].key = [chart |-> cache["PAIPAN"].key.chart]
        /\ cache["PAIPAN"].output = Ok(cache["PAIPAN"].key.chart)
    BY <2>1, <2>2 DEF GoodCache
  <2>4. cache["PAIPAN"].key.chart = chart
    BY <2>1, <2>3 DEF Ok
  <2>5. ~IsFailure(cache["PAIPAN"].output)
    BY <2>3 DEF IsFailure, Ok
  <2> QED
    BY <2>1, <2>3, <2>4, <2>5 DEF Hit
<1> QED
  BY <1>1, <1>2

\* A key depends on the chart, the time context and what the prompt quotes.
LEMMA KeyStays ==
  ASSUME NEW m \in LlmNodes, profile'.chart = profile.chart, turn'.time = turn.time,
         \A d \in PromptReads[m] : Cached(profile'.cache, d) = Cached(profile.cache, d)
  PROVE  PromptKey(profile, m)' = PromptKey(profile, m)
BY DEF PromptKey

\* No key changes when neither the profile nor the time context does.
LEMMA KeysStay ==
  ASSUME profile' = profile, turn'.time = turn.time
  PROVE  \A m : PromptKey(profile, m)' = PromptKey(profile, m) /\ (Fresh(m)' <=> Fresh(m))
BY DEF PromptKey, Fresh, Cached, Hit

-----------------------------------------------------------------------------
(* One lemma per action: before the loop.                                  *)

\* Nothing runs, and a cache holds at most what an earlier release left.
LEMMA InitHolds == Init => TurnInv
<1> SUFFICES ASSUME Init PROVE TurnInv
  OBVIOUS
<1>1. PICK chart, cache : /\ chart \in Charts /\ cache \in {EmptyCache, LegacyCache(chart)}
                            /\ disk = [chart |-> chart, cache |-> cache]
  BY DEF Init
<1>2. GoodCache(cache)
  BY <1>1, CacheFacts
<1>3. /\ turn = NoTurn /\ profile = disk /\ outputs = EmptyCache /\ jobs = EmptyCache
      /\ calls = [n \in LlmNodes |-> 0]
  BY DEF Init
<1>4. NoTurn.time \in TimeContexts
  BY TimesAssumption DEF NoTurn
<1>5. Shape
  BY <1>1, <1>2, <1>3, <1>4 DEF Shape, NoTurn, Phases, EmptyCache
<1>6. turn.phase = "idle"
  BY <1>3 DEF NoTurn
<1> QED
  BY <1>3, <1>5, <1>6 DEF TurnInv, Books, ChartKnown, PromptsHold, AllDone, NothingNew,
                          Explained, Planned, EmptyCache

\* The profile of a turn is saved before it starts, without the nodes of
\* another chart.
LEMMA StartTurnKeeps ==
  ASSUME TurnInv, NEW chart \in Charts, NEW bypass \in BOOLEAN, StartTurn(chart, bypass)
  PROVE  TurnInv'
<1>1. /\ turn.phase = "idle" /\ DOMAIN jobs = {} /\ turn.n \in Nat
      /\ UNCHANGED <<remaining, done, failed, jobs, calls, faults>>
      /\ outputs' = EmptyCache /\ disk' = profile'
      /\ profile' = [chart |-> chart, cache |-> CacheIfSameChart(chart)]
      /\ turn' = [NoTurn EXCEPT !.phase = "paipan", !.bypass = bypass, !.n = turn.n + 1]
  BY DEF StartTurn, TurnInv, Books, Shape
<1>2. GoodCache(CacheIfSameChart(chart))
  BY CacheFacts DEF TurnInv, Shape, CacheIfSameChart
<1>3. PICK t \in TimeContexts :
        NoTurn = [phase |-> "idle", aspects |-> {}, time |-> t, bypass |-> FALSE,
                  n |-> 0, result |-> "none"]
  BY TimesAssumption DEF NoTurn
<1>4. turn' = [phase |-> "paipan", aspects |-> {}, time |-> t, bypass |-> bypass,
               n |-> turn.n + 1, result |-> "none"]
  BY <1>1, <1>3
<1>5. /\ turn' \in [phase: Phases, aspects: SUBSET Aspects, time: TimeContexts,
                    bypass: BOOLEAN, n: Nat, result: {"none", "answer", "error"}]
      /\ turn'.phase = "paipan"
  <2>1. turn.n + 1 \in Nat
    BY <1>1
  <2> QED
    BY <1>4, <2>1, Zenon DEF Phases
<1>6. Shape'
  BY <1>1, <1>2, <1>5 DEF TurnInv, Shape, EmptyCache
<1> QED
  BY <1>1, <1>5, <1>6 DEF TurnInv, Books, ChartKnown, PromptsHold, AllDone, NothingNew,
                          Explained, Planned, EmptyCache

\* PAIPAN is found, computed, or fails.
LEMMA PaipanKeeps ==
  ASSUME TurnInv, EnsurePaipan
  PROVE  TurnInv'
<1> DEFINE key == PaipanKey(profile)
<1> DEFINE old == profile.cache
<1> DEFINE kept == IF turn.bypass THEN old ELSE Evicted(old, "PAIPAN", key)
<1>1. key = [chart |-> profile.chart] /\ GoodCache(old) /\ GoodCache(kept)
  BY EvictedIsGood DEF PaipanKey, TurnInv, Shape
<1>2. PICK output, cache :
        /\ PaipanIs(output, cache) /\ GoodCache(cache)
        /\ \/ output = Error
           \/ /\ output = Ok(profile.chart)
              /\ "PAIPAN" \in DOMAIN cache /\ cache["PAIPAN"].output = output
        /\ ~turn.bypass /\ Hit(old, "PAIPAN", key) => cache = old
  <2>1. CASE ~turn.bypass /\ Hit(old, "PAIPAN", key)
    <3>1. kept = old /\ old["PAIPAN"].output = Ok(profile.chart) /\ "PAIPAN" \in DOMAIN old
      BY <1>1, <2>1, ChartFound DEF Evicted, Hit
    <3>2. PaipanIs(old["PAIPAN"].output, kept)
      BY <2>1 DEF EnsurePaipan
    <3> QED
      BY <1>1, <3>1, <3>2
  <2>2. CASE ~(~turn.bypass /\ Hit(old, "PAIPAN", key))
    <3> DEFINE output == Ok(profile.chart)
    <3> DEFINE new == Stored(kept, "PAIPAN", key, output)
    <3>1. PaipanIs(output, new) \/ PaipanIs(Error, kept)
      BY <2>2 DEF EnsurePaipan
    <3>2. GoodCache(new) /\ "PAIPAN" \in DOMAIN new /\ new["PAIPAN"].output = output
      BY <1>1, StoredPaipan
    <3> HIDE DEF new, output, kept
    <3>4. CASE PaipanIs(output, new)
      BY <2>2, <3>2, <3>4 DEF output
    <3>5. CASE PaipanIs(Error, kept)
      BY <1>1, <2>2, <3>5
    <3> QED
      BY <3>1, <3>4, <3>5
  <2> QED
    BY <2>1, <2>2
<1>3. /\ profile' = [profile EXCEPT !.cache = cache]
      /\ outputs' = [n \in {"PAIPAN"} |-> output]
      /\ turn' = [turn EXCEPT !.phase = "plan"]
      /\ UNCHANGED <<disk, remaining, done, failed, jobs, calls>>
      /\ turn.phase = "paipan"
  BY <1>2 DEF PaipanIs, GoTo, EnsurePaipan
<1>4. /\ profile' = [chart |-> profile.chart, cache |-> cache]
      /\ profile'.chart = profile.chart /\ profile'.cache = cache
  BY <1>3 DEF TurnInv, Shape
<1>5. /\ turn' \in [phase: Phases, aspects: SUBSET Aspects, time: TimeContexts,
                    bypass: BOOLEAN, n: Nat, result: {"none", "answer", "error"}]
      /\ turn'.phase = "plan" /\ turn'.bypass = turn.bypass
  BY <1>3 DEF TurnInv, Shape, Phases
<1>6. outputs'["PAIPAN"] = output /\ DOMAIN outputs' = {"PAIPAN"}
  BY <1>3
<1>7. Shape'
  BY <1>2, <1>3, <1>4, <1>5, <1>6 DEF TurnInv, Shape
<1>8. Books' /\ ChartKnown'
  BY <1>2, <1>3, <1>4, <1>5, <1>6 DEF TurnInv, Books, ChartKnown, Planned
<1>9. NothingNew'
  <2>1. profile = disk
    BY <1>3 DEF TurnInv, NothingNew
  <2>2. ASSUME ~turn.bypass, Cached(disk.cache, "PAIPAN") = <<disk.chart>>
        PROVE  profile' = disk
    <3>1. Hit(old, "PAIPAN", key)
      BY <1>1, <2>1, <2>2, ChartFound
    <3>2. cache = old
      BY <1>2, <2>2, <3>1
    <3> QED
      BY <1>4, <2>1, <3>2 DEF TurnInv, Shape
  <2> QED
    BY <1>3, <1>5, <2>2 DEF NothingNew
<1>10. Explained'
  BY <1>2, <1>6 DEF Explained, Ok, Error
<1> QED
  BY <1>5, <1>7, <1>8, <1>9, <1>10 DEF TurnInv, PromptsHold, AllDone, Planned

\* The plan: every common node, and what the question is about.
LEMMA PlanKeeps ==
  ASSUME TurnInv, NEW aspects \in SUBSET Aspects, NEW time \in TimeContexts,
         RunPlanner(aspects, time)
  PROVE  TurnInv'
<1>1. /\ turn.phase = "plan" /\ DOMAIN jobs = {} /\ DOMAIN outputs = {"PAIPAN"}
      /\ turn' = [turn EXCEPT !.phase = "top", !.aspects = aspects, !.time = time]
      /\ remaining' = CommonPrereqs \cup aspects
      /\ done' = {} /\ failed' = {} /\ jobs' = EmptyCache
      /\ UNCHANGED <<disk, profile, outputs, calls>>
  BY DEF RunPlanner, TurnInv, Books
<1>2. /\ turn' \in [phase: Phases, aspects: SUBSET Aspects, time: TimeContexts,
                    bypass: BOOLEAN, n: Nat, result: {"none", "answer", "error"}]
      /\ turn'.phase = "top" /\ turn'.aspects = aspects /\ turn'.bypass = turn.bypass
  BY <1>1 DEF TurnInv, Shape, Phases
<1>3. DOMAIN jobs' = {} /\ Requested' = remaining'
  BY <1>1, <1>2 DEF EmptyCache, Requested
<1>4. Shape'
  BY <1>1, <1>2 DEF TurnInv, Shape, EmptyCache
<1>5. Books'
  BY <1>1, <1>2, <1>3 DEF TurnInv, Books, Planned
<1>6. ChartKnown'
  BY <1>1, <1>2 DEF TurnInv, ChartKnown
<1>7. NothingNew'
  BY <1>1, <1>2, <1>3 DEF TurnInv, NothingNew, Coherent
<1>8. Explained'
  BY <1>1 DEF TurnInv, Explained
<1> QED
  BY <1>1, <1>2, <1>3, <1>4, <1>5, <1>6, <1>7, <1>8
     DEF TurnInv, PromptsHold, AllDone, Planned

-----------------------------------------------------------------------------
(* One lemma per action: the loop.                                         *)

\* What the records of the turn become when only its phase changes.
LEMMA PhaseMoves ==
  ASSUME Shape, NEW phase \in Phases, GoTo(phase)
  PROVE  /\ turn' \in [phase: Phases, aspects: SUBSET Aspects, time: TimeContexts,
                       bypass: BOOLEAN, n: Nat, result: {"none", "answer", "error"}]
         /\ turn'.phase = phase /\ turn'.aspects = turn.aspects /\ turn'.time = turn.time
         /\ turn'.bypass = turn.bypass
BY DEF Shape, GoTo

\* Every node the loop knows is one of the graph.
LEMMA NodesKnown ==
  ASSUME TurnInv, Planned
  PROVE  /\ remaining \cup done \cup DOMAIN jobs = Requested
         /\ CommonPrereqs \subseteq Requested /\ Requested \subseteq PersistentNodes
         /\ DOMAIN jobs \subseteq LlmNodes /\ failed \subseteq LlmNodes
<1>1. turn.aspects \subseteq AspectNodes
  BY AspectsAssumption DEF TurnInv, Shape
<1>2. CommonPrereqs \subseteq Requested /\ Requested \subseteq PersistentNodes
  BY <1>1 DEF Requested, PersistentNodes
<1> QED
  BY <1>2 DEF TurnInv, Books, LlmNodes

\* What is ready is skipped, submitted or, for PAIPAN, done.
LEMMA ScheduleKeeps ==
  ASSUME TurnInv, Schedule
  PROVE  TurnInv'
<1> DEFINE skipped == {n \in Ready : Deps[n] \cap failed # {}}
           submitted == (Ready \ skipped) \ {"PAIPAN"}
<1>1. /\ turn.phase = "top" /\ Planned
      /\ remaining' = remaining \ Ready
      /\ done' = done \cup skipped \cup (Ready \cap {"PAIPAN"})
      /\ failed' = failed \cup skipped
      /\ outputs' = [n \in DOMAIN outputs \cup skipped |->
                       IF n \in skipped THEN Skipped ELSE outputs[n]]
      /\ jobs' = [n \in DOMAIN jobs \cup submitted |->
                    IF n \in submitted THEN [state |-> "queued"] ELSE jobs[n]]
      /\ UNCHANGED <<disk, profile, calls>>
  BY DEF Schedule, Planned
<1>2. PICK phase \in {"top", "wait"} : GoTo(phase)
  BY DEF Schedule
<1>3. /\ turn' \in [phase: Phases, aspects: SUBSET Aspects, time: TimeContexts,
                    bypass: BOOLEAN, n: Nat, result: {"none", "answer", "error"}]
      /\ turn'.phase \in {"top", "wait"} /\ turn'.aspects = turn.aspects
      /\ turn'.time = turn.time /\ turn'.bypass = turn.bypass
  BY <1>2, PhaseMoves DEF TurnInv, Phases
<1>4. "PAIPAN" \notin skipped
  BY DepsAre
<1>5. Ready \subseteq remaining /\ \A n \in Ready : Deps[n] \subseteq done
  BY DEF Ready
<1>6. /\ DOMAIN outputs' = DOMAIN outputs \cup skipped
      /\ \A n \in skipped : outputs'[n] = Skipped
      /\ \A n \in DOMAIN outputs \ skipped : outputs'[n] = outputs[n]
      /\ outputs' = [n \in DOMAIN outputs' |-> outputs'[n]]
  BY <1>1
<1>7. /\ DOMAIN jobs' = DOMAIN jobs \cup submitted
      /\ \A n \in submitted : jobs'[n] = [state |-> "queued"]
      /\ \A n \in DOMAIN jobs \ submitted : jobs'[n] = jobs[n]
      /\ jobs' = [n \in DOMAIN jobs' |-> jobs'[n]]
  BY <1>1
<1>8. /\ Requested' = Requested
      /\ \A m : PromptKey(profile, m)' = PromptKey(profile, m) /\ (Fresh(m)' <=> Fresh(m))
  BY <1>1, <1>3, KeysStay DEF Requested
<1>9. /\ Requested = remaining \cup done \cup DOMAIN jobs
      /\ remaining \cap done = {}
      /\ DOMAIN jobs \cap (remaining \cup done \cup {"PAIPAN"}) = {}
      /\ failed \subseteq done \ {"PAIPAN"}
      /\ DOMAIN outputs = done \cup {"PAIPAN"}
      /\ \A n \in done \cup DOMAIN jobs : Deps[n] \subseteq done
      /\ \A n \in DOMAIN jobs : Deps[n] \cap failed = {}
      /\ \A n \in failed : outputs[n] = Error \/ (outputs[n] = Skipped /\ Deps[n] \cap failed # {})
  BY <1>1 DEF TurnInv, Books
<1>10. \A n \in Ready \ skipped : Deps[n] \cap failed = {}
  OBVIOUS
<1>11. \A n \in skipped : Deps[n] \cap failed # {}
  OBVIOUS
<1>12. Ready = skipped \cup submitted \cup (Ready \cap {"PAIPAN"})
  BY <1>4
<1>13. skipped \cap submitted = {} /\ "PAIPAN" \notin submitted /\ skipped \subseteq Ready
       /\ submitted \subseteq Ready \ skipped
  OBVIOUS
<1> HIDE DEF skipped, submitted
<1>14. Shape'
  BY <1>1, <1>3, <1>6, <1>7 DEF TurnInv, Shape
<1>15. Books'
  <2>1. Requested' = remaining' \cup done' \cup DOMAIN jobs'
    BY <1>1, <1>5, <1>7, <1>8, <1>9, <1>12
  <2>2. /\ remaining' \cap done' = {}
        /\ DOMAIN jobs' \cap (remaining' \cup done' \cup {"PAIPAN"}) = {}
    BY <1>1, <1>5, <1>7, <1>9, <1>13
  <2>3. failed' \subseteq done' \ {"PAIPAN"} /\ DOMAIN outputs' = done' \cup {"PAIPAN"}
    BY <1>1, <1>4, <1>6, <1>9
  <2>4. \A n \in done' \cup DOMAIN jobs' : Deps[n] \subseteq done'
    BY <1>1, <1>5, <1>7, <1>9, <1>13
  <2>5. \A n \in DOMAIN jobs' : Deps[n] \cap failed' = {}
    <3>1. \A n \in DOMAIN jobs' : Deps[n] \cap failed = {} /\ Deps[n] \subseteq done
      BY <1>5, <1>7, <1>9, <1>10, <1>13
    <3>2. skipped \cap done = {}
      BY <1>5, <1>9, <1>13
    <3> QED
      BY <1>1, <3>1, <3>2
  <2>6. \A n \in failed' :
          outputs'[n] = Error \/ (outputs'[n] = Skipped /\ Deps[n] \cap failed' # {})
    <3>1. \A n \in failed : n \in DOMAIN outputs \ skipped
      BY <1>5, <1>9, <1>13
    <3> QED
      BY <1>1, <1>6, <1>9, <1>11, <3>1
  <2> QED
    BY <1>3, <2>1, <2>2, <2>3, <2>4, <2>5, <2>6 DEF Books
<1>16. ChartKnown'
  BY <1>1, <1>3, <1>4, <1>6 DEF TurnInv, ChartKnown
<1>17. PromptsHold'
  <2>1. \A n \in done' \ (failed' \cup {"PAIPAN"}) :
          n \in done \ (failed \cup {"PAIPAN"}) /\ outputs'[n] = outputs[n]
    BY <1>1, <1>6, <1>9
  <2>2. \A n \in done' \ (failed' \cup {"PAIPAN"}) :
          Fresh(n)' /\ outputs'[n] = profile'.cache[n].output
    BY <1>1, <1>8, <2>1 DEF TurnInv, PromptsHold
  <2>3. ASSUME NEW n \in DOMAIN jobs'
        PROVE  /\ jobs'[n].state \in JobStates
               /\ jobs'[n].state \in {"prompted", "calling"} =>
                    jobs'[n].key = PromptKey(profile, n)'
               /\ jobs'[n].state = "finished" =>
                    \/ jobs'[n].output = Error
                    \/ Fresh(n)' /\ jobs'[n].output = profile'.cache[n].output
    <3>1. CASE n \in submitted
      <4>1. jobs'[n].state = "queued"
        BY <1>7, <3>1
      <4> QED
        BY <4>1 DEF JobStates
    <3>2. CASE n \notin submitted
      <4>1. n \in DOMAIN jobs /\ jobs'[n] = jobs[n]
        BY <1>7, <2>3, <3>2
      <4> QED
        BY <1>1, <1>8, <4>1 DEF TurnInv, PromptsHold
    <3> QED
      BY <3>1, <3>2
  <2> QED
    BY <2>2, <2>3 DEF PromptsHold
<1>18. NothingNew'
  <2>1. ASSUME ~turn.bypass, Coherent(disk, Requested)'
        PROVE  profile' = disk' /\ \A n \in DOMAIN jobs' : jobs'[n].state # "calling"
    <3>1. Coherent(disk, Requested)
      BY <1>1, <1>3, <1>8, <2>1 DEF Coherent, PromptKey
    <3>2. profile = disk /\ \A n \in DOMAIN jobs : jobs[n].state # "calling"
      BY <1>1, <2>1, <3>1 DEF TurnInv, NothingNew
    <3> QED
      BY <1>1, <1>7, <3>2
  <2> QED
    BY <1>3, <2>1 DEF NothingNew
<1>19. Explained'
  <2>1. ASSUME NEW n \in DOMAIN outputs', outputs'[n].kind = "skipped"
        PROVE  \E d \in Deps[n] : d \in DOMAIN outputs' /\ IsFailure(outputs'[d])
    <3>1. \A d \in DOMAIN outputs : IsFailure(outputs[d]) => IsFailure(outputs'[d])
      BY <1>6 DEF IsFailure, Skipped
    <3>2. CASE n \in skipped
      <4>1. PICK d \in Deps[n] : d \in failed
        BY <1>11, <3>2
      <4>2. d \in DOMAIN outputs /\ IsFailure(outputs[d])
        BY <1>9, <4>1 DEF IsFailure, Error, Skipped
      <4> QED
        BY <1>6, <3>1, <4>1, <4>2
    <3>3. CASE n \notin skipped
      <4>1. n \in DOMAIN outputs /\ outputs[n].kind = "skipped"
        BY <1>6, <2>1, <3>3
      <4>2. PICK d \in Deps[n] : d \in DOMAIN outputs /\ IsFailure(outputs[d])
        BY <4>1 DEF TurnInv, Explained
      <4> QED
        BY <1>6, <3>1, <4>2
    <3> QED
      BY <3>2, <3>3
  <2> QED
    BY <2>1 DEF Explained
<1> QED
  BY <1>3, <1>14, <1>15, <1>16, <1>17, <1>18, <1>19 DEF TurnInv, AllDone

\* wait() hands over jobs that ended: good ones are fresh, the others failed.
LEMMA CollectKeeps ==
  ASSUME TurnInv, NEW completed \in SUBSET FinishedJobs, Collect(completed)
  PROVE  TurnInv'
<1>1. /\ turn.phase = "wait" /\ Planned
      /\ done' = done \cup completed
      /\ failed' = failed \cup {n \in completed : IsFailure(jobs[n].output)}
      /\ outputs' = [n \in DOMAIN outputs \cup completed |->
                       IF n \in completed THEN jobs[n].output ELSE outputs[n]]
      /\ jobs' = [n \in DOMAIN jobs \ completed |-> jobs[n]]
      /\ GoTo("top")
      /\ UNCHANGED <<disk, profile, remaining, calls>>
  BY DEF Collect, Planned
<1>2. /\ turn' \in [phase: Phases, aspects: SUBSET Aspects, time: TimeContexts,
                    bypass: BOOLEAN, n: Nat, result: {"none", "answer", "error"}]
      /\ turn'.phase = "top" /\ turn'.aspects = turn.aspects
      /\ turn'.time = turn.time /\ turn'.bypass = turn.bypass
  BY <1>1, PhaseMoves DEF TurnInv, Phases
<1>3. completed \subseteq DOMAIN jobs /\ \A n \in completed : jobs[n].state = "finished"
  BY DEF FinishedJobs
<1>4. /\ DOMAIN outputs' = DOMAIN outputs \cup completed
      /\ \A n \in completed : outputs'[n] = jobs[n].output
      /\ \A n \in DOMAIN outputs \ completed : outputs'[n] = outputs[n]
      /\ outputs' = [n \in DOMAIN outputs' |-> outputs'[n]]
  BY <1>1
<1>5. /\ DOMAIN jobs' = DOMAIN jobs \ completed
      /\ \A n \in DOMAIN jobs' : jobs'[n] = jobs[n]
      /\ jobs' = [n \in DOMAIN jobs' |-> jobs'[n]]
  BY <1>1
<1>6. /\ Requested' = Requested
      /\ \A m : PromptKey(profile, m)' = PromptKey(profile, m) /\ (Fresh(m)' <=> Fresh(m))
  BY <1>1, <1>2, KeysStay DEF Requested
<1>7. /\ Requested = remaining \cup done \cup DOMAIN jobs
      /\ remaining \cap done = {}
      /\ DOMAIN jobs \cap (remaining \cup done \cup {"PAIPAN"}) = {}
      /\ failed \subseteq done \ {"PAIPAN"}
      /\ DOMAIN outputs = done \cup {"PAIPAN"}
      /\ \A n \in done \cup DOMAIN jobs : Deps[n] \subseteq done
      /\ \A n \in DOMAIN jobs : Deps[n] \cap failed = {}
      /\ \A n \in failed : outputs[n] = Error \/ (outputs[n] = Skipped /\ Deps[n] \cap failed # {})
  BY <1>1 DEF TurnInv, Books
<1>8. \A n \in completed :
        \/ jobs[n].output = Error
        \/ Fresh(n) /\ jobs[n].output = profile.cache[n].output /\ ~IsFailure(jobs[n].output)
  <2>1. ASSUME NEW n \in completed, jobs[n].output # Error
        PROVE  Fresh(n) /\ jobs[n].output = profile.cache[n].output /\ ~IsFailure(jobs[n].output)
    <3>1. Fresh(n) /\ jobs[n].output = profile.cache[n].output
      BY <1>1, <1>3, <2>1 DEF TurnInv, PromptsHold
    <3> QED
      BY <3>1 DEF Fresh, Hit
  <2> QED
    BY <2>1
<1>9. Shape'
  BY <1>1, <1>2, <1>4, <1>5 DEF TurnInv, Shape
<1>10. Books'
  <2>1. Requested' = remaining' \cup done' \cup DOMAIN jobs'
    BY <1>1, <1>3, <1>5, <1>6, <1>7
  <2>2. /\ remaining' \cap done' = {}
        /\ DOMAIN jobs' \cap (remaining' \cup done' \cup {"PAIPAN"}) = {}
    BY <1>1, <1>3, <1>5, <1>7
  <2>3. failed' \subseteq done' \ {"PAIPAN"} /\ DOMAIN outputs' = done' \cup {"PAIPAN"}
    BY <1>1, <1>3, <1>4, <1>7
  <2>4. \A n \in done' \cup DOMAIN jobs' : Deps[n] \subseteq done'
    BY <1>1, <1>3, <1>5, <1>7
  <2>5. \A n \in DOMAIN jobs' : Deps[n] \cap failed' = {}
    <3>1. \A n \in DOMAIN jobs' : Deps[n] \cap failed = {} /\ Deps[n] \subseteq done
      BY <1>5, <1>7
    <3>2. completed \cap done = {}
      BY <1>3, <1>7
    <3> QED
      BY <1>1, <3>1, <3>2
  <2>6. \A n \in failed' :
          outputs'[n] = Error \/ (outputs'[n] = Skipped /\ Deps[n] \cap failed' # {})
    <3>1. \A n \in failed : n \in DOMAIN outputs \ completed
      BY <1>3, <1>7
    <3>2. \A n \in completed : IsFailure(jobs[n].output) => outputs'[n] = Error
      BY <1>4, <1>8
    <3> QED
      BY <1>1, <1>4, <1>7, <3>1, <3>2
  <2> QED
    BY <1>2, <2>1, <2>2, <2>3, <2>4, <2>5, <2>6 DEF Books
<1>11. "PAIPAN" \notin completed
  BY <1>3, <1>7
<1>12. ChartKnown'
  BY <1>1, <1>2, <1>4, <1>11 DEF TurnInv, ChartKnown
<1>13. PromptsHold'
  <2>1. ASSUME NEW n \in done' \ (failed' \cup {"PAIPAN"})
        PROVE  Fresh(n)' /\ outputs'[n] = profile'.cache[n].output
    <3>1. CASE n \in completed
      <4>1. jobs[n].output # Error
        BY <1>1, <2>1, <3>1 DEF IsFailure, Error
      <4> QED
        BY <1>1, <1>4, <1>6, <1>8, <3>1, <4>1
    <3>2. CASE n \notin completed
      <4>1. n \in done \ (failed \cup {"PAIPAN"}) /\ outputs'[n] = outputs[n]
        BY <1>1, <1>4, <1>7, <2>1, <3>2
      <4> QED
        BY <1>1, <1>6, <4>1 DEF TurnInv, PromptsHold
    <3> QED
      BY <3>1, <3>2
  <2>2. \A n \in DOMAIN jobs' : n \in DOMAIN jobs /\ jobs'[n] = jobs[n]
    BY <1>5
  <2> QED
    BY <1>1, <1>6, <2>1, <2>2, ZenonT(30) DEF TurnInv, PromptsHold
<1>14. NothingNew'
  <2>1. ASSUME ~turn.bypass, Coherent(disk, Requested)'
        PROVE  profile' = disk' /\ \A n \in DOMAIN jobs' : jobs'[n].state # "calling"
    <3>1. Coherent(disk, Requested)
      BY <1>1, <1>2, <1>6, <2>1 DEF Coherent, PromptKey
    <3>2. profile = disk /\ \A n \in DOMAIN jobs : jobs[n].state # "calling"
      BY <1>1, <2>1, <3>1 DEF TurnInv, NothingNew
    <3> QED
      BY <1>1, <1>5, <3>2
  <2> QED
    BY <1>2, <2>1 DEF NothingNew
<1>15. Explained'
  <2>1. ASSUME NEW n \in DOMAIN outputs', outputs'[n].kind = "skipped"
        PROVE  \E d \in Deps[n] : d \in DOMAIN outputs' /\ IsFailure(outputs'[d])
    <3>1. n \notin completed
      BY <1>4, <1>8, <2>1 DEF IsFailure, Error
    <3>2. n \in DOMAIN outputs /\ outputs[n].kind = "skipped"
      BY <1>4, <2>1, <3>1
    <3>3. PICK d \in Deps[n] : d \in DOMAIN outputs /\ IsFailure(outputs[d])
      BY <3>2 DEF TurnInv, Explained
    <3>4. d \notin completed
      BY <1>3, <1>7, <3>3
    <3> QED
      BY <1>4, <3>3, <3>4
  <2> QED
    BY <2>1 DEF Explained
<1> QED
  BY <1>2, <1>9, <1>10, <1>12, <1>13, <1>14, <1>15 DEF TurnInv, AllDone

\* A job takes a step of its own and nothing else changes.
LEMMA JobMoves ==
  ASSUME TurnInv, NEW n \in DOMAIN jobs, NEW job, Becomes(n, job),
         UNCHANGED <<others, profile, calls>>, job.state \in JobStates,
         job.state \in {"prompted", "calling"} => job.key = PromptKey(profile, n),
         job.state = "finished" =>
           job.output = Error \/ (Fresh(n) /\ job.output = profile.cache[n].output),
         job.state = "calling" => turn.bypass \/ ~Coherent(disk, Requested)
  PROVE  TurnInv'
<1>1. UNCHANGED <<disk, turn, remaining, done, failed, outputs, profile, calls>>
  BY DEF others
<1>2. /\ jobs' = [jobs EXCEPT ![n] = job] /\ DOMAIN jobs' = DOMAIN jobs
      /\ jobs'[n] = job /\ \A m \in DOMAIN jobs \ {n} : jobs'[m] = jobs[m]
      /\ jobs' = [m \in DOMAIN jobs' |-> jobs'[m]]
  BY DEF Becomes, TurnInv, Shape
<1>3. /\ Requested' = Requested
      /\ \A m : PromptKey(profile, m)' = PromptKey(profile, m) /\ (Fresh(m)' <=> Fresh(m))
  BY <1>1, KeysStay DEF Requested
<1>4. Shape'
  BY <1>1, <1>2 DEF TurnInv, Shape
<1>5. Books'
  BY <1>1, <1>2, <1>3 DEF TurnInv, Books, Planned
<1>6. ChartKnown' /\ AllDone' /\ Explained'
  BY <1>1 DEF TurnInv, ChartKnown, AllDone, Explained
<1>7. PromptsHold'
  <2>1. Planned' <=> Planned
    BY <1>1 DEF Planned
  <2> QED
    BY <1>1, <1>2, <1>3, <2>1 DEF TurnInv, PromptsHold
<1>8. NothingNew'
  <2>1. Coherent(disk, Requested)' <=> Coherent(disk, Requested)
    BY <1>1, <1>3 DEF Coherent, PromptKey
  <2> QED
    BY <1>1, <1>2, <2>1 DEF TurnInv, NothingNew
<1> QED
  BY <1>4, <1>5, <1>6, <1>7, <1>8 DEF TurnInv

\* While a job exists the loop runs, and its node is neither done nor PAIPAN.
LEMMA JobFacts ==
  ASSUME TurnInv, NEW n \in DOMAIN jobs
  PROVE  /\ Planned /\ turn.phase \in {"top", "wait"}
         /\ n \in LlmNodes /\ n \in Requested \ {"PAIPAN"} /\ n \notin done
         /\ Deps[n] \subseteq done \ failed
         /\ \A m \in done \cup DOMAIN jobs : Deps[m] \subseteq done
<1>1. turn.phase \in {"top", "wait"}
  BY DEF TurnInv, Books
<1>2. Planned
  BY <1>1 DEF Planned
<1> QED
  BY <1>1, <1>2, NodesKnown DEF TurnInv, Books

\* The prompt is rendered, or its rendering fails.
LEMMA BuildPromptKeeps ==
  ASSUME TurnInv, NEW n \in LlmNodes, BuildPrompt(n)
  PROVE  TurnInv'
<1>1. n \in DOMAIN jobs /\ UNCHANGED <<others, profile, calls>>
  BY DEF BuildPrompt, Job
<1>2. CASE Becomes(n, [state |-> "prompted", key |-> PromptKey(profile, n)])
  <2> DEFINE job == [state |-> "prompted", key |-> PromptKey(profile, n)]
  <2>1. job.state = "prompted" /\ job.key = PromptKey(profile, n) /\ job.state \in JobStates
    BY DEF JobStates
  <2>2. Becomes(n, job)
    BY <1>2
  <2> HIDE DEF job
  <2> QED
    BY <1>1, <2>1, <2>2, JobMoves
<1>3. CASE Becomes(n, Finished(Error))
  <2>1. /\ Finished(Error).state = "finished" /\ Finished(Error).output = Error
        /\ Finished(Error).state \in JobStates
    BY DEF Finished, JobStates
  <2> QED
    BY <1>1, <1>3, <2>1, JobMoves
<1> QED
  BY <1>2, <1>3 DEF BuildPrompt

\* An entry that was written for this very prompt, or the model.
LEMMA LookupKeeps ==
  ASSUME TurnInv, NEW n \in LlmNodes, Lookup(n)
  PROVE  TurnInv'
<1> DEFINE key == jobs[n].key
           found == ~turn.bypass /\ LookupHit(profile.cache, n, key)
<1>1. /\ n \in DOMAIN jobs /\ jobs[n].state = "prompted"
      /\ UNCHANGED <<others, profile, calls>>
  BY DEF Lookup, Job
<1>2. /\ turn.phase \in {"top", "wait"} /\ n \in Requested \ {"PAIPAN"}
      /\ key = PromptKey(profile, n)
  BY <1>1, JobFacts DEF TurnInv, PromptsHold
<1>3. found => Fresh(n)
  BY <1>2 DEF LookupHit, Fresh
<1>4. ~found => turn.bypass \/ ~Coherent(disk, Requested)
  <2>1. ASSUME ~turn.bypass, Coherent(disk, Requested)
        PROVE  Hit(profile.cache, n, key)
    <3>1. profile = disk
      BY <1>2, <2>1 DEF TurnInv, NothingNew
    <3>2. Coherent(profile, Requested)
      BY <2>1, <3>1 DEF Coherent
    <3> QED
      BY <1>2, <3>2 DEF Coherent
  <2> QED
    BY <2>1 DEF LookupHit
<1>5. CASE found
  <2> DEFINE job == Finished(profile.cache[n].output)
  <2>1. /\ job.state = "finished" /\ job.output = profile.cache[n].output
        /\ job.state \in JobStates
    BY DEF Finished, JobStates
  <2>2. Becomes(n, job)
    BY <1>5 DEF Lookup
  <2> HIDE DEF job
  <2> QED
    BY <1>1, <1>3, <1>5, <2>1, <2>2, JobMoves
<1>6. CASE ~found
  <2> DEFINE job == [state |-> "calling", key |-> key]
  <2>1. job.state = "calling" /\ job.key = key /\ job.state \in JobStates
    BY DEF JobStates
  <2>2. Becomes(n, job)
    BY <1>6 DEF Lookup
  <2> HIDE DEF job
  <2> QED
    BY <1>1, <1>2, <1>4, <1>6, <2>1, <2>2, JobMoves
<1> QED
  BY <1>5, <1>6

\* The model failed: nothing is kept.
LEMMA ModelFailsKeeps ==
  ASSUME TurnInv, NEW n \in LlmNodes, ModelFails(n)
  PROVE  TurnInv'
<1>1. /\ n \in DOMAIN jobs /\ UNCHANGED <<others, profile, calls>>
      /\ Becomes(n, Finished(Error))
  BY DEF ModelFails, Job
<1>2. /\ Finished(Error).state = "finished" /\ Finished(Error).output = Error
      /\ Finished(Error).state \in JobStates
  BY DEF Finished, JobStates
<1> QED
  BY <1>1, <1>2, JobMoves

\* An answer goes to the entry of its node, which nobody has quoted yet: who
\* quotes it depends on it, and is not submitted before it is done.
LEMMA AnsweredKeeps ==
  ASSUME TurnInv, NEW n \in LlmNodes, Answered(n)
  PROVE  /\ TurnInv'
         /\ ~turn.bypass => ~Coherent(disk, Requested)
         /\ \A m \in LlmNodes : m # n => calls'[m] = calls[m]
<1> DEFINE output == Ok(calls[n] + 1)
<1>1. /\ n \in DOMAIN jobs /\ jobs[n].state = "calling"
      /\ profile' = [profile EXCEPT !.cache = Stored(@, n, jobs[n].key, output)]
      /\ Becomes(n, Finished(output))
      /\ calls' = [calls EXCEPT ![n] = @ + 1]
      /\ UNCHANGED <<disk, turn, remaining, done, failed, outputs>>
  BY DEF Answered, Job, others
<1>2. /\ Planned /\ turn.phase \in {"top", "wait"} /\ n # "PAIPAN" /\ n \notin done
      /\ \A m \in done \cup DOMAIN jobs : Deps[m] \subseteq done
  BY <1>1, JobFacts
<1>3. jobs[n].key = PromptKey(profile, n)
  BY <1>1, <1>2 DEF TurnInv, PromptsHold
<1>4. output = Ok(output.what[1]) /\ ~IsFailure(output)
  BY DEF Ok, IsFailure
<1> HIDE DEF output
<1> DEFINE cache == Stored(profile.cache, n, jobs[n].key, output)
<1>5. /\ profile' = [chart |-> profile.chart, cache |-> cache]
      /\ profile'.chart = profile.chart /\ profile'.cache = cache
  BY <1>1 DEF TurnInv, Shape
<1>6. GoodCache(profile.cache)
  BY DEF TurnInv, Shape
<1> HIDE DEF cache
<1>7. /\ GoodCache(cache) /\ DOMAIN cache = DOMAIN profile.cache \cup {n}
      /\ cache[n].key = jobs[n].key /\ cache[n].output = output
      /\ \A m \in DOMAIN profile.cache : m # n => cache[m] = profile.cache[m]
  <2>1. PICK old, key, what :
          old = profile.cache /\ key = jobs[n].key /\ what = calls[n] + 1
    OBVIOUS
  <2>2. cache = Stored(old, n, key, Ok(what)) /\ output = Ok(what)
    BY <2>1 DEF cache, output
  <2>3. GoodCache(old)
    BY <1>6, <2>1
  <2>4. /\ GoodCache(cache) /\ DOMAIN cache = DOMAIN old \cup {n}
        /\ cache[n].key = key /\ cache[n].output = Ok(what)
        /\ \A m \in DOMAIN old : m # n => cache[m] = old[m]
    <3>1. GoodCache(cache)
      BY <2>2, <2>3, StoredIsGood
    <3>2. /\ DOMAIN cache = DOMAIN old \cup {n}
          /\ cache[n] = [key |-> key, output |-> Ok(what)]
          /\ \A m \in DOMAIN old : m # n => cache[m] = old[m]
      BY <2>2 DEF Stored
    <3> QED
      BY <3>1, <3>2
  <2> QED
    BY <2>1, <2>2, <2>4
<1>8. \A d : d # n => Cached(cache, d) = Cached(profile.cache, d)
  BY <1>7 DEF Cached
<1>9. ASSUME NEW m \in (done \cup DOMAIN jobs) \ {"PAIPAN"}
      PROVE  PromptKey(profile, m)' = PromptKey(profile, m)
  <2>1. m \in LlmNodes
    BY <1>2, NodesKnown DEF LlmNodes
  <2>2. n \notin PromptReads[m]
    BY <1>2, <2>1, GraphFacts
  <2> QED
    BY <1>1, <1>5, <1>8, <2>1, <2>2, KeyStays
<1>10. \A m \in (done \cup DOMAIN jobs) \ {"PAIPAN", n} :
         /\ Fresh(m) => Fresh(m)'
         /\ m \in DOMAIN profile.cache => profile'.cache[m] = profile.cache[m]
  BY <1>5, <1>7, <1>9 DEF Fresh, Hit
<1>11. Fresh(n)' /\ profile'.cache[n].output = output
  <2>1. PromptKey(profile, n)' = PromptKey(profile, n)
    BY <1>1, <1>2, <1>9
  <2> QED
    BY <1>3, <1>4, <1>5, <1>7, <2>1 DEF Fresh, Hit
<1>12. /\ jobs' = [jobs EXCEPT ![n] = Finished(output)] /\ DOMAIN jobs' = DOMAIN jobs
       /\ jobs'[n] = Finished(output) /\ \A m \in DOMAIN jobs \ {n} : jobs'[m] = jobs[m]
       /\ jobs' = [m \in DOMAIN jobs' |-> jobs'[m]]
  BY <1>1 DEF Becomes, TurnInv, Shape
<1>13. calls' \in [LlmNodes -> Nat] /\ \A m \in LlmNodes : m # n => calls'[m] = calls[m]
  BY <1>1 DEF TurnInv, Shape
<1>14. Requested' = Requested /\ (Planned' <=> Planned)
  BY <1>1 DEF Requested, Planned
<1>15. Shape'
  <2>1. /\ profile' = [chart |-> profile'.chart, cache |-> profile'.cache]
        /\ GoodCache(profile'.cache)
    BY <1>5, <1>7
  <2> QED
    BY <1>1, <1>12, <1>13, <2>1 DEF TurnInv, Shape
<1>16. Books'
  BY <1>1, <1>12, <1>14 DEF TurnInv, Books
<1>17. ChartKnown'
  <2>1. "PAIPAN" \in DOMAIN profile.cache =>
          "PAIPAN" \in DOMAIN profile'.cache /\ profile'.cache["PAIPAN"] = profile.cache["PAIPAN"]
    BY <1>2, <1>5, <1>7
  <2> QED
    BY <1>1, <1>5, <2>1 DEF TurnInv, ChartKnown
<1>18. PromptsHold'
  <2>1. ASSUME NEW m \in done \ (failed \cup {"PAIPAN"})
        PROVE  Fresh(m)' /\ outputs[m] = profile'.cache[m].output
    <3>1. m # n /\ Fresh(m) /\ outputs[m] = profile.cache[m].output
      BY <1>2 DEF TurnInv, PromptsHold
    <3>2. m \in DOMAIN profile.cache
      BY <3>1 DEF Fresh, Hit
    <3> QED
      BY <1>10, <3>1, <3>2
  <2>2. ASSUME NEW m \in DOMAIN jobs
        PROVE  /\ jobs'[m].state \in JobStates
               /\ jobs'[m].state \in {"prompted", "calling"} =>
                    jobs'[m].key = PromptKey(profile, m)'
               /\ jobs'[m].state = "finished" =>
                    \/ jobs'[m].output = Error
                    \/ Fresh(m)' /\ jobs'[m].output = profile'.cache[m].output
    <3>1. CASE m = n
      <4>1. jobs'[m].state = "finished" /\ jobs'[m].output = output
        BY <1>12, <3>1 DEF Finished
      <4> QED
        BY <1>11, <3>1, <4>1 DEF JobStates
    <3>2. CASE m # n
      <4>1. jobs'[m] = jobs[m] /\ m # "PAIPAN"
        BY <1>12, <3>2, JobFacts, <2>2
      <4>2. PromptKey(profile, m)' = PromptKey(profile, m)
        BY <1>9, <2>2, <4>1
      <4>3. Fresh(m) => m \in DOMAIN profile.cache
        BY DEF Fresh, Hit
      <4> QED
        BY <1>2, <1>10, <2>2, <3>2, <4>1, <4>2, <4>3 DEF TurnInv, PromptsHold
    <3> QED
      BY <3>1, <3>2
  <2> QED
    BY <1>1, <1>12, <2>1, <2>2 DEF PromptsHold
<1>19. ~turn.bypass => ~Coherent(disk, Requested)
  BY <1>1, <1>2 DEF TurnInv, NothingNew
<1>20. NothingNew'
  <2>1. Coherent(disk, Requested)' <=> Coherent(disk, Requested)
    BY <1>1, <1>14 DEF Coherent, PromptKey
  <2> QED
    BY <1>1, <1>2, <1>19, <2>1 DEF NothingNew
<1>21. AllDone' /\ Explained'
  BY <1>1 DEF TurnInv, AllDone, Explained
<1> QED
  BY <1>13, <1>15, <1>16, <1>17, <1>18, <1>19, <1>20, <1>21 DEF TurnInv

-----------------------------------------------------------------------------
(* One lemma per action: after the loop.                                   *)

\* Nothing is left when nothing is ready and nothing runs: a node that is left
\* would wait for another one, without end.
LEMMA LeaveLoopKeeps ==
  ASSUME TurnInv, LeaveLoop
  PROVE  TurnInv'
<1>1. /\ turn.phase = "top" /\ Planned /\ Ready = {} /\ DOMAIN jobs = {}
      /\ UNCHANGED <<disk, profile, remaining, done, failed, outputs, jobs, calls>>
  BY DEF LeaveLoop, NothingToDo, Planned, loop
<1>2. remaining \cup done = Requested /\ remaining \subseteq PersistentNodes
      /\ CommonPrereqs \subseteq Requested /\ failed \subseteq PersistentNodes
  BY <1>1, NodesKnown DEF LlmNodes
<1>3. remaining = {}
  <2>1. ASSUME NEW n \in remaining PROVE Deps[n] \cap remaining # {}
    <3>1. ~(Deps[n] \subseteq done)
      BY <1>1 DEF Ready
    <3>2. Deps[n] \subseteq CommonPrereqs
      BY <1>2, GraphFacts
    <3> QED
      BY <1>2, <3>1, <3>2
  <2> QED
    BY <1>2, <2>1, NoCycle
<1>4. /\ failed \subseteq DOMAIN outputs /\ "PAIPAN" \in DOMAIN outputs
      /\ \A n \in failed : outputs[n] = Error \/ (outputs[n] = Skipped /\ Deps[n] \cap failed # {})
  BY <1>1 DEF TurnInv, Books
<1>5. ASSUME FailedNodes = {} PROVE failed = {} /\ outputs["PAIPAN"] # Error
  <2>1. \A n \in DOMAIN outputs : outputs[n] # Error
    BY <1>5 DEF FailedNodes, Error
  <2>2. \A n \in failed : Deps[n] \cap failed # {}
    BY <1>4, <2>1
  <2> QED
    BY <1>2, <1>4, <2>1, <2>2, NoCycle
<1>6. /\ turn' \in [phase: Phases, aspects: SUBSET Aspects, time: TimeContexts,
                    bypass: BOOLEAN, n: Nat, result: {"none", "answer", "error"}]
      /\ turn'.phase \in {"response", "write"} /\ turn'.aspects = turn.aspects
      /\ turn'.time = turn.time
      /\ turn'.phase = "response" => FailedNodes = {}
  <2>1. CASE FailedNodes # {}
    <3>1. turn' = [turn EXCEPT !.phase = "write", !.result = "error"]
      BY <2>1 DEF LeaveLoop
    <3> QED
      BY <3>1 DEF TurnInv, Shape, Phases
  <2>2. CASE FailedNodes = {}
    <3>1. turn' = [turn EXCEPT !.phase = "response"]
      BY <2>2 DEF LeaveLoop
    <3> QED
      BY <2>2, <3>1 DEF TurnInv, Shape, Phases
  <2> QED
    BY <2>1, <2>2
<1>7. Requested' = Requested
      /\ \A m : PromptKey(profile, m)' = PromptKey(profile, m) /\ (Fresh(m)' <=> Fresh(m))
  BY <1>1, <1>6, KeysStay DEF Requested
<1>8. Shape' /\ Explained'
  BY <1>1, <1>6 DEF TurnInv, Shape, Explained
<1>9. Books'
  BY <1>1, <1>6, <1>7 DEF TurnInv, Books
<1>10. ChartKnown' /\ PromptsHold'
  BY <1>1, <1>6, <1>7 DEF TurnInv, ChartKnown, PromptsHold
<1>11. AllDone' /\ NothingNew'
  BY <1>1, <1>3, <1>5, <1>6 DEF AllDone, NothingNew
<1> QED
  BY <1>8, <1>9, <1>10, <1>11 DEF TurnInv

\* The answer is written, or its writing failed.
LEMMA RunResponseKeeps ==
  ASSUME TurnInv, NEW result \in {"answer", "error"}, RunResponse(result)
  PROVE  TurnInv'
<1>1. /\ turn.phase = "response" /\ Planned
      /\ turn' = [turn EXCEPT !.phase = "write", !.result = result]
      /\ UNCHANGED <<disk, profile, remaining, done, failed, outputs, jobs, calls>>
  BY DEF RunResponse, Planned, loop
<1>2. /\ turn' \in [phase: Phases, aspects: SUBSET Aspects, time: TimeContexts,
                    bypass: BOOLEAN, n: Nat, result: {"none", "answer", "error"}]
      /\ turn'.phase = "write" /\ turn'.aspects = turn.aspects /\ turn'.time = turn.time
  BY <1>1 DEF TurnInv, Shape, Phases
<1>3. Requested' = Requested
      /\ \A m : PromptKey(profile, m)' = PromptKey(profile, m) /\ (Fresh(m)' <=> Fresh(m))
  BY <1>1, <1>2, KeysStay DEF Requested
<1>4. Shape' /\ Explained'
  BY <1>1, <1>2 DEF TurnInv, Shape, Explained
<1>5. Books'
  BY <1>1, <1>2, <1>3 DEF TurnInv, Books
<1>6. ChartKnown' /\ PromptsHold' /\ AllDone' /\ NothingNew'
  BY <1>1, <1>2, <1>3 DEF TurnInv, ChartKnown, PromptsHold, AllDone, NothingNew
<1> QED
  BY <1>4, <1>5, <1>6 DEF TurnInv

\* The profile of a finished turn is the saved one.
LEMMA WriteProfileKeeps ==
  ASSUME TurnInv, WriteProfile
  PROVE  TurnInv'
<1>1. /\ turn.phase = "write" /\ GoTo("idle") /\ disk' = profile
      /\ UNCHANGED <<profile, remaining, done, failed, outputs, jobs, calls>>
  BY DEF WriteProfile, loop
<1>2. /\ turn' \in [phase: Phases, aspects: SUBSET Aspects, time: TimeContexts,
                    bypass: BOOLEAN, n: Nat, result: {"none", "answer", "error"}]
      /\ turn'.phase = "idle"
  BY <1>1, PhaseMoves DEF TurnInv, Phases
<1>3. Shape' /\ Explained'
  BY <1>1, <1>2 DEF TurnInv, Shape, Explained
<1>4. Books'
  BY <1>1, <1>2 DEF TurnInv, Books, Planned
<1> QED
  BY <1>2, <1>3, <1>4 DEF TurnInv, ChartKnown, PromptsHold, AllDone, NothingNew, Planned

\* What was in memory is lost; the saved profile is as it was.
LEMMA AbortKeeps ==
  ASSUME TurnInv, Abort
  PROVE  TurnInv'
<1>1. /\ GoTo("idle") /\ profile' = disk /\ jobs' = EmptyCache
      /\ UNCHANGED <<disk, done, failed, outputs, calls>>
  BY DEF Abort, GoTo
<1>2. /\ turn' \in [phase: Phases, aspects: SUBSET Aspects, time: TimeContexts,
                    bypass: BOOLEAN, n: Nat, result: {"none", "answer", "error"}]
      /\ turn'.phase = "idle"
  BY <1>1, PhaseMoves DEF TurnInv, Phases
<1>3. Shape' /\ Explained'
  BY <1>1, <1>2 DEF TurnInv, Shape, Explained, EmptyCache
<1>4. Books'
  BY <1>1, <1>2 DEF Books, Planned, EmptyCache
<1> QED
  BY <1>2, <1>3, <1>4 DEF TurnInv, ChartKnown, PromptsHold, AllDone, NothingNew, Planned

-----------------------------------------------------------------------------
(* The specification.                                                      *)

\* The invariant is inductive.
LEMMA StepKeeps == TurnInv /\ [Next]_vars => TurnInv'
<1> SUFFICES ASSUME TurnInv, [Next]_vars PROVE TurnInv'
  OBVIOUS
<1>1. ASSUME NEW chart \in Charts, NEW bypass \in BOOLEAN, StartTurn(chart, bypass)
      PROVE  TurnInv'
  BY <1>1, StartTurnKeeps
<1>2. CASE TurnStep
  <2>1. CASE EnsurePaipan
    BY <2>1, PaipanKeeps
  <2>2. ASSUME NEW aspects \in SUBSET Aspects, NEW time \in TimeContexts,
               RunPlanner(aspects, time)
        PROVE  TurnInv'
    BY <2>2, PlanKeeps
  <2>3. CASE LoopStep
    <3>1. ASSUME NEW completed \in SUBSET FinishedJobs, Collect(completed) PROVE TurnInv'
      BY <3>1, CollectKeeps
    <3> QED
      BY <2>3, <3>1, ScheduleKeeps, LeaveLoopKeeps DEF LoopStep
  <2>4. ASSUME NEW result \in {"answer", "error"}, RunResponse(result) PROVE TurnInv'
    BY <2>4, RunResponseKeeps
  <2>5. CASE WriteProfile
    BY <2>5, WriteProfileKeeps
  <2> QED
    BY <1>2, <2>1, <2>2, <2>3, <2>4, <2>5, Zenon DEF TurnStep
<1>3. ASSUME NEW n \in LlmNodes, JobStep(n) PROVE TurnInv'
  BY <1>3, BuildPromptKeeps, LookupKeeps, AnsweredKeeps, ModelFailsKeeps DEF JobStep
<1>4. CASE Abort
  BY <1>4, AbortKeeps
<1>5. CASE UNCHANGED vars
  <2>1. /\ UNCHANGED <<disk, profile, turn, remaining, done, failed, outputs, jobs, calls>>
    BY <1>5 DEF vars
  <2>2. Requested' = Requested
        /\ \A m : PromptKey(profile, m)' = PromptKey(profile, m) /\ (Fresh(m)' <=> Fresh(m))
    BY <2>1, KeysStay DEF Requested
  <2>3. Shape' /\ ChartKnown' /\ AllDone' /\ Explained'
    BY <2>1 DEF TurnInv, Shape, ChartKnown, AllDone, Explained
  <2>4. Books' /\ PromptsHold'
    BY <2>1, <2>2 DEF TurnInv, Books, PromptsHold, Planned
  <2>5. Coherent(disk, Requested)' <=> Coherent(disk, Requested)
    BY <2>1, <2>2 DEF Coherent, PromptKey
  <2>6. NothingNew'
    BY <2>1, <2>5 DEF TurnInv, NothingNew
  <2> QED
    BY <2>3, <2>4, <2>6 DEF TurnInv
<1> QED
  BY <1>1, <1>2, <1>3, <1>4, <1>5, Zenon DEF Next

\* It holds in every reachable state.
LEMMA Invariant == Spec => []TurnInv
BY InitHolds, StepKeeps, PTL DEF Spec

\* A prompt quotes this turn's good outputs, and none of them changes while its
\* node runs, although workers read the cache without the lock.
THEOREM PromptsQuoteThisTurn == Spec => []QuotesThisTurn
<1>1. TurnInv => QuotesThisTurn
  <2> SUFFICES ASSUME TurnInv, NEW n \in Occupied, NEW d \in LlmNodes, d \in PromptReads[n]
               PROVE  /\ d \in DOMAIN outputs
                      /\ outputs[d] = Ok(profile.cache[d].output.what[1])
                      /\ jobs[n].key.quotes[d] = outputs[d].what
    BY DEF QuotesThisTurn
  <2>1. n \in DOMAIN jobs /\ jobs[n].state \in {"prompted", "calling"}
    BY DEF Occupied
  <2>2. Planned /\ n \in LlmNodes /\ Deps[n] \subseteq done \ failed
    BY <2>1, JobFacts
  <2>3. d \in done \ (failed \cup {"PAIPAN"})
    BY <2>2, GraphFacts DEF LlmNodes
  <2>4. /\ Fresh(d) /\ outputs[d] = profile.cache[d].output
        /\ jobs[n].key = PromptKey(profile, n)
    BY <2>1, <2>2, <2>3 DEF TurnInv, PromptsHold
  <2>5. d \in DOMAIN profile.cache
    BY <2>4 DEF Fresh, Hit
  <2>6. profile.cache[d].output = Ok(profile.cache[d].output.what[1])
    BY <2>3, <2>5 DEF TurnInv, Shape, GoodCache
  <2>7. jobs[n].key.quotes[d] = profile.cache[d].output.what
    BY <2>4, <2>5 DEF PromptKey, Cached
  <2>8. d \in DOMAIN outputs
    BY <2>2, <2>3 DEF TurnInv, Books
  <2> QED
    BY <2>4, <2>6, <2>7, <2>8
<1> QED
  BY <1>1, Invariant, PTL

\* The answer is written from one consistent reading of the chart: all that it
\* quotes is this turn's and was written for what is quoted next to it.
THEOREM AnswersAreCoherent == Spec => []AnswerIsCoherent
<1>1. TurnInv => AnswerIsCoherent
  <2> SUFFICES ASSUME TurnInv, turn.phase = "response"
               PROVE  /\ Coherent(profile, Requested)
                      /\ \A n \in ResponseReads(turn.aspects) :
                           n \in DOMAIN outputs /\ outputs[n] = profile.cache[n].output
    BY DEF AnswerIsCoherent
  <2>1. /\ Planned /\ remaining = {} /\ failed = {} /\ DOMAIN jobs = {}
        /\ outputs["PAIPAN"] # Error
    BY DEF TurnInv, AllDone, Books, Planned
  <2>2. done = Requested /\ DOMAIN outputs = Requested
    BY <2>1, NodesKnown DEF TurnInv, Books, CommonPrereqs
  <2>3. /\ outputs["PAIPAN"] = Ok(profile.chart) /\ "PAIPAN" \in DOMAIN profile.cache
        /\ profile.cache["PAIPAN"].output = outputs["PAIPAN"]
    BY <2>1 DEF TurnInv, ChartKnown
  <2>4. Cached(profile.cache, "PAIPAN") = <<profile.chart>>
    BY <2>3 DEF Cached, Ok
  <2>5. \A n \in Requested \ {"PAIPAN"} : Fresh(n) /\ outputs[n] = profile.cache[n].output
    BY <2>1, <2>2 DEF TurnInv, PromptsHold
  <2>6. ResponseReads(turn.aspects) = Requested
    BY DEF ResponseReads, Requested
  <2> QED
    BY <2>2, <2>3, <2>4, <2>5, <2>6 DEF Coherent, Fresh
<1> QED
  BY <1>1, Invariant, PTL

\* The loop drops no node: each one asked for was answered, failed, or was
\* skipped because of a failure before it.
THEOREM NodesAreAccountedFor == Spec => []EveryNodeAccountedFor
<1>1. TurnInv => EveryNodeAccountedFor
  <2>1. ASSUME TurnInv, turn.phase \in {"response", "write"}
        PROVE  DOMAIN outputs = Requested
    <3>1. Planned /\ remaining = {} /\ DOMAIN jobs = {}
      BY <2>1 DEF TurnInv, AllDone, Books, Planned
    <3> QED
      BY <2>1, <3>1, NodesKnown DEF TurnInv, Books, CommonPrereqs
  <2> QED
    BY <2>1 DEF EveryNodeAccountedFor, TurnInv, Explained
<1> QED
  BY <1>1, Invariant, PTL

\* Asking again for what the saved profile already holds calls no model, after
\* any history of failures and aborted turns.
THEOREM RepeatsAreFree == Spec => RepeatIsFree
<1> DEFINE Free == \A n \in LlmNodes :
                     calls'[n] # calls[n] /\ ~turn.bypass => ~Coherent(disk, Requested)
<1>1. TurnInv /\ [Next]_vars => [Free]_vars
  <2> SUFFICES ASSUME TurnInv, Next PROVE Free
    OBVIOUS
  <2>1. ASSUME NEW n \in LlmNodes, Answered(n) PROVE Free
    BY <2>1, AnsweredKeeps
  <2>2. CASE UNCHANGED calls
    BY <2>2
  <2>3. (\E n \in LlmNodes : Answered(n)) \/ UNCHANGED calls
    BY Zenon DEF Next, TurnStep, JobStep, LoopStep, StartTurn, EnsurePaipan, PaipanIs,
                 RunPlanner, Schedule, LeaveLoop, Collect, RunResponse, WriteProfile, Abort,
                 BuildPrompt, Lookup, ModelFails
  <2> QED
    BY <2>1, <2>2, <2>3
<1> QED
  BY <1>1, Invariant, PTL DEF Spec, RepeatIsFree

-----------------------------------------------------------------------------
(* Types, also of what a turn that ended leaves in the loop's variables,   *)
(* and the size of the pool.                                               *)

ChartsKnown == {disk.chart, profile.chart} \subseteq Charts
SetsKnown == remaining \cup done \cup failed \subseteq PersistentNodes
OutputsKnown ==
  \A n \in DOMAIN outputs : n \in PersistentNodes /\ outputs[n].kind \in OutputKinds
PoolBounded == IsFiniteSet(Occupied) /\ Cardinality(Occupied) <= MaxWorkers

TypesInv == ChartsKnown /\ SetsKnown /\ OutputsKnown /\ PoolBounded

\* The service starts with the types in order.
LEMMA TypesInit == Init => TypesInv
<1> SUFFICES ASSUME Init PROVE TypesInv
  OBVIOUS
<1>1. DOMAIN outputs = {} /\ DOMAIN jobs = {}
  BY DEF Init, EmptyCache
<1>2. Occupied = {}
  BY <1>1 DEF Occupied
<1>3. PoolBounded
  BY <1>2, FS_EmptySet, MaxWorkersAssumption DEF PoolBounded
<1>4. ChartsKnown
  BY DEF Init, ChartsKnown
<1> QED
  BY <1>1, <1>3, <1>4 DEF Init, TypesInv, SetsKnown, OutputsKnown

\* Which charts there are.
LEMMA ChartsStep ==
  ASSUME TurnInv, ChartsKnown, [Next]_vars
  PROVE  ChartsKnown'
<1>1. profile = [chart |-> profile.chart, cache |-> profile.cache]
  BY DEF TurnInv, Shape
<1>2. ASSUME disk' = disk, profile' = profile \/ profile' = disk
             \/ \E cache : profile' = [profile EXCEPT !.cache = cache]
      PROVE  ChartsKnown'
  BY <1>1, <1>2 DEF ChartsKnown
<1>3. ASSUME NEW chart \in Charts, NEW bypass \in BOOLEAN, StartTurn(chart, bypass)
      PROVE  ChartsKnown'
  BY <1>3 DEF StartTurn, ChartsKnown
<1>4. CASE EnsurePaipan
  BY <1>2, <1>4 DEF EnsurePaipan, PaipanIs
<1>5. CASE WriteProfile
  BY <1>5 DEF WriteProfile, ChartsKnown
<1>6. ASSUME NEW n \in LlmNodes, Answered(n) PROVE ChartsKnown'
  BY <1>2, <1>6 DEF Answered, others
<1>7. ASSUME disk' = disk, profile' = profile \/ profile' = disk PROVE ChartsKnown'
  BY <1>2, <1>7
<1> QED
  BY <1>3, <1>4, <1>5, <1>6, <1>7
     DEF Next, vars, TurnStep, JobStep, LoopStep, RunPlanner, Schedule, LeaveLoop, Collect,
         RunResponse, Abort, BuildPrompt, Lookup, ModelFails, others

\* What a finished job left is an answer or an error.
LEMMA JobOutput ==
  ASSUME TurnInv, NEW n \in DOMAIN jobs, jobs[n].state = "finished"
  PROVE  n \in PersistentNodes /\ jobs[n].output.kind \in {"ok", "error"}
<1>1. Planned /\ n \in LlmNodes
  BY JobFacts
<1>2. jobs[n].output = Error \/ (Fresh(n) /\ jobs[n].output = profile.cache[n].output)
  BY <1>1 DEF TurnInv, PromptsHold
<1>3. ASSUME Fresh(n) PROVE profile.cache[n].output = Ok(profile.cache[n].output.what[1])
  BY <1>1, <1>3 DEF Fresh, Hit, TurnInv, Shape, GoodCache, LlmNodes
<1> QED
  BY <1>1, <1>2, <1>3 DEF Error, Ok, LlmNodes

\* The loop knows of no node but those of the plan.
LEMMA NodesStep ==
  ASSUME TurnInv, SetsKnown, OutputsKnown, [Next]_vars
  PROVE  SetsKnown' /\ OutputsKnown'
<1>1. ASSUME remaining' \subseteq remaining, UNCHANGED <<done, failed, outputs>>
      PROVE  SetsKnown' /\ OutputsKnown'
  BY <1>1 DEF SetsKnown, OutputsKnown
<1>2. ASSUME NEW chart \in Charts, NEW bypass \in BOOLEAN, StartTurn(chart, bypass)
      PROVE  SetsKnown' /\ OutputsKnown'
  BY <1>2 DEF StartTurn, SetsKnown, OutputsKnown, EmptyCache
<1>3. CASE EnsurePaipan
  <2>1. "PAIPAN" \in DOMAIN profile.cache => profile.cache["PAIPAN"].output.kind \in {"ok", "error"}
    BY DEF TurnInv, Shape, GoodCache, Error, Ok
  <2>2. ASSUME NEW output, NEW cache, PaipanIs(output, cache), output.kind \in {"ok", "error"}
        PROVE  SetsKnown' /\ OutputsKnown'
    BY <2>2 DEF PaipanIs, SetsKnown, OutputsKnown, OutputKinds, PersistentNodes, CommonPrereqs
  <2> QED
    BY <1>3, <2>1, <2>2 DEF EnsurePaipan, Hit, Ok, Error
<1>4. ASSUME NEW aspects \in SUBSET Aspects, NEW time \in TimeContexts, RunPlanner(aspects, time)
      PROVE  SetsKnown' /\ OutputsKnown'
  BY <1>4, AspectsAssumption DEF RunPlanner, SetsKnown, OutputsKnown, PersistentNodes
<1>5. CASE Schedule
  <2> DEFINE skipped == {n \in Ready : Deps[n] \cap failed # {}}
  <2>1. /\ Ready \subseteq remaining /\ skipped \subseteq remaining
        /\ remaining' = remaining \ Ready
        /\ done' = done \cup skipped \cup (Ready \cap {"PAIPAN"})
        /\ failed' = failed \cup skipped
        /\ outputs' = [n \in DOMAIN outputs \cup skipped |->
                         IF n \in skipped THEN Skipped ELSE outputs[n]]
    BY <1>5 DEF Schedule, Ready
  <2> HIDE DEF skipped
  <2>2. SetsKnown'
    BY <2>1 DEF SetsKnown
  <2>3. OutputsKnown'
    BY <2>1 DEF SetsKnown, OutputsKnown, Skipped, OutputKinds
  <2> QED
    BY <2>2, <2>3
<1>6. ASSUME NEW completed \in SUBSET FinishedJobs, Collect(completed)
      PROVE  SetsKnown' /\ OutputsKnown'
  <2>1. \A n \in completed :
          n \in PersistentNodes /\ jobs[n].output.kind \in {"ok", "error"}
    BY JobOutput DEF FinishedJobs
  <2> QED
    BY <1>6, <2>1 DEF Collect, SetsKnown, OutputsKnown, OutputKinds
<1>7. ASSUME \/ LeaveLoop \/ WriteProfile \/ Abort \/ UNCHANGED vars
             \/ \E result \in {"answer", "error"} : RunResponse(result)
      PROVE  SetsKnown' /\ OutputsKnown'
  BY <1>1, <1>7 DEF vars, loop, LeaveLoop, RunResponse, WriteProfile, Abort
<1>8. ASSUME NEW n \in LlmNodes, JobStep(n) PROVE SetsKnown' /\ OutputsKnown'
  BY <1>1, <1>8 DEF JobStep, BuildPrompt, Lookup, Answered, ModelFails, others
<1> QED
  BY <1>2, <1>3, <1>4, <1>5, <1>6, <1>7, <1>8, Zenon DEF Next, TurnStep, LoopStep

\* No more prompts are answered at a time than the pool has workers: only
\* BuildPrompt takes a worker, and only one that is free.
LEMMA PoolStep ==
  ASSUME TurnInv, PoolBounded, [Next]_vars
  PROVE  PoolBounded'
<1>1. /\ IsFiniteSet(Occupied) /\ Cardinality(Occupied) \in Nat
      /\ Cardinality(Occupied) <= MaxWorkers /\ MaxWorkers \in Nat
      /\ jobs = [n \in DOMAIN jobs |-> jobs[n]]
  BY FS_CardinalityType, MaxWorkersAssumption DEF PoolBounded, TurnInv, Shape
<1>2. ASSUME Occupied' \subseteq Occupied
      PROVE  PoolBounded'
  <2>1. IsFiniteSet(Occupied') /\ Cardinality(Occupied') <= Cardinality(Occupied)
        /\ Cardinality(Occupied') \in Nat
    BY <1>1, <1>2, FS_Subset, FS_CardinalityType
  <2> QED
    BY <1>1, <2>1 DEF PoolBounded
<1>3. ASSUME NEW n \in DOMAIN jobs, NEW job, Becomes(n, job),
             job.state \in {"prompted", "calling"} => n \in Occupied
      PROVE  PoolBounded'
  <2>1. Occupied' \subseteq Occupied
    BY <1>1, <1>3 DEF Becomes, Occupied
  <2> QED
    BY <1>2, <2>1
<1>4. ASSUME NEW n \in LlmNodes, BuildPrompt(n) PROVE PoolBounded'
  <2>1. n \in DOMAIN jobs /\ Cardinality(Occupied) < MaxWorkers
    BY <1>4 DEF BuildPrompt, Job, WorkerFree
  <2>2. Occupied' \subseteq Occupied \cup {n}
    BY <1>1, <1>4, <2>1 DEF BuildPrompt, Becomes, Occupied, Finished
  <2>3. IsFiniteSet(Occupied \cup {n})
        /\ Cardinality(Occupied \cup {n}) \in {Cardinality(Occupied), Cardinality(Occupied) + 1}
    BY <1>1, FS_AddElement
  <2>4. IsFiniteSet(Occupied') /\ Cardinality(Occupied') <= Cardinality(Occupied \cup {n})
        /\ Cardinality(Occupied') \in Nat
    BY <2>2, <2>3, FS_Subset, FS_CardinalityType
  <2> QED
    BY <1>1, <2>1, <2>3, <2>4 DEF PoolBounded
<1>5. ASSUME NEW n \in LlmNodes, Lookup(n) PROVE PoolBounded'
  <2>1. n \in DOMAIN jobs /\ n \in Occupied
    BY <1>5 DEF Lookup, Job, Occupied
  <2> QED
    BY <1>3, <1>5, <2>1 DEF Lookup
<1>6. ASSUME NEW n \in LlmNodes, Answered(n) \/ ModelFails(n) PROVE PoolBounded'
  <2>1. n \in DOMAIN jobs
    BY <1>6 DEF Answered, ModelFails, Job
  <2> QED
    BY <1>3, <1>6, <2>1 DEF Answered, ModelFails, Finished
<1>7. CASE Schedule
  <2> DEFINE submitted == (Ready \ {n \in Ready : Deps[n] \cap failed # {}}) \ {"PAIPAN"}
  <2>1. jobs' = [n \in DOMAIN jobs \cup submitted |->
                   IF n \in submitted THEN [state |-> "queued"] ELSE jobs[n]]
    BY <1>7 DEF Schedule
  <2> HIDE DEF submitted
  <2>2. Occupied' \subseteq Occupied
    BY <2>1 DEF Occupied
  <2> QED
    BY <1>2, <2>2
<1>8. ASSUME NEW completed \in SUBSET FinishedJobs, Collect(completed) PROVE PoolBounded'
  <2>1. Occupied' \subseteq Occupied
    BY <1>8 DEF Collect, Occupied
  <2> QED
    BY <1>2, <2>1
<1>9. ASSUME UNCHANGED jobs \/ jobs' = EmptyCache PROVE PoolBounded'
  <2>1. Occupied' \subseteq Occupied
    BY <1>9 DEF Occupied, EmptyCache
  <2> QED
    BY <1>2, <2>1
<1>10. ASSUME \/ \E chart \in Charts, bypass \in BOOLEAN : StartTurn(chart, bypass)
              \/ EnsurePaipan
              \/ \E aspects \in SUBSET Aspects, time \in TimeContexts : RunPlanner(aspects, time)
       PROVE  PoolBounded'
  BY <1>9, <1>10 DEF StartTurn, EnsurePaipan, PaipanIs, RunPlanner
<1>11. ASSUME \/ LeaveLoop \/ WriteProfile \/ Abort \/ UNCHANGED vars
              \/ \E result \in {"answer", "error"} : RunResponse(result)
       PROVE  PoolBounded'
  BY <1>9, <1>11 DEF vars, loop, LeaveLoop, RunResponse, WriteProfile, Abort
<1> QED
  BY <1>4, <1>5, <1>6, <1>7, <1>8, <1>10, <1>11, Zenon DEF Next, TurnStep, LoopStep, JobStep

\* A turn is whole, for any charts, aspects, workers, turns and failures: its
\* answer is written from one consistent reading of the chart, each node asked
\* for is accounted for, and no more model calls run than the pool has workers.
THEOREM TurnsStayWhole == Spec => []TurnsAreWhole
<1>1. TurnInv /\ TypesInv /\ [Next]_vars => TypesInv'
  BY ChartsStep, NodesStep, PoolStep DEF TypesInv
<1>2. Spec => []TypesInv
  BY <1>1, TypesInit, Invariant, PTL DEF Spec
<1>3. TurnInv /\ TypesInv => TurnTypeOK
  <2> SUFFICES ASSUME TurnInv, TypesInv PROVE TurnTypeOK
    OBVIOUS
  <2>1. \A n \in DOMAIN jobs : n \in LlmNodes /\ jobs[n].state \in JobStates
    BY JobFacts DEF TurnInv, PromptsHold
  <2>2. DOMAIN disk.cache \cup DOMAIN profile.cache \subseteq PersistentNodes
    BY DEF TurnInv, Shape, GoodCache
  <2>3. /\ turn.phase \in Phases /\ turn.aspects \subseteq Aspects /\ turn.time \in TimeContexts
        /\ calls \in [LlmNodes -> Nat]
    BY DEF TurnInv, Shape
  <2> QED
    BY <2>1, <2>2, <2>3
       DEF TurnTypeOK, TypesInv, ChartsKnown, SetsKnown, OutputsKnown, PoolBounded
<1> QED
  BY <1>2, <1>3, Invariant, AnswersAreCoherent, NodesAreAccountedFor, PTL DEF TurnsAreWhole
=============================================================================
