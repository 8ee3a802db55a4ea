---------------------------- MODULE ProfileStore ----------------------------
(***************************************************************************)
(* The profile of one user: agent/storage/profile_store.py and locking.py, *)
(* the handlers of web_server.py that read or write the profile, the       *)
(* command line (app.py) and scripts/clean_demo_profile.py.                *)
(*                                                                         *)
(* A request is one operation of some kind.  Every writer but the script   *)
(* takes the profile's lease, reads, changes, and saves through a          *)
(* temporary file that replaces the profile.  The server, the command line *)
(* or the machine may stop between any two steps.                          *)
(*                                                                         *)
(* What a profile holds is abstracted to the chart inputs (birth, gender,  *)
(* unknown time), the chart its cached nodes were computed from, and the   *)
(* requests whose edits it contains.                                       *)
(***************************************************************************)
EXTENDS Naturals, FiniteSets

CONSTANTS
  Requests,   \* requests, each made once
  Kinds,      \* the kinds of request that occur
  Charts,     \* chart inputs
  MaxStops,   \* bound: kills and power losses in all
  Free,       \* the lease has no holder
  NoChart,    \* no cached nodes
  NoFile,     \* there is no such file
  Torn        \* a file that is not a whole profile

Upserts == {"v1_users", "v1_ask", "v1_ask_stream"}
Turns == {"v1_ask", "v1_ask_stream", "ask", "ask_stream", "cli"}
Streams == {"v1_ask_stream", "ask_stream"}
Readers == {"get_profile"}
Scripts == {"clean_profile"}

ASSUME KindsAssumption ==
  Kinds \subseteq Upserts \cup Turns \cup Readers \cup Scripts
                    \cup {"create_user", "update_profile"}
ASSUME StopsAssumption == MaxStops \in Nat

VARIABLES
  disk,     \* what opening profile.json finds
  durable,  \* what a power loss may leave there
  lease,    \* the holder of the flock on profile.json.lock
  kind,     \* what each request is
  at,       \* where the code that owns the request's profile is
  copy,     \* the profile in its memory
  temp,     \* its temporary file: the content, and whether it is on the disk
  turned,   \* requests whose turn has run
  handed,   \* streams whose lease is transferred to the worker
  leaving,  \* streams whose handler has yet to be torn down
  stops     \* kills and power losses so far

vars == <<disk, durable, lease, kind, at, copy, temp, turned, handed, leaving, stops>>

Profile == [chart: Charts, cached: Charts \cup {NoChart}, edits: SUBSET Requests]
Content == Profile \cup {NoFile, Torn}

ASSUME StoreNamesAssumption ==
  /\ NoFile \notin Profile /\ Torn \notin Profile /\ NoFile # Torn
  /\ Free \notin Requests
Unsynced(p) == [content |-> p, synced |-> FALSE]

Stages == {"new", "held", "charge", "save", "write", "fsync", "replace", "cleanup",
           "turn", "unwind", "truncate", "rewrite", "orphaned", "done", "dead"}

-----------------------------------------------------------------------------
(* An operator marked "faulty" is the one below it with a plausible bug.   *)

Goto(r, stage) == at' = [at EXCEPT ![r] = stage]
At(r, stage) == at[r] = stage

Fresh(r, chart) == [chart |-> chart, cached |-> NoChart, edits |-> {r}]

\* The profile a handler works on, from the one it loaded: an upsert resets
\* the node cache when the chart inputs change.
Edited(r, chart) ==
  [disk EXCEPT !.chart = chart,
               !.cached = IF chart = disk.chart THEN @ ELSE NoChart,
               !.edits = @ \cup {r}]

\* clean_profile keeps the configuration and drops the cache.
Cleaned == [disk EXCEPT !.cached = NoChart]

Init ==
  /\ disk \in {NoFile} \cup {[chart |-> c, cached |-> c, edits |-> {}] : c \in Charts}
  /\ durable = {disk}
  /\ lease = Free
  /\ kind \in [Requests -> Kinds]
  /\ at = [r \in Requests |-> "new"]
  /\ copy = [r \in Requests |-> NoFile]
  /\ temp = [r \in Requests |-> Unsynced(NoFile)]
  /\ turned = {}
  /\ handed = {}
  /\ leaving = {}
  /\ stops = 0

\* ProfileLease: a lease that is taken is not waited for (409, or the
\* command line's error).
BargeIn(r) ==                                                      \* faulty
  /\ At(r, "new")
  /\ kind[r] \notin Readers \cup Scripts
  /\ lease' = r
  /\ Goto(r, "held")
  /\ UNCHANGED <<disk, durable, kind, copy, temp, turned, handed, leaving, stops>>
Acquire(r) ==
  /\ At(r, "new")
  /\ kind[r] \notin Readers \cup Scripts
  /\ IF lease = Free
       THEN lease' = r /\ Goto(r, "held")
       ELSE Goto(r, "done") /\ UNCHANGED lease
  /\ UNCHANGED <<disk, durable, kind, copy, temp, turned, handed, leaving, stops>>

Start(r) ==
  /\ At(r, "held")
  /\ \E chart \in Charts :
       IF disk \in Profile /\ kind[r] # "create_user"
         THEN /\ kind[r] \notin Upserts => chart = disk.chart
              /\ copy' = [copy EXCEPT ![r] = Edited(r, chart)]
         ELSE /\ kind[r] \in Upserts \cup {"create_user"}
              /\ disk = Torn => kind[r] = "create_user"
              /\ copy' = [copy EXCEPT ![r] = Fresh(r, chart)]
  /\ Goto(r, CASE kind[r] \in Upserts \cap Turns -> "charge"
               [] kind[r] \in Turns \ Upserts    -> "turn"
               [] OTHER                          -> "save")
  /\ UNCHANGED <<disk, durable, lease, kind, temp, turned, handed, leaving, stops>>

\* Nothing is saved: the profile is missing or cannot be read, the payload is
\* refused (the edits made in memory are lost with it), or it cannot be paid.
Refuse(r) ==
  /\ at[r] \in {"held", "charge"}
  /\ Goto(r, "unwind")
  /\ UNCHANGED <<disk, durable, lease, kind, copy, temp, turned, handed, leaving, stops>>

\* activate_v1_request saves the upserted profile before the turn.
Charge(r) ==
  /\ At(r, "charge")
  /\ Goto(r, "save")
  /\ UNCHANGED <<disk, durable, lease, kind, copy, temp, turned, handed, leaving, stops>>

\* start_stream_worker; when no thread can be started the handler keeps the lease.
StartWorker(r) ==
  /\ At(r, "turn")
  /\ kind[r] \in Streams
  /\ r \notin handed
  /\ \/ /\ handed' = handed \cup {r}
        /\ leaving' = leaving \cup {r}
        /\ UNCHANGED at
     \/ /\ Goto(r, "unwind")
        /\ UNCHANGED <<handed, leaving>>
  /\ UNCHANGED <<disk, durable, lease, kind, copy, temp, turned, stops>>

\* release_profile, at the end of a handler whose worker goes on.
TearDown(r) ==
  /\ r \in leaving
  /\ leaving' = leaving \ {r}
  /\ lease' = IF lease = r /\ r \notin handed THEN Free ELSE lease
  /\ UNCHANGED <<disk, durable, kind, at, copy, temp, turned, handed, stops>>

\* run_turn fills the cache of the profile it is given, or raises: then the
\* profile is not saved.
Turn(r) ==
  /\ At(r, "turn")
  /\ kind[r] \in Streams => r \in handed
  /\ turned' = turned \cup {r}
  /\ \/ /\ copy' = [copy EXCEPT ![r].cached = copy[r].chart]
        /\ Goto(r, "save")
     \/ /\ Goto(r, "unwind")
        /\ UNCHANGED copy
  /\ UNCHANGED <<disk, durable, lease, kind, temp, handed, leaving, stops>>

-----------------------------------------------------------------------------
(* save_profile.                                                           *)

CreateTemp(r) ==
  /\ At(r, "save")
  /\ temp' = [temp EXCEPT ![r] = Unsynced(Torn)]
  /\ Goto(r, "write")
  /\ UNCHANGED <<disk, durable, lease, kind, copy, turned, handed, leaving, stops>>

Write(r) ==
  /\ At(r, "write")
  /\ temp' = [temp EXCEPT ![r] = Unsynced(copy[r])]
  /\ Goto(r, "fsync")
  /\ UNCHANGED <<disk, durable, lease, kind, copy, turned, handed, leaving, stops>>

SkipFsync(r) ==                                                    \* faulty
  /\ At(r, "fsync")
  /\ Goto(r, "replace")
  /\ UNCHANGED <<disk, durable, lease, kind, copy, temp, turned, handed, leaving, stops>>
Fsync(r) ==
  /\ At(r, "fsync")
  /\ temp' = [temp EXCEPT ![r].synced = TRUE]
  /\ Goto(r, "replace")
  /\ UNCHANGED <<disk, durable, lease, kind, copy, turned, handed, leaving, stops>>

\* An error of the file system (a full disk) in any of the steps.
SaveFails(r) ==
  /\ at[r] \in {"save", "write", "fsync", "replace"}
  /\ Goto(r, "cleanup")
  /\ UNCHANGED <<disk, durable, lease, kind, copy, temp, turned, handed, leaving, stops>>

\* os.replace: the directory is not synced, so a power loss may still find
\* the name bound to the profile before.  A script that is rewriting the file
\* that had the name goes on writing to that one.
Replace(r) ==
  /\ At(r, "replace")
  /\ disk' = temp[r].content
  /\ durable' = durable \cup {IF temp[r].synced THEN temp[r].content ELSE Torn}
  /\ temp' = [temp EXCEPT ![r] = Unsynced(NoFile)]
  /\ at' = [q \in Requests |->
              CASE q = r           -> IF kind[r] \in Turns /\ r \notin turned THEN "turn" ELSE "unwind"
                [] q # r /\ at[q] = "rewrite" -> "orphaned"
                [] OTHER           -> at[q]]
  /\ UNCHANGED <<lease, kind, copy, turned, handed, leaving, stops>>

\* The finally clause after an error.
Cleanup(r) ==
  /\ At(r, "cleanup")
  /\ temp' = [temp EXCEPT ![r] = Unsynced(NoFile)]
  /\ Goto(r, "unwind")
  /\ UNCHANGED <<disk, durable, lease, kind, copy, turned, handed, leaving, stops>>

\* release_profile, the end of guarded_worker, or ProfileLease.__exit__: on
\* every way out, and only the lease that is one's own.
KeepLease(r) ==                                                    \* faulty
  /\ At(r, "unwind")
  /\ lease' = IF lease = r /\ r \notin handed THEN Free ELSE lease
  /\ Goto(r, "done")
  /\ UNCHANGED <<disk, durable, kind, copy, temp, turned, handed, leaving, stops>>
Release(r) ==
  /\ At(r, "unwind")
  /\ lease' = IF lease = r THEN Free ELSE lease
  /\ Goto(r, "done")
  /\ UNCHANGED <<disk, durable, kind, copy, temp, turned, handed, leaving, stops>>

-----------------------------------------------------------------------------
(* Readers and writers without the lease.                                  *)

GetProfile(r) ==
  /\ At(r, "new")
  /\ kind[r] \in Readers
  /\ copy' = [copy EXCEPT ![r] = disk]
  /\ Goto(r, "done")
  /\ UNCHANGED <<disk, durable, lease, kind, temp, turned, handed, leaving, stops>>

ScriptReads(r) ==
  /\ At(r, "new")
  /\ kind[r] \in Scripts
  /\ IF disk \in Profile
       THEN copy' = [copy EXCEPT ![r] = Cleaned] /\ Goto(r, "truncate")
       ELSE Goto(r, "done") /\ UNCHANGED copy
  /\ UNCHANGED <<disk, durable, lease, kind, temp, turned, handed, leaving, stops>>

\* open(profile_path, "w")
ScriptTruncates(r) ==
  /\ At(r, "truncate")
  /\ disk' = Torn
  /\ durable' = durable \cup {Torn}
  /\ Goto(r, "rewrite")
  /\ UNCHANGED <<lease, kind, copy, temp, turned, handed, leaving, stops>>

\* The rest of the file; what another script has meanwhile written to it may
\* be longer.
ScriptWrites(r) ==
  /\ At(r, "rewrite")
  /\ \E new \in IF disk \in {Torn, copy[r]} THEN {copy[r]} ELSE {copy[r], Torn} :
       disk' = new /\ durable' = durable \cup {new}
  /\ Goto(r, "done")
  /\ UNCHANGED <<lease, kind, copy, temp, turned, handed, leaving, stops>>

\* The file it writes to has no name any more.
ScriptIsLate(r) ==
  /\ At(r, "orphaned")
  /\ Goto(r, "done")
  /\ UNCHANGED <<disk, durable, lease, kind, copy, temp, turned, handed, leaving, stops>>

-----------------------------------------------------------------------------
(* The environment.                                                        *)

Running(r) == at[r] \notin {"new", "done", "dead"} \/ r \in leaving

\* The requests of one process end; the system closes its lock file.
End(R) ==
  /\ at' = [r \in Requests |-> IF r \in R /\ Running(r) THEN "dead" ELSE at[r]]
  /\ leaving' = leaving \ R
  /\ lease' = IF lease \in R THEN Free ELSE lease
  /\ stops' = stops + 1
  /\ UNCHANGED <<kind, copy, temp, turned, handed>>

OfServer == {r \in Requests : kind[r] \notin {"cli"} \cup Scripts}

Kill ==
  /\ stops < MaxStops
  /\ \E R \in {OfServer} \cup {{r} : r \in Requests \ OfServer} :
       /\ \E r \in R : Running(r)
       /\ End(R)
  /\ UNCHANGED <<disk, durable>>

PowerLoss ==
  /\ stops < MaxStops
  /\ disk' \in durable
  /\ durable' = {disk'}
  /\ End(Requests)

\* The system writes the directory and the data back.
WriteBack ==
  /\ durable' = {disk}
  /\ UNCHANGED <<disk, lease, kind, at, copy, temp, turned, handed, leaving, stops>>

Step(r) ==
  \/ Acquire(r) \/ Start(r) \/ Refuse(r) \/ Charge(r)
  \/ StartWorker(r) \/ TearDown(r) \/ Turn(r)
  \/ CreateTemp(r) \/ Write(r) \/ Fsync(r) \/ SaveFails(r) \/ Replace(r) \/ Cleanup(r)
  \/ Release(r)
  \/ GetProfile(r) \/ ScriptReads(r) \/ ScriptTruncates(r) \/ ScriptWrites(r)
  \/ ScriptIsLate(r)

Next == (\E r \in Requests : Step(r)) \/ Kill \/ PowerLoss \/ WriteBack

Spec == Init /\ [][Next]_vars

\* Threads are scheduled, calls to the file system return, and a turn ends
\* (it does: see TurnExecution).
FairSpec == Spec /\ \A r \in Requests : WF_vars(Step(r))

-----------------------------------------------------------------------------

StoreTypeOK ==
  /\ disk \in Content
  /\ durable \subseteq Content
  /\ lease \in Requests \cup {Free}
  /\ kind \in [Requests -> Kinds]
  /\ at \in [Requests -> Stages]
  /\ copy \in [Requests -> Content]
  /\ temp \in [Requests -> [content: Content, synced: BOOLEAN]]
  /\ turned \subseteq Requests
  /\ handed \subseteq Requests
  /\ leaving \subseteq handed
  /\ stops \in 0..MaxStops

Coherent(p) == p \in Profile => p.cached \in {NoChart, p.chart}

\* No script has gone on from reading the profile to writing it.
Untouched ==
  \A r \in Requests : kind[r] \in Scripts /\ copy[r] # NoFile => At(r, "truncate")

\* A reader without the lease, the next request, and whoever comes after a
\* power loss, find a whole profile (or none) at every moment of every save,
\* unless a script has rewritten it in place; and what they find has only
\* nodes that were computed from the chart it holds.
AlwaysWhole ==
  /\ Untouched => Torn \notin durable \cup {disk}
  /\ \A p \in durable \cup {disk} : Coherent(p)

\* A script that runs alone mends what it tears, unless it is stopped.
TornWhileRewritten ==
  /\ disk = Torn /\ stops = 0
  /\ \A q, r \in Requests : {kind[q], kind[r]} \subseteq Scripts => q = r
  => \E r \in Requests : At(r, "rewrite")

\* No edit is lost: whatever replaces the profile contains every edit it
\* contained, except a profile made anew (create_user does not read the old
\* one), what a power loss takes back, and what a script has been at, which
\* takes no lease.
NoLostEdit ==
  [][disk' # disk /\ disk \in Profile =>
       \/ stops' # stops
       \/ \E r \in Requests : kind[r] = "create_user" /\ At(r, "replace") /\ ~At(r, "replace")'
       \/ ~Untouched'
       \/ disk' \in Profile /\ disk.edits \subseteq disk'.edits]_vars

\* Temporary files are left behind only by a process that was stopped.
TempsAreCleanedUp ==
  \A r \in Requests :
    temp[r].content # NoFile => at[r] \in {"write", "fsync", "replace", "cleanup", "dead"}

\* From loading the profile to the last save, also when the worker of a
\* stream works on after its handler is gone, the lease is held.
WorkUnderOneLease ==
  \A r \in Requests :
    at[r] \notin {"new", "done", "dead"} /\ kind[r] \notin Scripts => lease = r

\* Whoever holds the lease lets go of it: after an error, a refusal, a stop.
LeaseComesBack == \A r \in Requests : lease = r ~> lease # r
=============================================================================
