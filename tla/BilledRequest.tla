--------------------------- MODULE BilledRequest ---------------------------
(***************************************************************************)
(* The life of a billed request in web_server.py, from the profile lease   *)
(* to the teardown functions: one thread runs the handler and, for a       *)
(* streaming endpoint, a second one (the worker) runs the turn while the   *)
(* handler returns.  The ledger is that of BillingLedger.                  *)
(*                                                                         *)
(* v1_ask and v1_ask_stream are modelled step by step; the hepan, cezi,    *)
(* najia and zwds handlers run the same steps around another orchestrator. *)
(* Anything that touches the disk, the database or the model may raise;    *)
(* the number of such faults is bounded by MaxFaults.                      *)
(***************************************************************************)
EXTENDS BillingLedger

CONSTANTS
  Opening,    \* for each user, the id of the topup that funded the account
  Funds,      \* what it brought
  Price,      \* pricing.cost of the endpoint
  Nobody,     \* holder of a free lease
  MaxFaults   \* bound: exceptions in a behaviour

ASSUME OpeningAssumption ==
  /\ Opening \in [Users -> ReservedIds]
  /\ \A u, v \in Users : Opening[u] = Opening[v] => u = v
ASSUME PriceAssumption == {Price, Funds} \subseteq Nat /\ Price \in ChargeAmounts
ASSUME NobodyAssumption == Nobody \notin Clients
ASSUME FiniteAssumption == IsFiniteSet(Users) /\ IsFiniteSet(Clients) /\ MaxFaults \in Nat

VARIABLES
  handler,  \* where the request thread is
  worker,   \* where the streaming worker is, "none" without one
  req,      \* the locals of the request: what g and ctx["state"] hold
  lease     \* for each user the request that holds the profile's file lock

requestVars == <<handler, worker, req, lease>>
allVars == <<vars, requestVars>>
ledgerVars == <<tables, calls, today>>

HandlerSteps == {"idle", "lease", "prepare", "charging", "activate", "start",
                 "turn", "post", "finalize", "refund", "teardown", "release",
                 "done", "dead"}
WorkerSteps == {"none", "turn", "post", "finalize", "refund", "report",
                "unlock", "done", "dead"}

Request == [user: Users, id: ChargeIds, stream: BOOLEAN,
            receipt: {"none", "pending", "settled", "refunded"},
            finalized: BOOLEAN, workerOwned: BOOLEAN, transferred: BOOLEAN,
            outcome: {"none", "answer", "error", "exception"},
            reported: {"none", "pending", "settled", "refunded"},
            faults: 0..MaxFaults]

Faults == SumFunctionOnSet([q \in Clients |-> req[q].faults], Clients)
Charged(q) == req[q].receipt # "none"
Finished(q) == /\ handler[q] \in {"done", "dead"}
               /\ worker[q] \in {"none", "done", "dead"}
Idle == \A q \in Clients : handler[q] = "idle" \/ Finished(q)

\* The turn runs in the worker of a streaming request, else in the handler.
Where(q) == IF req[q].stream THEN worker[q] ELSE handler[q]
Goto(q, step) ==
  IF req[q].stream
  THEN worker' = [worker EXCEPT ![q] = step] /\ UNCHANGED handler
  ELSE handler' = [handler EXCEPT ![q] = step] /\ UNCHANGED worker
HandlerTo(q, step) == handler' = [handler EXCEPT ![q] = step]

NoFault(q) == UNCHANGED req
Fault(q) == /\ Faults < MaxFaults
            /\ req' = [req EXCEPT ![q].faults = @ + 1]

\* The order in which the accounts were opened.
AccountNumber == CHOOSE f \in Injection(Users, 1..Cardinality(Users)) : TRUE
OwnerOf(id) == CHOOSE u \in Users : Opening[u] = id[1]

RequestsIdle ==
  /\ handler = [q \in Clients |-> "idle"]
  /\ worker = [q \in Clients |-> "none"]
  /\ req \in [Clients ->
       [user: Users, id: ChargeIds, stream: BOOLEAN,
        receipt: {"none"}, finalized: {FALSE}, workerOwned: {FALSE},
        transferred: {FALSE}, outcome: {"none"}, reported: {"none"}, faults: {0}]]
  /\ lease = [u \in Users |-> Nobody]

\* Every account is open and has its first topup.
RequestInit ==
  /\ balance = [u \in Users |-> Funds]
  /\ status = [u \in Users |-> "active"]
  /\ dailyLimit = [u \in Users |-> 0]
  /\ ledger = [id \in {<<Opening[u], "plain">> : u \in Users} |->
                [user |-> OwnerOf(id), kind |-> "topup", amount |-> Funds,
                 after |-> Funds, state |-> "settled", day |-> 0,
                 n |-> AccountNumber[OwnerOf(id)], resolution |-> "none"]]
  /\ lastRow = Cardinality(Users)
  /\ inflight = {}
  /\ calls = {}
  /\ today = 0
  /\ RequestsIdle

-----------------------------------------------------------------------------
(* The handler up to the turn.                                             *)

Begin(q) ==
  /\ handler[q] = "idle"
  /\ HandlerTo(q, "lease")
  /\ UNCHANGED <<ledgerVars, worker, req, lease>>

\* acquire_profile: LOCK_EX | LOCK_NB.
AcquireProfile(q) ==
  /\ handler[q] = "lease"
  /\ lease[req[q].user] = Nobody
  /\ lease' = [lease EXCEPT ![req[q].user] = q]
  /\ HandlerTo(q, "prepare")
  /\ UNCHANGED <<ledgerVars, worker, req>>

\* ProfileBusyError becomes a 409.
ProfileBusy(q) ==
  /\ handler[q] = "lease"
  /\ lease[req[q].user] # Nobody
  /\ HandlerTo(q, "teardown")
  /\ UNCHANGED <<ledgerVars, worker, req, lease>>

\* run_v1_request answers an invalid payload with a 400, before it takes the
\* lease or after.
RejectPayload(q) ==
  /\ handler[q] \in {"lease", "prepare"}
  /\ HandlerTo(q, "teardown")
  /\ UNCHANGED <<ledgerVars, worker, req, lease>>

CallCharge(q) ==
  /\ handler[q] = "prepare"
  /\ StartCharge(q, req[q].user, req[q].id, Price)
  /\ HandlerTo(q, "charging")
  /\ UNCHANGED <<worker, req, lease>>

\* do_charge: the receipt is kept and g.pending_billing is set.
ChargeReturns(q) ==
  /\ handler[q] = "charging"
  /\ \E call \in calls : call.client = q /\ Charge(call)
  /\ req' = [req EXCEPT ![q].receipt = "pending"]
  /\ HandlerTo(q, "activate")
  /\ UNCHANGED <<worker, lease>>

\* charge() raised: 402, 409 or 429, or a 500 when the lock timed out.
ChargeRaises(q) ==
  /\ handler[q] = "charging"
  /\ \E call \in calls : call.client = q /\ AbandonCharge(call)
  /\ HandlerTo(q, "teardown")
  /\ UNCHANGED <<worker, req, lease>>

\* activate_v1_request: save_profile and the user_message event.
Activate(q) ==
  /\ handler[q] = "activate"
  /\ \/ NoFault(q) /\ HandlerTo(q, IF req[q].stream THEN "start" ELSE "turn")
     \/ Fault(q) /\ HandlerTo(q, "teardown")
  /\ UNCHANGED <<ledgerVars, worker, lease>>

\* worker_owned and profile_lease_transferred are set before Thread.start.
StartWorker(q) ==
  /\ handler[q] = "start"
  /\ req' = [req EXCEPT ![q].workerOwned = TRUE, ![q].transferred = TRUE]
  /\ worker' = [worker EXCEPT ![q] = "turn"]
  /\ HandlerTo(q, "teardown")
  /\ UNCHANGED <<ledgerVars, lease>>

\* Thread.start raised: both are taken back, the charge is refunded next.
OwnershipKept(q) ==                                               \* faulty
  /\ Faults < MaxFaults
  /\ req' = [req EXCEPT ![q].faults = @ + 1, ![q].workerOwned = TRUE]
  /\ HandlerTo(q, "teardown")
OwnershipReturned(q) ==
  /\ Fault(q)
  /\ HandlerTo(q, "refund")

StartWorkerFails(q) ==
  /\ handler[q] = "start"
  /\ OwnershipReturned(q)
  /\ UNCHANGED <<ledgerVars, worker, lease>>

-----------------------------------------------------------------------------
(* The turn, in the handler or in the worker.                              *)

RunTurn(q, outcome) ==
  /\ Where(q) = "turn"
  /\ outcome = "exception" => Faults < MaxFaults
  /\ req' = [req EXCEPT ![q].outcome = outcome,
                        ![q].faults = IF outcome = "exception" THEN @ + 1 ELSE @]
  /\ Goto(q, IF outcome = "exception" THEN "refund" ELSE "post")
  /\ UNCHANGED <<ledgerVars, lease>>

\* The plan and time_context events, then save_profile.  In the handler an
\* exception here is left to teardown; the worker catches it and refunds.
WriteResult(q) ==
  /\ Where(q) = "post"
  /\ \/ NoFault(q) /\ Goto(q, "finalize")
     \/ Fault(q) /\ Goto(q, IF req[q].stream THEN "refund" ELSE "teardown")
  /\ UNCHANGED <<ledgerVars, lease>>

RefundTransaction(id) == Refund(id, FALSE) \/ RefundAgain(id)

\* settle()/refund() returned: the receipt is the row's new status.
KeepReceipt(q) ==
  req' = [req EXCEPT ![q].receipt = ledger'[req[q].id].state,
                     ![q].finalized = TRUE]

SettleWhenReturned(q) == req[q].outcome # "exception"              \* faulty
SettleWhenAnswered(q) == req[q].outcome = "answer"

Finalize(q) ==
  /\ Where(q) = "finalize"
  /\ \/ /\ IF SettleWhenAnswered(q) THEN Settle(req[q].id, FALSE)
                                    ELSE RefundTransaction(req[q].id)
        /\ KeepReceipt(q)
        /\ Goto(q, IF req[q].stream THEN "report" ELSE "teardown")
     \/ /\ Fault(q)
        /\ Goto(q, IF req[q].stream THEN "refund" ELSE "teardown")
        /\ UNCHANGED ledgerVars
  /\ UNCHANGED lease

\* except Exception: ctx["refund"]("endpoint_exception").
RefundTurn(q) ==
  /\ Where(q) = "refund"
  /\ \/ RefundTransaction(req[q].id) /\ KeepReceipt(q)
     \/ Fault(q) /\ UNCHANGED ledgerVars
  /\ Goto(q, IF req[q].stream THEN "report" ELSE "teardown")
  /\ UNCHANGED lease

\* ctx["refund"]("worker_start_failed"), then raise.
RefundStart(q) ==
  /\ req[q].stream
  /\ handler[q] = "refund"
  /\ \/ RefundTransaction(req[q].id) /\ KeepReceipt(q)
     \/ Fault(q) /\ UNCHANGED ledgerVars
  /\ HandlerTo(q, "teardown")
  /\ UNCHANGED <<worker, lease>>

-----------------------------------------------------------------------------
(* The end of the worker: its finally clause, then guarded_worker's.       *)

StageOfTurn(q) ==                                                 \* faulty
  IF req[q].outcome = "answer" THEN "settled" ELSE "refunded"
StageOfReceipt(q) == req[q].receipt

AfterReportRaised(q) == "stuck"                                   \* faulty
AfterReportFailed(q) == "unlock"

\* The billing event carries the status of the receipt; get_balance may raise.
Report(q) ==
  /\ worker[q] = "report"
  /\ \/ /\ req' = [req EXCEPT ![q].reported = StageOfReceipt(q)]
        /\ worker' = [worker EXCEPT ![q] = "unlock"]
     \/ /\ Fault(q)
        /\ worker' = [worker EXCEPT ![q] = AfterReportFailed(q)]
  /\ UNCHANGED <<ledgerVars, handler, lease>>

WithoutLease(q) == [lease EXCEPT ![req[q].user] = Nobody]

Unlock(q) ==
  /\ worker[q] = "unlock"
  /\ lease' = WithoutLease(q)
  /\ worker' = [worker EXCEPT ![q] = "done"]
  /\ UNCHANGED <<ledgerVars, handler, req>>

-----------------------------------------------------------------------------
(* Teardown.  Flask runs the functions last registered first: the refund,  *)
(* then the lease.                                                         *)

RefundDue(q) == Charged(q) /\ ~req[q].workerOwned /\ ~req[q].finalized

RefundUnfinished(q) ==
  /\ handler[q] = "teardown"
  /\ \/ ~RefundDue(q) /\ UNCHANGED <<ledgerVars, req>>
     \/ RefundDue(q) /\ RefundTransaction(req[q].id) /\ KeepReceipt(q)
     \/ RefundDue(q) /\ Fault(q) /\ UNCHANGED ledgerVars
  /\ HandlerTo(q, "release")
  /\ UNCHANGED <<worker, lease>>

HoldsLease(q) == lease[req[q].user] = q                           \* faulty
MayRelease(q) == lease[req[q].user] = q /\ ~req[q].transferred

ReleaseProfile(q) ==
  /\ handler[q] = "release"
  /\ lease' = IF MayRelease(q) THEN [lease EXCEPT ![req[q].user] = Nobody] ELSE lease
  /\ HandlerTo(q, "done")
  /\ UNCHANGED <<ledgerVars, worker, req>>

-----------------------------------------------------------------------------
(* The process, and the operator.                                          *)

\* The process dies: SQLite and the operating system forget its transactions
\* and its file locks, the ledger stays.
Crash ==
  /\ ~Idle
  /\ handler' = [q \in Clients |-> IF handler[q] \in {"idle", "done"}
                                   THEN handler[q] ELSE "dead"]
  /\ worker' = [q \in Clients |-> IF worker[q] \in {"none", "done"}
                                  THEN worker[q] ELSE "dead"]
  /\ lease' = [u \in Users |-> Nobody]
  /\ calls' = {}
  /\ UNCHANGED <<tables, today, req>>

\* scripts/reconcile_billing.py --service-stopped.
Reconcile(id) ==
  /\ Idle
  /\ Settle(id, TRUE) \/ Refund(id, TRUE)
  /\ UNCHANGED requestVars

TurnStep(q) ==
  \/ \E outcome \in {"answer", "error", "exception"} : RunTurn(q, outcome)
  \/ WriteResult(q) \/ Finalize(q) \/ RefundTurn(q)

HandlerStep(q) ==
  \/ AcquireProfile(q) \/ ProfileBusy(q) \/ RejectPayload(q)
  \/ CallCharge(q) \/ ChargeReturns(q) \/ ChargeRaises(q) \/ Activate(q)
  \/ StartWorker(q) \/ StartWorkerFails(q) \/ RefundStart(q)
  \/ RefundUnfinished(q) \/ ReleaseProfile(q)

WorkerStep(q) == Report(q) \/ Unlock(q)

RequestNext ==
  \/ \E q \in Clients : Begin(q) \/ HandlerStep(q) \/ TurnStep(q) \/ WorkerStep(q)
  \/ Crash
  \/ \E id \in Charges : Reconcile(id)

\* A thread that can take a step is scheduled eventually: nothing in it waits
\* for another request.  Clients, crashes and operators owe nothing.
Fairness ==
  \A q \in Clients : /\ WF_allVars(HandlerStep(q))
                     /\ WF_allVars(TurnStep(q))
                     /\ WF_allVars(WorkerStep(q))

RequestSpec == RequestInit /\ [][RequestNext]_allVars /\ Fairness

-----------------------------------------------------------------------------
(* Invariants.                                                             *)

RequestTypeOK ==
  /\ TypeOK
  /\ handler \in [Clients -> HandlerSteps]
  /\ worker \in [Clients -> WorkerSteps]
  /\ req \in [Clients -> Request]
  /\ lease \in [Users -> Clients \cup {Nobody}]

\* Nobody pays for a turn that failed: a charge the service settled belongs to
\* a turn that came back with an answer and whose result was written.
PaidIsAnswered ==
  \A q \in Clients :
    Charged(q) /\ ledger[req[q].id].state = "settled"
               /\ ledger[req[q].id].resolution = "none" => req[q].outcome = "answer"

\* No single failure of the model, the disk or the database loses a charge:
\* one that is left pending when its request is over has seen two, or the
\* process died.
LeakNeedsTwoFaults ==
  \A q \in Clients :
    Finished(q) /\ Charged(q) /\ ledger[req[q].id].state = "pending"
      => req[q].faults >= 2 \/ "dead" \in {handler[q], worker[q]}

\* From reading the profile to the last write of the turn a request holds the
\* profile's lease, in whichever thread it runs.
WorkUnderLease ==
  \A q \in Clients :
    (\/ handler[q] \in {"prepare", "charging", "activate", "start", "turn", "post"}
     \/ worker[q] \in {"turn", "post", "finalize", "refund", "report", "unlock"})
      => lease[req[q].user] = q

\* A lease has a thread that will release it.
LeaseHasOwner ==
  \A u \in Users : lease[u] # Nobody => ~Finished(lease[u])

\* What the stream told the client of its money stays true.
ReportedIsFinal ==
  \A q \in Clients :
    req[q].reported \in {"settled", "refunded"} =>
      ledger[req[q].id].state = req[q].reported

-----------------------------------------------------------------------------
(* Liveness.                                                               *)

\* Every request comes to an end and its profile is free again, whatever
\* fails on the way.
EveryRequestEnds ==
  \A q \in Clients :
    handler[q] = "lease" ~> (Finished(q) /\ lease[req[q].user] # q)

=============================================================================
