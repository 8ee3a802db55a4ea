--------------------------- MODULE BillingLedger ---------------------------
(***************************************************************************)
(* The credit ledger of agent/billing: the tables users, ledger and        *)
(* inflight of store.py, and the operations of service.py that change      *)
(* them.                                                                   *)
(*                                                                         *)
(* Every operation runs its statements inside store.transaction(): BEGIN   *)
(* IMMEDIATE takes the writer lock of the SQLite file, an exception rolls  *)
(* back.  Threads and processes therefore interleave between transactions  *)
(* and never inside one, and an operation that raises leaves the tables as *)
(* they were.  What does happen outside the lock is a step of its own:     *)
(* charge() reads the wall clock before it waits for the lock.             *)
(*                                                                         *)
(* Wall-clock time is the number of the current UTC day.                   *)
(***************************************************************************)
EXTENDS Integers, FiniteSets, Functions

CONSTANTS
  Users,          \* user ids
  Clients,        \* threads that may be inside charge()
  BaseIds,        \* request ids without the suffix a refund row adds
  ReservedIds,    \* those that start with "stripe:" or "topup-"
  TopupIds,       \* ids a topup may name (bound; "::refund" ones included)
  ChargeAmounts,  \* credits a charge may cost
  TopupAmounts,   \* credits a topup may bring
  Limits,         \* values of daily_credits_limit; 0 stands for 0 and NULL
  InflightLimit,  \* BillingService.inflight_limit
  MaxDay          \* bound: the last day that is modelled

ASSUME AmountsAssumption == ChargeAmounts \cup TopupAmounts \subseteq Nat
ASSUME TopupIdsAssumption == TopupIds \subseteq BaseIds \X {"plain", "refund"}
ASSUME LimitsAssumption == Limits \subseteq Nat
ASSUME ReservedAssumption == ReservedIds \subseteq BaseIds
ASSUME InflightAssumption == InflightLimit \in Nat \ {0}
ASSUME MaxDayAssumption == MaxDay \in Nat

VARIABLES
  balance,    \* users.balance_credits
  status,     \* users.status; "absent" while the row does not exist
  dailyLimit, \* users.daily_credits_limit
  ledger,     \* ledger rows by request_id, which the schema declares UNIQUE
  lastRow,    \* the AUTOINCREMENT id of the last ledger row
  inflight,   \* rows of the table inflight
  calls,      \* charges that have read the clock and wait for the lock
  today       \* the wall clock

tables == <<balance, status, dailyLimit, ledger, lastRow, inflight>>
vars == <<balance, status, dailyLimit, ledger, lastRow, inflight, calls, today>>

-----------------------------------------------------------------------------
(* Request ids.  A refund row is named after its charge, <id>::refund, or  *)
(* <id>::refund:<uuid4> when that name is taken.                           *)

Suffixes == {"plain", "refund", "refund:uuid"}
Ids == BaseIds \X Suffixes
ChargeIds == (BaseIds \ ReservedIds) \X {"plain"}
DerivedId(id) == <<id[1], "refund">>
FreshDerivedId(id) == <<id[1], "refund:uuid">>

Days == 0..MaxDay
Row == [user: Users, kind: {"charge", "refund", "topup"}, amount: Nat,
        after: Nat, state: {"pending", "settled", "refunded"}, day: Nat,
        n: Nat, resolution: {"none", "settle", "refund"}]
Call == [client: Clients, user: Users, id: ChargeIds, amount: ChargeAmounts, day: Nat]

Rows == DOMAIN ledger
RowsOf(u) == {id \in Rows : ledger[id].user = u}
Charges == {id \in Rows : ledger[id].kind = "charge"}
InflightOf(u) == {x \in inflight : x.user = u}

\* The sum of amount_credits over a set of ledger rows.
SumCredits(ids) == SumFunctionOnSet([id \in Rows |-> ledger[id].amount], ids)

\* What "used today" adds up: charges not refunded, stamped at or after a day.
CountedSince(u, day) ==
  {id \in RowsOf(u) : /\ ledger[id].kind = "charge"
                      /\ ledger[id].state # "refunded"
                      /\ ledger[id].day >= day}

NewRow(u, kind, amount, after, state, day) ==
  [user |-> u, kind |-> kind, amount |-> amount, after |-> after,
   state |-> state, day |-> day, n |-> lastRow + 1, resolution |-> "none"]

\* A table with one row added (or, for a duplicate key, replaced).
WithRow(table, id, row) ==
  [x \in DOMAIN table \cup {id} |-> IF x = id THEN row ELSE table[x]]

Init ==
  /\ balance = [u \in Users |-> 0]
  /\ status = [u \in Users |-> "absent"]
  /\ dailyLimit = [u \in Users |-> 0]
  /\ ledger = [id \in {} |-> 0]
  /\ lastRow = 0
  /\ inflight = {}
  /\ calls = {}
  /\ today = 0

-----------------------------------------------------------------------------
(* Users.                                                                  *)

\* INSERT INTO users: the service passes initial_credits=0 and tops up later.
CreateUser(u, limit) ==
  /\ status[u] = "absent"
  /\ status' = [status EXCEPT ![u] = "active"]
  /\ dailyLimit' = [dailyLimit EXCEPT ![u] = limit]
  /\ UNCHANGED <<balance, ledger, lastRow, inflight, calls, today>>

SetUserStatus(u, s) ==
  /\ status[u] # "absent"
  /\ status' = [status EXCEPT ![u] = s]
  /\ UNCHANGED <<balance, dailyLimit, ledger, lastRow, inflight, calls, today>>

-----------------------------------------------------------------------------
(* charge().                                                               *)
(* An operator marked "faulty" is the one below it with a mistake somebody *)
(* could make there; nothing uses it but the tests of the properties.      *)

\* now = _now_iso(), before the transaction.
StartCharge(c, u, id, amount) ==
  /\ \A call \in calls : call.client # c
  /\ calls' = calls \cup {[client |-> c, user |-> u, id |-> id,
                           amount |-> amount, day |-> today]}
  /\ UNCHANGED <<tables, today>>

IdUnused(id) == id \notin Rows

InflightNotOver(u) == Cardinality(InflightOf(u)) <= InflightLimit \* faulty
InflightFree(u) == Cardinality(InflightOf(u)) < InflightLimit

UsedBelowDailyLimit(u, amount) ==                                \* faulty
  dailyLimit[u] = 0 \/ SumCredits(CountedSince(u, today)) < dailyLimit[u]
WithinDailyLimit(u, amount) ==
  \/ amount = 0
  \/ dailyLimit[u] = 0
  \/ SumCredits(CountedSince(u, today)) + amount <= dailyLimit[u]

CanPay(u, amount) == amount > 0 => balance[u] >= amount

Charge(call) ==
  LET u == call.user
      rest == balance[u] - call.amount
  IN
  /\ call \in calls
  /\ status[u] = "active"
  /\ IdUnused(call.id)
  /\ InflightFree(u)
  /\ WithinDailyLimit(u, call.amount)
  /\ CanPay(u, call.amount)
  /\ balance' = [balance EXCEPT ![u] = rest]
  /\ ledger' = WithRow(ledger, call.id,
                 NewRow(u, "charge", call.amount, rest, "pending", call.day))
  /\ lastRow' = lastRow + 1
  /\ inflight' = inflight \cup {[id |-> call.id, user |-> u]}
  /\ calls' = calls \ {call}
  /\ UNCHANGED <<status, dailyLimit, today>>

\* A guard of charge() raised, the lock timed out, or the process died: the
\* transaction rolls back and only the caller learns of it.
AbandonCharge(call) ==
  /\ call \in calls
  /\ calls' = calls \ {call}
  /\ UNCHANGED <<tables, today>>

-----------------------------------------------------------------------------
(* settle() and refund().  manual: called by scripts/reconcile_billing.py, *)
(* that is with a resolution_reason.                                       *)

MayResolveUnrefunded(id, manual) ==                               \* faulty
  manual => ledger[id].state # "refunded"
MayResolve(id, manual) == manual => ledger[id].state = "pending"

Resolution(id, manual, action) ==
  IF manual THEN action ELSE ledger[id].resolution

ReleaseSlot(id) == inflight' = {x \in inflight : x.id # id}

Settled(state) == IF state = "pending" THEN "settled" ELSE state

Settle(id, manual) ==
  /\ id \in Charges
  /\ MayResolve(id, manual)
  /\ ledger' = [ledger EXCEPT
       ![id].state = Settled(@),
       ![id].resolution = Resolution(id, manual, "settle")]
  /\ ReleaseSlot(id)
  /\ UNCHANGED <<balance, status, dailyLimit, lastRow, calls, today>>

RefundIdUnchecked(id) == DerivedId(id)                            \* faulty
RefundId(id) ==
  IF DerivedId(id) \in Rows THEN FreshDerivedId(id) ELSE DerivedId(id)

NoFreshRefundRow(id) == FreshDerivedId(id) \notin Rows            \* faulty
NotRefunded(id) == ledger[id].state # "refunded"

Refund(id, manual) ==
  /\ id \in Charges
  /\ MayResolve(id, manual)
  /\ NotRefunded(id)
  /\ LET u == ledger[id].user
         credited == balance[u] + ledger[id].amount
         marked == [ledger EXCEPT
                      ![id].state = "refunded",
                      ![id].resolution = Resolution(id, manual, "refund")]
     IN /\ balance' = [balance EXCEPT ![u] = credited]
        /\ ledger' = WithRow(marked, RefundId(id),
                       NewRow(u, "refund", ledger[id].amount, credited,
                              "settled", today))
  /\ lastRow' = lastRow + 1
  /\ ReleaseSlot(id)
  /\ UNCHANGED <<status, dailyLimit, calls, today>>

\* A second refund() only makes sure that the slot is free.
RefundAgain(id) ==
  /\ id \in Charges
  /\ ledger[id].state = "refunded"
  /\ ReleaseSlot(id)
  /\ UNCHANGED <<balance, status, dailyLimit, ledger, lastRow, calls, today>>

-----------------------------------------------------------------------------
(* topup(): administrators choose any id, Stripe events use "stripe:...".  *)
(* A known id is answered (DuplicateRequestError) or refused (ValueError)  *)
(* and changes nothing.  topup() and refund() read the clock before they   *)
(* wait for the lock, as charge() does; only the day of a charge is ever   *)
(* added up, so the wait is modelled for charge() alone.                   *)

Topup(u, amount, id) ==
  /\ amount > 0
  /\ status[u] # "absent"
  /\ IdUnused(id)
  /\ balance' = [balance EXCEPT ![u] = @ + amount]
  /\ ledger' = WithRow(ledger, id,
                 NewRow(u, "topup", amount, balance[u] + amount, "settled", today))
  /\ lastRow' = lastRow + 1
  /\ UNCHANGED <<status, dailyLimit, inflight, calls, today>>

Midnight ==
  /\ today < MaxDay
  /\ today' = today + 1
  /\ UNCHANGED <<tables, calls>>

Next ==
  \/ \E u \in Users : \/ \E limit \in Limits : CreateUser(u, limit)
                      \/ \E s \in {"active", "disabled"} : SetUserStatus(u, s)
  \/ \E c \in Clients, u \in Users, id \in ChargeIds, a \in ChargeAmounts :
       StartCharge(c, u, id, a)
  \/ \E call \in calls : Charge(call) \/ AbandonCharge(call)
  \/ \E id \in Charges : \/ \E manual \in BOOLEAN : \/ Settle(id, manual)
                                                    \/ Refund(id, manual)
                         \/ RefundAgain(id)
  \/ \E u \in Users, a \in TopupAmounts, id \in TopupIds : Topup(u, a, id)
  \/ Midnight

Spec == Init /\ [][Next]_vars

-----------------------------------------------------------------------------
(* Type correctness.  That balances never go below zero is part of it:     *)
(* the guarded UPDATE of charge() is what keeps them there.                *)

TypeOK ==
  /\ balance \in [Users -> Nat]
  /\ status \in [Users -> {"absent", "active", "disabled"}]
  /\ dailyLimit \in [Users -> Nat]
  /\ Rows \subseteq Ids
  /\ ledger \in [Rows -> Row]
  /\ lastRow \in Nat
  /\ inflight \subseteq [id: ChargeIds, user: Users]
  /\ calls \subseteq Call
  /\ today \in Nat

-----------------------------------------------------------------------------
(* Invariants.                                                             *)

Credits(kind, u) == SumCredits({id \in RowsOf(u) : ledger[id].kind = kind})

\* Books balance: what a user owns is what came in, less what was charged,
\* plus what was given back.  No interleaving of charge, settle, refund and
\* topup, and no reuse of an id, creates or loses a credit.
Conservation ==
  \A u \in Users :
    balance[u] = Credits("topup", u) + Credits("refund", u) - Credits("charge", u)

Delta(row) == IF row.kind = "charge" THEN 0 - row.amount ELSE row.amount
Earlier(i, j) == ledger[i].user = ledger[j].user /\ ledger[i].n < ledger[j].n
Adjacent(i, j) ==
  Earlier(i, j) /\ \A k \in Rows : ~(Earlier(i, k) /\ Earlier(k, j))

\* balance_after is an audit trail: read in row order it starts at zero,
\* moves by each row's amount, and ends at the balance the user has now.
AuditTrail ==
  /\ \A i, j \in Rows :
       Adjacent(i, j) => ledger[j].after = ledger[i].after + Delta(ledger[j])
  /\ \A j \in Rows :
       (\A i \in Rows : ~Earlier(i, j)) => ledger[j].after = Delta(ledger[j])
  /\ \A i \in Rows :
       (\A j \in Rows : ~Earlier(i, j)) => balance[ledger[i].user] = ledger[i].after
  /\ \A u \in Users : RowsOf(u) = {} => balance[u] = 0

\* An inflight slot is held exactly while its charge is pending: a slot that
\* outlived its charge would lock the user out, one freed early would let
\* more than inflight_limit requests run.
InflightIsPending ==
  inflight = {[id |-> id, user |-> ledger[id].user] :
                id \in {c \in Charges : ledger[c].state = "pending"}}

\* Nobody has more than inflight_limit unfinished charges, however many
\* threads call charge() at once.
InflightBounded ==
  \A u \in Users : Cardinality(InflightOf(u)) <= InflightLimit

RefundsOf(id) ==
  {r \in Rows : ledger[r].kind = "refund" /\ r \in {DerivedId(id), FreshDerivedId(id)}}

\* A refunded charge was given back once, in full, to the user who paid, and
\* nothing else was ever given back.
RefundedOnce ==
  /\ \A id \in Charges :
       /\ Cardinality(RefundsOf(id)) = IF ledger[id].state = "refunded" THEN 1 ELSE 0
       /\ \A r \in RefundsOf(id) : /\ ledger[r].user = ledger[id].user
                                   /\ ledger[r].amount = ledger[id].amount
  /\ \A r \in Rows :
       ledger[r].kind = "refund" => \E id \in Charges : r \in RefundsOf(id)

\* Row numbers are distinct and run up to lastRow.
RowsNumbered ==
  /\ \A i \in Rows : ledger[i].n <= lastRow
  /\ \A i, j \in Rows : ledger[i].n = ledger[j].n => i = j

\* Charges have unreserved ids; the name with a uuid is only ever that of a
\* refund row; a refund row belongs to a refunded charge, which has only it.
RefundsNamed ==
  /\ Charges \subseteq ChargeIds
  /\ \A r \in Rows : r[2] = "refund:uuid" => ledger[r].kind = "refund"
  /\ \A r \in Rows : ledger[r].kind = "refund" =>
       \E id \in Charges : /\ r \in {DerivedId(id), FreshDerivedId(id)}
                           /\ ledger[id].state = "refunded"
                           /\ ledger[r].user = ledger[id].user
                           /\ ledger[r].amount = ledger[id].amount
  /\ \A id \in Charges : ledger[id].state = "refunded" =>
       RefundsOf(id) # {} /\ \A r, s \in RefundsOf(id) : r = s

\* What an operator has resolved is no longer pending.
ResolvedIsDone ==
  \A id \in Rows : ledger[id].resolution # "none" => ledger[id].state # "pending"

\* The inductive invariant: what the invariants above need of the state, and
\* no step destroys.
IInv ==
  /\ TypeOK
  /\ RowsNumbered
  /\ RefundsNamed
  /\ ResolvedIsDone
  /\ AuditTrail
  /\ InflightIsPending
  /\ IsFiniteSet(inflight)
  /\ InflightBounded

\* What counts against today's limit never exceeds it.
TodayWithinLimit ==
  \A u \in Users :
    dailyLimit[u] > 0 => SumCredits(CountedSince(u, today)) <= dailyLimit[u]

-----------------------------------------------------------------------------
(* Action properties.                                                      *)

MayBecome(old, new) ==
  \/ new = old
  \/ old = "pending" /\ new \in {"settled", "refunded"}
  \/ old = "settled" /\ new = "refunded"

\* The ledger is append-only: a row keeps its user, kind, amount, balance and
\* date for ever; only a charge moves, from pending to settled to refunded and
\* never back; and the reconciliation an operator recorded is final: no second
\* manual resolution, and no late settle or refund, replaces it.
AppendOnly ==
  [][\A id \in Rows :
       /\ id \in DOMAIN ledger'
       /\ \A f \in {"user", "kind", "amount", "after", "day", "n"} :
            ledger'[id][f] = ledger[id][f]
       /\ MayBecome(ledger[id].state, ledger'[id].state)
       /\ ledger[id].resolution # "none" =>
            ledger'[id].resolution = ledger[id].resolution]_vars

-----------------------------------------------------------------------------
(* The ledger implements CreditAccounts: reservations are the charge rows, *)
(* deposits the topup rows.                                                *)

Topups == {id \in Rows : ledger[id].kind = "topup"}
Holds ==
  [id \in Charges |-> [user |-> ledger[id].user, amount |-> ledger[id].amount,
                       state |-> ledger[id].state]]
Deposits ==
  [id \in Topups |-> [user |-> ledger[id].user, amount |-> ledger[id].amount]]

Accounts ==
  INSTANCE CreditAccounts
    WITH Amounts <- ChargeAmounts \cup TopupAmounts, MaxHeld <- InflightLimit,
         credit <- balance, standing <- status, holds <- Holds, deposits <- Deposits

\* Callers may rely on CreditAccounts: whatever the threads do, each request
\* is charged at most once, kept or given back once, and each deposit counts
\* once.
ImplementsAccounts == Accounts!Spec

-----------------------------------------------------------------------------
(* What README_DEMO.md promises of daily_credits_limit.                    *)

\* "cap the daily spend (resets at UTC midnight)": by the dates the ledger
\* itself records, no user spends more than the limit in a day.
DailySpendCapped ==
  \A u \in Users, d \in Days :
    dailyLimit[u] > 0 =>
      SumCredits({id \in CountedSince(u, d) : ledger[id].day = d}) <= dailyLimit[u]

=============================================================================
