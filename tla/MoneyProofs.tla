---------------------------- MODULE MoneyProofs ----------------------------
(***************************************************************************)
(* Theorems about BillingLedger, for any number of users, threads and ids, *)
(* any prices, limits and length of time; and about BilledRequest and      *)
(* StripePayments, for any requests, sessions and workers, any number of   *)
(* deliveries and lost answers, and any bound on the faults.               *)
(***************************************************************************)
EXTENDS MCMoney, SumTheorems, FunctionTheorems

(***************************************************************************)
(* The ledger.                                                             *)
(***************************************************************************)

\* Every operation keeps the column types, and charge() no balance below zero.
LEMMA TypeStep == TypeOK /\ [Next]_vars => TypeOK'
<1> SUFFICES ASSUME TypeOK, [Next]_vars PROVE TypeOK'
  OBVIOUS
<1> USE DEF TypeOK
<1>1. ASSUME NEW u \in Users, NEW limit \in Limits, CreateUser(u, limit)
      PROVE TypeOK'
  BY <1>1, LimitsAssumption DEF CreateUser, Rows
<1>2. ASSUME NEW u \in Users, NEW s \in {"active", "disabled"}, SetUserStatus(u, s)
      PROVE TypeOK'
  BY <1>2 DEF SetUserStatus, Rows
<1>3. ASSUME NEW c \in Clients, NEW u \in Users, NEW id \in ChargeIds,
             NEW a \in ChargeAmounts, StartCharge(c, u, id, a)
      PROVE TypeOK'
  BY <1>3 DEF StartCharge, Call, Rows, tables
<1>4. ASSUME NEW call \in calls, Charge(call)
      PROVE TypeOK'
  <2> DEFINE rest == balance[call.user] - call.amount
  <2>1. /\ call.user \in Users /\ call.id \in ChargeIds
        /\ call.amount \in Nat /\ call.day \in Nat
    BY AmountsAssumption DEF Call
  <2>2. rest \in Nat
    BY <1>4, <2>1 DEF Charge, CanPay
  <2>3. NewRow(call.user, "charge", call.amount, rest, "pending", call.day) \in Row
    BY <2>1, <2>2 DEF NewRow, Row
  <2>4. call.id \in Ids
    BY <2>1, ReservedAssumption DEF ChargeIds, Ids, Suffixes
  <2> QED
    BY <1>4, <2>1, <2>2, <2>3, <2>4 DEF Charge, WithRow, Rows
<1>5. ASSUME NEW call \in calls, AbandonCharge(call)
      PROVE TypeOK'
  BY <1>5 DEF AbandonCharge, Rows, tables
<1>6. ASSUME NEW id \in Charges, NEW byHand \in BOOLEAN, Settle(id, byHand)
      PROVE TypeOK'
  <2> DEFINE marked == [ledger EXCEPT
                          ![id].state = Settled(@),
                          ![id].resolution = Resolution(id, byHand, "settle")]
  <2>1. id \in Rows /\ ledger[id] \in Row
    BY DEF Charges
  <2>2. marked \in [Rows -> Row]
    BY <2>1 DEF Settled, Resolution, Row
  <2> QED
    BY <1>6, <2>2 DEF Settle, ReleaseSlot, Rows
<1>7. ASSUME NEW id \in Charges, NEW byHand \in BOOLEAN, Refund(id, byHand)
      PROVE TypeOK'
  <2> DEFINE u == ledger[id].user
             credited == balance[u] + ledger[id].amount
             marked == [ledger EXCEPT
                          ![id].state = "refunded",
                          ![id].resolution = Resolution(id, byHand, "refund")]
             row == NewRow(u, "refund", ledger[id].amount, credited, "settled", today)
  <2>1. id \in Rows /\ ledger[id] \in Row
    BY DEF Charges
  <2>2. u \in Users /\ credited \in Nat
    BY <2>1 DEF Row
  <2>3. marked \in [Rows -> Row]
    BY <2>1 DEF Resolution, Row
  <2>4. row \in Row
    BY <2>1, <2>2 DEF NewRow, Row
  <2>5. RefundId(id) \in Ids
    BY <2>1 DEF RefundId, DerivedId, FreshDerivedId, Ids, Suffixes
  <2> QED
    BY <1>7, <2>1, <2>2, <2>3, <2>4, <2>5 DEF Refund, WithRow, ReleaseSlot, Rows
<1>8. ASSUME NEW id \in Charges, RefundAgain(id)
      PROVE TypeOK'
  BY <1>8 DEF RefundAgain, ReleaseSlot, Rows
<1>9. ASSUME NEW u \in Users, NEW a \in TopupAmounts, NEW id \in TopupIds,
             Topup(u, a, id)
      PROVE TypeOK'
  <2> DEFINE row == NewRow(u, "topup", a, balance[u] + a, "settled", today)
  <2>1. balance[u] + a \in Nat /\ row \in Row
    BY AmountsAssumption DEF NewRow, Row
  <2>2. id \in Ids
    BY TopupIdsAssumption DEF Ids, Suffixes
  <2> QED
    BY <1>9, <2>1, <2>2 DEF Topup, WithRow, Rows
<1>10. ASSUME Midnight
       PROVE TypeOK'
  BY <1>10 DEF Midnight, Rows, tables
<1>11. ASSUME UNCHANGED vars
       PROVE TypeOK'
  BY <1>11 DEF vars, Rows
<1> QED
  BY <1>1, <1>2, <1>3, <1>4, <1>5, <1>6, <1>7, <1>8, <1>9, <1>10, <1>11 DEF Next

\* The empty database satisfies the column types (SCHEMA_SQL).
LEMMA TypeInit == Init => TypeOK
  BY MaxDayAssumption DEF Init, TypeOK, Rows, Row, Call

\* The schema's column types and the guarded UPDATE of charge() hold for
\* every instance: in particular no balance is ever negative.
THEOREM TypeCorrect == Spec => []TypeOK
  BY TypeInit, TypeStep, PTL DEF Spec

-----------------------------------------------------------------------------
(* The audit trail.  Of a step it matters only whether it leaves the money *)
(* columns alone or appends one row.                                       *)

SameMoney(r) ==
  /\ ledger'[r].user = ledger[r].user
  /\ ledger'[r].kind = ledger[r].kind
  /\ ledger'[r].amount = ledger[r].amount
  /\ ledger'[r].after = ledger[r].after
  /\ ledger'[r].day = ledger[r].day
  /\ ledger'[r].n = ledger[r].n

MoneyKept ==
  /\ Rows' = Rows
  /\ \A r \in Rows : SameMoney(r)
  /\ lastRow' = lastRow
  /\ balance' = balance

Appended(id, u) ==
  /\ id \notin Rows
  /\ Rows' = Rows \cup {id}
  /\ \A r \in Rows : SameMoney(r)
  /\ ledger'[id].user = u
  /\ ledger'[id].n = lastRow + 1
  /\ lastRow' = lastRow + 1
  /\ ledger'[id].after = balance[u] + Delta(ledger'[id])
  /\ balance' = [balance EXCEPT ![u] = ledger'[id].after]

Trail == RowsNumbered /\ AuditTrail

\* A step that only changes states keeps the trail.
LEMMA TrailKept == TypeOK /\ Trail /\ MoneyKept => Trail'
<1> SUFFICES ASSUME TypeOK, Trail, MoneyKept PROVE Trail'
  OBVIOUS
<1>1. RowsNumbered'
  BY DEF Trail, MoneyKept, SameMoney, RowsNumbered
<1>2. \A i, j \in Rows : /\ Earlier(i, j)' <=> Earlier(i, j)
                         /\ Adjacent(i, j)' <=> Adjacent(i, j)
  BY DEF MoneyKept, SameMoney, Earlier, Adjacent
<1>3. \A u \in Users : RowsOf(u)' = RowsOf(u)
  BY DEF MoneyKept, SameMoney, RowsOf
<1>4. \A i \in Rows : Delta(ledger'[i]) = Delta(ledger[i])
  BY DEF MoneyKept, SameMoney, Delta
<1> QED
  BY <1>1, <1>2, <1>3, <1>4 DEF Trail, AuditTrail, MoneyKept, SameMoney

\* Appending a row with the new balance continues the trail: the row's only
\* neighbour is the row that was last of its user.
LEMMA TrailAppended ==
  ASSUME TypeOK, TypeOK', Trail, NEW id, NEW u \in Users, Appended(id, u)
  PROVE  Trail'
<1> USE DEF Trail
<1>1. \A r \in Rows : ledger[r] \in Row
  BY DEF TypeOK
<1>2. RowsNumbered'
  BY <1>1 DEF Appended, SameMoney, RowsNumbered, TypeOK, Row
<1>3. \A i, j \in Rows : Earlier(i, j)' <=> Earlier(i, j)
  BY DEF Appended, SameMoney, Earlier
<1>4. \A i \in Rows : Earlier(i, id)' <=> ledger[i].user = u
  BY <1>1 DEF Appended, SameMoney, Earlier, RowsNumbered, TypeOK, Row
<1>5. \A i \in Rows : ~Earlier(id, i)'
  BY <1>1 DEF Appended, SameMoney, Earlier, RowsNumbered, TypeOK, Row
<1>6. ~Earlier(id, id)'
  BY DEF Appended, Earlier, TypeOK
<1>7. \A i \in Rows : Delta(ledger'[i]) = Delta(ledger[i])
  BY DEF Appended, SameMoney, Delta
<1>8. ASSUME NEW i \in Rows', NEW j \in Rows', Adjacent(i, j)'
      PROVE  ledger'[j].after = ledger'[i].after + Delta(ledger'[j])
  <2>1. i \in Rows
    BY <1>5, <1>6, <1>8 DEF Adjacent, Appended
  <2>2. CASE j \in Rows
    <3>1. Adjacent(i, j)
      BY <1>3, <1>8, <2>1, <2>2 DEF Adjacent, Appended
    <3> QED
      BY <1>7, <2>1, <2>2, <3>1 DEF AuditTrail, Appended, SameMoney
  <2>3. CASE j = id
    <3>1. ledger[i].user = u
      BY <1>4, <1>8, <2>1, <2>3 DEF Adjacent
    <3>2. \A k \in Rows : ~Earlier(i, k)
      <4> SUFFICES ASSUME NEW k \in Rows, Earlier(i, k) PROVE FALSE
        OBVIOUS
      <4>1. Earlier(i, k)' /\ Earlier(k, id)'
        BY <1>3, <1>4, <2>1, <3>1 DEF Earlier
      <4> QED
        BY <1>8, <2>3, <4>1 DEF Adjacent, Appended
    <3>3. balance[u] = ledger[i].after
      BY <2>1, <3>1, <3>2 DEF AuditTrail
    <3> QED
      BY <2>1, <2>3, <3>3 DEF Appended, SameMoney
  <2> QED
    BY <2>2, <2>3 DEF Appended
<1>9. ASSUME NEW j \in Rows', \A i \in Rows' : ~Earlier(i, j)'
      PROVE  ledger'[j].after = Delta(ledger'[j])
  <2>1. CASE j \in Rows
    BY <1>3, <1>7, <1>9, <2>1 DEF AuditTrail, Appended, SameMoney
  <2>2. CASE j = id
    <3>1. RowsOf(u) = {}
      BY <1>4, <1>9, <2>2 DEF RowsOf, Appended
    <3>2. balance[u] = 0
      BY <3>1 DEF AuditTrail
    <3>3. ledger'[id].amount \in Nat
      BY DEF TypeOK, Row, Appended
    <3> QED
      BY <2>2, <3>2, <3>3 DEF Appended, Delta
  <2> QED
    BY <2>1, <2>2 DEF Appended
<1>10. ASSUME NEW i \in Rows', \A j \in Rows' : ~Earlier(i, j)'
       PROVE  balance'[ledger'[i].user] = ledger'[i].after
  <2>1. CASE i \in Rows
    <3>1. ledger[i].user # u
      BY <1>4, <1>10, <2>1 DEF Appended
    <3>2. \A j \in Rows : ~Earlier(i, j)
      BY <1>3, <1>10, <2>1 DEF Appended
    <3> QED
      BY <1>1, <2>1, <3>1, <3>2 DEF AuditTrail, Appended, SameMoney, TypeOK, Row
  <2>2. CASE i = id
    BY <2>2 DEF Appended, TypeOK
  <2> QED
    BY <2>1, <2>2 DEF Appended
<1>11. ASSUME NEW v \in Users, RowsOf(v)' = {}
       PROVE  balance'[v] = 0
  <2>1. v # u
    BY <1>11 DEF RowsOf, Appended
  <2>2. RowsOf(v) = {}
    BY <1>11 DEF RowsOf, Appended, SameMoney
  <2> QED
    BY <2>1, <2>2 DEF AuditTrail, Appended, TypeOK
<1> QED
  BY <1>2, <1>8, <1>9, <1>10, <1>11 DEF AuditTrail

-----------------------------------------------------------------------------
(* What each operation does to the ledger, row by row.                     *)

\* A committed charge() appends one pending row that takes the price from
\* the payer, takes one slot and touches no other row.
LEMMA ChargeEffect ==
  ASSUME TypeOK, NEW call \in calls, Charge(call)
  PROVE  /\ call.user \in Users /\ call.id \in ChargeIds /\ call.amount \in Nat
         /\ Appended(call.id, call.user)
         /\ \A r \in Rows : ledger'[r] = ledger[r]
         /\ ledger'[call.id] = NewRow(call.user, "charge", call.amount,
                                 balance[call.user] - call.amount, "pending", call.day)
         /\ inflight' = inflight \cup {[id |-> call.id, user |-> call.user]}
<1>1. /\ call.user \in Users /\ call.id \in ChargeIds
      /\ call.amount \in Nat /\ balance[call.user] \in Nat
  BY AmountsAssumption DEF TypeOK, Call
<1>2. /\ call.id \notin Rows
      /\ Rows' = Rows \cup {call.id}
      /\ \A r \in Rows : ledger'[r] = ledger[r]
      /\ ledger'[call.id] = NewRow(call.user, "charge", call.amount,
                              balance[call.user] - call.amount, "pending", call.day)
      /\ inflight' = inflight \cup {[id |-> call.id, user |-> call.user]}
      /\ lastRow' = lastRow + 1
      /\ balance' = [balance EXCEPT ![call.user] = balance[call.user] - call.amount]
  BY DEF Charge, WithRow, Rows, IdUnused
<1> QED
  BY <1>1, <1>2 DEF Appended, SameMoney, NewRow, Delta

\* settle() moves no money: only the state of the row it names may change.
LEMMA SettleEffect ==
  ASSUME TypeOK, NEW id \in Charges, NEW byHand \in BOOLEAN, Settle(id, byHand)
  PROVE  /\ MoneyKept
         /\ \A r \in Rows : r # id => ledger'[r] = ledger[r]
         /\ ledger'[id].state = Settled(ledger[id].state)
         /\ ledger'[id].resolution = Resolution(id, byHand, "settle")
         /\ byHand => ledger[id].state = "pending"
<1>1. id \in Rows /\ ledger[id] \in Row /\ DOMAIN ledger = Rows
  BY DEF Charges, TypeOK, Rows
<1>2. /\ Rows' = Rows
      /\ \A r \in Rows : r # id => ledger'[r] = ledger[r]
  BY <1>1 DEF Settle, Rows
<1>3. ledger'[id] = [[ledger[id] EXCEPT !.state = Settled(@)]
                       EXCEPT !.resolution = Resolution(id, byHand, "settle")]
  BY <1>1 DEF Settle
<1>4. /\ ledger'[id].state = Settled(ledger[id].state)
      /\ ledger'[id].resolution = Resolution(id, byHand, "settle")
      /\ SameMoney(id)
  BY <1>1, <1>3 DEF Row, SameMoney
<1>5. byHand => ledger[id].state = "pending"
  BY DEF Settle, MayResolve
<1> QED
  BY <1>2, <1>4, <1>5 DEF Settle, MoneyKept, SameMoney

\* refund() of a charge that was not refunded appends one row under a free
\* name, with the charge's amount, and marks the charge refunded.
LEMMA RefundEffect ==
  ASSUME TypeOK, RefundsNamed,
         NEW id \in Charges, NEW byHand \in BOOLEAN, Refund(id, byHand)
  PROVE  /\ RefundsOf(id) = {}
         /\ Appended(RefundId(id), ledger[id].user)
         /\ \A r \in Rows : r # id => ledger'[r] = ledger[r]
         /\ ledger'[id].state = "refunded"
         /\ ledger'[RefundId(id)].kind = "refund"
         /\ ledger'[RefundId(id)].amount = ledger[id].amount
         /\ ledger'[RefundId(id)].resolution = "none"
         /\ ledger[id].state # "refunded"
         /\ ledger'[id].resolution = Resolution(id, byHand, "refund")
         /\ byHand => ledger[id].state = "pending"
<1> DEFINE u == ledger[id].user
           new == RefundId(id)
           credited == balance[u] + ledger[id].amount
           marked == [ledger EXCEPT
                        ![id].state = "refunded",
                        ![id].resolution = Resolution(id, byHand, "refund")]
           row == NewRow(u, "refund", ledger[id].amount, credited, "settled", today)
<1>1. /\ id \in Rows /\ ledger[id] \in Row /\ DOMAIN ledger = Rows
      /\ u \in Users /\ balance[u] \in Nat /\ ledger[id].amount \in Nat
      /\ id \in ChargeIds /\ ledger[id].state # "refunded"
  BY DEF Charges, TypeOK, Rows, Row, RefundsNamed, Refund, NotRefunded
<1>2. RefundsOf(id) = {}
  <2> SUFFICES ASSUME NEW r \in RefundsOf(id) PROVE FALSE
    OBVIOUS
  <2>1. PICK c \in Charges : /\ r \in {DerivedId(c), FreshDerivedId(c)}
                             /\ ledger[c].state = "refunded"
    BY DEF RefundsNamed, RefundsOf
  <2>2. c[1] = id[1]
    BY <2>1 DEF RefundsOf, DerivedId, FreshDerivedId
  <2>3. c = id
    BY <1>1, <2>2 DEF RefundsNamed, ChargeIds
  <2> QED
    BY <1>1, <2>1, <2>3
<1>3. new \notin Rows
  <2>1. CASE DerivedId(id) \in Rows
    <3>1. new = FreshDerivedId(id)
      BY <2>1 DEF RefundId
    <3>2. FreshDerivedId(id) \in Rows => FreshDerivedId(id) \in RefundsOf(id)
      BY DEF RefundsNamed, RefundsOf, FreshDerivedId
    <3> QED
      BY <1>2, <3>1, <3>2
  <2>2. CASE DerivedId(id) \notin Rows
    BY <2>2 DEF RefundId
  <2> QED
    BY <2>1, <2>2
<1>4. /\ DOMAIN marked = Rows
      /\ \A r \in Rows : r # id => marked[r] = ledger[r]
      /\ marked[id] = [[ledger[id] EXCEPT !.state = "refunded"]
                          EXCEPT !.resolution = Resolution(id, byHand, "refund")]
  BY <1>1
<1>5. /\ ledger' = WithRow(marked, new, row)
      /\ balance' = [balance EXCEPT ![u] = credited]
      /\ lastRow' = lastRow + 1
  BY DEF Refund
<1>6. /\ Rows' = Rows \cup {new}
      /\ \A r \in Rows : ledger'[r] = marked[r]
      /\ ledger'[new] = row
  BY <1>3, <1>4, <1>5 DEF WithRow, Rows
<1>7. /\ ledger'[id].state = "refunded"
      /\ ledger'[id].resolution = Resolution(id, byHand, "refund")
      /\ SameMoney(id)
  BY <1>1, <1>4, <1>6, ZenonT(30) DEF Row, SameMoney
<1>8. \A r \in Rows : SameMoney(r)
  BY <1>4, <1>6, <1>7 DEF SameMoney
<1>9. /\ ledger'[new].user = u /\ ledger'[new].n = lastRow + 1
      /\ ledger'[new].after = credited /\ Delta(ledger'[new]) = ledger[id].amount
      /\ ledger'[new].kind = "refund" /\ ledger'[new].amount = ledger[id].amount
      /\ ledger'[new].resolution = "none"
  BY <1>6 DEF NewRow, Delta
<1>10. Appended(new, u)
  <2> HIDE DEF new, credited, marked, row
  <2> QED
    BY <1>3, <1>5, <1>6, <1>8, <1>9 DEF Appended, credited
<1>11. byHand => ledger[id].state = "pending"
  BY DEF Refund, MayResolve
<1> QED
  BY <1>1, <1>2, <1>4, <1>6, <1>7, <1>9, <1>10, <1>11

\* topup() appends one row with what it paid in and touches no other row.
LEMMA TopupEffect ==
  ASSUME TypeOK, NEW u \in Users, NEW a \in TopupAmounts, NEW id \in TopupIds,
         Topup(u, a, id)
  PROVE  /\ Appended(id, u)
         /\ \A r \in Rows : ledger'[r] = ledger[r]
         /\ ledger'[id].kind = "topup" /\ ledger'[id].resolution = "none"
<1>1. a \in Nat /\ balance[u] \in Nat
  BY AmountsAssumption DEF TypeOK
<1>2. /\ id \notin Rows
      /\ Rows' = Rows \cup {id}
      /\ \A r \in Rows : ledger'[r] = ledger[r]
      /\ ledger'[id] = NewRow(u, "topup", a, balance[u] + a, "settled", today)
      /\ lastRow' = lastRow + 1
      /\ balance' = [balance EXCEPT ![u] = balance[u] + a]
  BY DEF Topup, WithRow, Rows, IdUnused, TypeOK
<1> QED
  BY <1>1, <1>2 DEF Appended, SameMoney, NewRow, Delta

-----------------------------------------------------------------------------
(* The inductive invariant, one conjunct at a time.                        *)

\* Every operation keeps the trail: balance_after of a user's newest row is
\* the balance, and each row follows from the one before it.
LEMMA TrailStep ==
  ASSUME IInv, TypeOK', [Next]_vars
  PROVE  Trail'
<1> USE DEF IInv, Trail
<1>1. ASSUME NEW call \in calls, Charge(call) PROVE Trail'
  BY <1>1, ChargeEffect, TrailAppended
<1>2. ASSUME NEW id \in Charges, NEW byHand \in BOOLEAN, Settle(id, byHand)
      PROVE  Trail'
  BY <1>2, SettleEffect, TrailKept
<1>3. ASSUME NEW id \in Charges, NEW byHand \in BOOLEAN, Refund(id, byHand)
      PROVE  Trail'
  <2>1. ledger[id].user \in Users
    BY DEF Charges, TypeOK, Row
  <2> QED
    BY <1>3, <2>1, RefundEffect, TrailAppended
<1>4. ASSUME NEW u \in Users, NEW a \in TopupAmounts, NEW id \in TopupIds,
             Topup(u, a, id)
      PROVE  Trail'
  BY <1>4, TopupEffect, TrailAppended
<1>5. ASSUME UNCHANGED <<balance, ledger, lastRow>> PROVE Trail'
  <2>1. MoneyKept
    BY <1>5 DEF MoneyKept, SameMoney, Rows
  <2> QED
    BY <2>1, TrailKept
<1> QED
  BY <1>1, <1>2, <1>3, <1>4, <1>5
     DEF Next, vars, tables, CreateUser, SetUserStatus, StartCharge, AbandonCharge,
         RefundAgain, Midnight

\* Refund rows keep their names and their charges: only refund() writes one,
\* for a charge that has none.
LEMMA RefundsStep ==
  ASSUME IInv, [Next]_vars
  PROVE  RefundsNamed'
<1> USE DEF IInv
<1>a. /\ Charges \subseteq ChargeIds /\ Charges \subseteq Rows
      /\ \A r \in Rows : ledger[r] \in Row
      /\ \A id \in ChargeIds : id[2] = "plain" /\ id = <<id[1], "plain">>
  BY DEF RefundsNamed, Charges, TypeOK, ChargeIds
<1>1. ASSUME NEW call \in calls, Charge(call) PROVE RefundsNamed'
  <2> DEFINE new == call.id
  <2>0. /\ new \in ChargeIds /\ Appended(new, call.user)
        /\ \A r \in Rows : ledger'[r] = ledger[r]
        /\ ledger'[new] = NewRow(call.user, "charge", call.amount,
                            balance[call.user] - call.amount, "pending", call.day)
    BY <1>1, ChargeEffect
  <2>1. /\ new \in ChargeIds /\ new \notin Rows
        /\ Rows' = Rows \cup {new}
        /\ \A r \in Rows : ledger'[r] = ledger[r]
        /\ ledger'[new].kind = "charge" /\ ledger'[new].state = "pending"
    BY <2>0 DEF Appended, NewRow
  <2>2. Charges' = Charges \cup {new}
    BY <2>1 DEF Charges
  <2>3. \A id \in Charges : RefundsOf(id)' = RefundsOf(id)
    BY <1>a, <2>1 DEF RefundsOf, DerivedId, FreshDerivedId
  <2> QED
    BY <1>a, <2>1, <2>2, <2>3 DEF RefundsNamed
<1>2. ASSUME NEW id \in Charges, NEW byHand \in BOOLEAN, Settle(id, byHand)
      PROVE  RefundsNamed'
  <2>1. /\ Rows' = Rows
        /\ \A r \in Rows : SameMoney(r)
        /\ \A r \in Rows : r # id => ledger'[r] = ledger[r]
        /\ ledger'[id].state = Settled(ledger[id].state)
    BY <1>2, SettleEffect DEF MoneyKept
  <2>2. \A r \in Rows : ledger'[r].state = "refunded" <=> ledger[r].state = "refunded"
    BY <1>a, <2>1 DEF Settled
  <2>3. Charges' = Charges
    BY <2>1 DEF Charges, SameMoney
  <2>4. \A c \in Charges : RefundsOf(c)' = RefundsOf(c)
    BY <2>1 DEF RefundsOf, SameMoney
  <2> QED
    BY <1>a, <2>1, <2>2, <2>3, <2>4 DEF RefundsNamed, SameMoney
<1>3. ASSUME NEW id \in Charges, NEW byHand \in BOOLEAN, Refund(id, byHand)
      PROVE  RefundsNamed'
  <2> DEFINE new == RefundId(id)
  <2>1. /\ RefundsOf(id) = {}
        /\ new \notin Rows
        /\ Rows' = Rows \cup {new}
        /\ \A r \in Rows : SameMoney(r)
        /\ \A r \in Rows : r # id => ledger'[r] = ledger[r]
        /\ ledger'[id].state = "refunded"
        /\ ledger'[new].kind = "refund"
        /\ ledger'[new].user = ledger[id].user
        /\ ledger'[new].amount = ledger[id].amount
    BY <1>3, RefundEffect DEF Appended
  <2>2. new \in {DerivedId(id), FreshDerivedId(id)}
    BY DEF RefundId
  <2> HIDE DEF new
  <2>3. Charges' = Charges
    BY <2>1 DEF Charges, SameMoney
  <2>4. RefundsOf(id)' = {new}
    BY <2>1, <2>2 DEF RefundsOf, SameMoney
  <2>5. \A c \in Charges : c # id => RefundsOf(c)' = RefundsOf(c)
    <3>1. \A c \in Charges : c # id => c[1] # id[1]
      BY <1>a
    <3>2. \A c \in Charges : c # id => new \notin {DerivedId(c), FreshDerivedId(c)}
      BY <2>2, <3>1 DEF DerivedId, FreshDerivedId
    <3> QED
      BY <2>1, <3>2 DEF RefundsOf, SameMoney
  <2>6. \A r \in Rows' : r[2] = "refund:uuid" => ledger'[r].kind = "refund"
    BY <2>1 DEF RefundsNamed, SameMoney
  <2>7. \A r \in Rows' : ledger'[r].kind = "refund" =>
          \E c \in Charges : /\ r \in {DerivedId(c), FreshDerivedId(c)}
                             /\ ledger'[c].state = "refunded"
                             /\ ledger'[r].user = ledger'[c].user
                             /\ ledger'[r].amount = ledger'[c].amount
    BY <1>a, <2>1, <2>2 DEF RefundsNamed, SameMoney
  <2>8. \A c \in Charges : ledger'[c].state = "refunded" =>
          RefundsOf(c)' # {} /\ \A r, s \in RefundsOf(c)' : r = s
    BY <1>a, <2>1, <2>4, <2>5 DEF RefundsNamed
  <2> QED
    BY <1>a, <2>3, <2>6, <2>7, <2>8 DEF RefundsNamed
<1>4. ASSUME NEW u \in Users, NEW a \in TopupAmounts, NEW id \in TopupIds,
             Topup(u, a, id)
      PROVE  RefundsNamed'
  <2>1. /\ id \notin Rows
        /\ Rows' = Rows \cup {id}
        /\ \A r \in Rows : ledger'[r] = ledger[r]
        /\ ledger'[id].kind = "topup"
    BY <1>4, TopupEffect DEF Appended
  <2>2. id[2] # "refund:uuid"
    BY TopupIdsAssumption
  <2>3. Charges' = Charges
    BY <2>1 DEF Charges
  <2>4. \A c \in Charges : RefundsOf(c)' = RefundsOf(c)
    BY <2>1 DEF RefundsOf
  <2> QED
    BY <1>a, <2>1, <2>2, <2>3, <2>4 DEF RefundsNamed
<1>5. ASSUME UNCHANGED ledger PROVE RefundsNamed'
  BY <1>5 DEF RefundsNamed, Rows, Charges, RefundsOf
<1> QED
  BY <1>1, <1>2, <1>3, <1>4, <1>5
     DEF Next, vars, tables, CreateUser, SetUserStatus, StartCharge, AbandonCharge,
         RefundAgain, Midnight

Pending == {id \in Charges : ledger[id].state = "pending"}

\* Freeing the slot of a charge that stops being pending, and of no other,
\* keeps slots and pending charges in step.
LEMMA SlotReleased ==
  ASSUME InflightIsPending, NEW id, ReleaseSlot(id),
         Pending' = Pending \ {id},
         \A c \in Pending : ledger'[c].user = ledger[c].user
  PROVE  InflightIsPending'
<1>1. inflight = {[id |-> c, user |-> ledger[c].user] : c \in Pending}
  BY DEF InflightIsPending, Pending
<1>2. inflight' = {[id |-> c, user |-> ledger'[c].user] : c \in Pending'}
  <2>1. ASSUME NEW x \in inflight'
        PROVE  \E c \in Pending' : x = [id |-> c, user |-> ledger'[c].user]
    <3>1. x \in inflight /\ x.id # id
      BY <2>1 DEF ReleaseSlot
    <3>2. PICK c \in Pending : x = [id |-> c, user |-> ledger[c].user]
      BY <1>1, <3>1
    <3> QED
      BY <3>1, <3>2
  <2>2. ASSUME NEW c \in Pending'
        PROVE  [id |-> c, user |-> ledger'[c].user] \in inflight'
    <3>1. c \in Pending /\ c # id /\ ledger'[c].user = ledger[c].user
      BY <2>2
    <3>2. [id |-> c, user |-> ledger[c].user] \in inflight
      BY <1>1, <3>1
    <3> QED
      BY <3>1, <3>2 DEF ReleaseSlot
  <2> QED
    BY <2>1, <2>2
<1> QED
  BY <1>2 DEF InflightIsPending, Pending

\* Every operation keeps slots and pending charges in step: charge() makes
\* one of each in a transaction, settle() and refund() end both.
LEMMA InflightStep ==
  ASSUME IInv, [Next]_vars
  PROVE  InflightIsPending'
<1> USE DEF IInv
<1>a. \A r \in Rows : ledger[r] \in Row
  BY DEF TypeOK
<1>1. ASSUME NEW call \in calls, Charge(call) PROVE InflightIsPending'
  <2> DEFINE new == call.id
  <2>1. /\ Appended(new, call.user)
        /\ \A r \in Rows : ledger'[r] = ledger[r]
        /\ ledger'[new] = NewRow(call.user, "charge", call.amount,
                            balance[call.user] - call.amount, "pending", call.day)
        /\ inflight' = inflight \cup {[id |-> new, user |-> call.user]}
    BY <1>1, ChargeEffect
  <2>2. /\ new \notin Rows /\ Rows' = Rows \cup {new}
        /\ ledger'[new].kind = "charge" /\ ledger'[new].state = "pending"
        /\ ledger'[new].user = call.user
    BY <2>1 DEF Appended, NewRow
  <2>3. Pending' = Pending \cup {new}
    BY <2>1, <2>2 DEF Pending, Charges
  <2>4. \A c \in Pending : c \in Rows /\ ledger'[c].user = ledger[c].user
    BY <2>1 DEF Pending, Charges
  <2>5. inflight = {[id |-> c, user |-> ledger[c].user] : c \in Pending}
    BY DEF InflightIsPending, Pending
  <2>6. inflight' = {[id |-> c, user |-> ledger'[c].user] : c \in Pending'}
    BY <2>1, <2>2, <2>3, <2>4, <2>5
  <2> QED
    BY <2>6 DEF InflightIsPending, Pending
<1>2. ASSUME NEW id \in Charges, NEW byHand \in BOOLEAN, Settle(id, byHand)
      PROVE  InflightIsPending'
  <2>1. /\ Rows' = Rows
        /\ \A r \in Rows : SameMoney(r)
        /\ \A r \in Rows : r # id => ledger'[r] = ledger[r]
        /\ ledger'[id].state = Settled(ledger[id].state)
        /\ ReleaseSlot(id)
    BY <1>2, SettleEffect DEF MoneyKept, Settle
  <2>2. ledger'[id].state # "pending"
    BY <1>a, <2>1 DEF Settled, Charges, Row
  <2>3. Pending' = Pending \ {id}
    BY <2>1, <2>2 DEF Pending, Charges, SameMoney
  <2> QED
    BY <2>1, <2>3, SlotReleased DEF Pending, Charges, SameMoney
<1>3. ASSUME NEW id \in Charges, NEW byHand \in BOOLEAN, Refund(id, byHand)
      PROVE  InflightIsPending'
  <2>1. /\ Rows' = Rows \cup {RefundId(id)}
        /\ RefundId(id) \notin Rows
        /\ \A r \in Rows : SameMoney(r)
        /\ \A r \in Rows : r # id => ledger'[r] = ledger[r]
        /\ ledger'[id].state = "refunded"
        /\ ledger'[RefundId(id)].kind = "refund"
        /\ ReleaseSlot(id)
    BY <1>3, RefundEffect DEF Appended, Refund
  <2>2. Pending' = Pending \ {id}
    BY <2>1 DEF Pending, Charges, SameMoney
  <2> QED
    BY <2>1, <2>2, SlotReleased DEF Pending, Charges, SameMoney
<1>4. ASSUME NEW u \in Users, NEW a \in TopupAmounts, NEW id \in TopupIds,
             Topup(u, a, id)
      PROVE  InflightIsPending'
  <2>1. /\ Rows' = Rows \cup {id}
        /\ \A r \in Rows : ledger'[r] = ledger[r]
        /\ ledger'[id].kind = "topup"
    BY <1>4, TopupEffect DEF Appended
  <2>0. inflight' = inflight
    BY <1>4 DEF Topup
  <2>2. id \notin Rows
    BY <1>4, TopupEffect DEF Appended
  <2>3. Pending' = Pending
    BY <2>1, <2>2 DEF Pending, Charges
  <2>4. \A c \in Pending : ledger'[c].user = ledger[c].user
    BY <2>1 DEF Pending, Charges
  <2>5. inflight = {[id |-> c, user |-> ledger[c].user] : c \in Pending}
    BY DEF InflightIsPending, Pending
  <2>6. inflight' = {[id |-> c, user |-> ledger'[c].user] : c \in Pending'}
    BY <2>0, <2>3, <2>4, <2>5
  <2> QED
    BY <2>6 DEF InflightIsPending, Pending
<1>5. ASSUME NEW id \in Charges, RefundAgain(id) PROVE InflightIsPending'
  <2>1. /\ ledger' = ledger /\ ReleaseSlot(id) /\ id \notin Pending
    BY <1>5 DEF RefundAgain, Pending
  <2>2. Pending' = Pending \ {id}
    BY <2>1 DEF Pending, Charges, Rows
  <2> QED
    BY <2>1, <2>2, SlotReleased
<1>6. ASSUME UNCHANGED <<ledger, inflight>> PROVE InflightIsPending'
  BY <1>6 DEF InflightIsPending, Charges, Rows
<1> QED
  BY <1>1, <1>2, <1>3, <1>4, <1>5, <1>6
     DEF Next, vars, tables, CreateUser, SetUserStatus, StartCharge, AbandonCharge,
         Midnight

\* Adding an element makes a finite set larger by at most one.
LEMMA OneMore ==
  ASSUME NEW S, NEW x, IsFiniteSet(S)
  PROVE  /\ Cardinality(S \cup {x}) \in Nat
         /\ Cardinality(S \cup {x}) <= Cardinality(S) + 1
<1>1. Cardinality(S) \in Nat
  BY FS_CardinalityType
<1>2. Cardinality(S \cup {x}) = IF x \in S THEN Cardinality(S) ELSE Cardinality(S) + 1
  BY FS_AddElement
<1> QED
  BY <1>1, <1>2

\* Only charge() adds a slot, and it counted the user's slots in the same
\* transaction.
LEMMA BoundStep ==
  ASSUME IInv, [Next]_vars
  PROVE  IsFiniteSet(inflight)' /\ InflightBounded'
<1> USE DEF IInv
<1>a. \A u \in Users : /\ IsFiniteSet(InflightOf(u))
                       /\ Cardinality(InflightOf(u)) \in Nat
  BY FS_Subset, FS_CardinalityType DEF InflightOf
<1>1. ASSUME NEW call \in calls, Charge(call)
      PROVE  IsFiniteSet(inflight)' /\ InflightBounded'
  <2> DEFINE slot == [id |-> call.id, user |-> call.user]
  <2>1. inflight' = inflight \cup {slot}
    BY <1>1 DEF Charge
  <2>2. IsFiniteSet(inflight')
    BY <2>1, FS_AddElement
  <2>3. call.user \in Users /\ Cardinality(InflightOf(call.user)) < InflightLimit
    BY <1>1 DEF Charge, InflightFree, TypeOK, Call
  <2>4. InflightOf(call.user)' = InflightOf(call.user) \cup {slot}
    BY <2>1 DEF InflightOf
  <2>5. Cardinality(InflightOf(call.user)') <= InflightLimit
    <3>1. Cardinality(InflightOf(call.user) \cup {slot})
            <= Cardinality(InflightOf(call.user)) + 1
      BY <1>a, <2>3, OneMore
    <3>2. Cardinality(InflightOf(call.user) \cup {slot}) \in Nat
      BY <1>a, <2>3, OneMore
    <3> QED
      BY <1>a, <2>3, <2>4, <3>1, <3>2, InflightAssumption
  <2>6. \A u \in Users : u # call.user => InflightOf(u)' = InflightOf(u)
    BY <2>1 DEF InflightOf
  <2> QED
    BY <2>2, <2>5, <2>6 DEF InflightBounded
<1>2. ASSUME inflight' \subseteq inflight
      PROVE  IsFiniteSet(inflight)' /\ InflightBounded'
  <2>1. IsFiniteSet(inflight')
    BY <1>2, FS_Subset
  <2>2. \A u \in Users : /\ InflightOf(u)' \subseteq InflightOf(u)
    BY <1>2 DEF InflightOf
  <2>3. \A u \in Users : /\ Cardinality(InflightOf(u)') <= Cardinality(InflightOf(u))
                         /\ Cardinality(InflightOf(u)') \in Nat
    BY <1>a, <2>2, FS_Subset, FS_CardinalityType
  <2>4. \A u \in Users : Cardinality(InflightOf(u)') <= InflightLimit
    BY <1>a, <2>3, InflightAssumption DEF InflightBounded
  <2> QED
    BY <2>1, <2>4 DEF InflightBounded
<1> QED
  BY <1>1, <1>2
     DEF Next, vars, tables, CreateUser, SetUserStatus, StartCharge, AbandonCharge,
         Settle, Refund, RefundAgain, Topup, ReleaseSlot, Midnight

\* A resolution is only written over a pending charge, and ends its wait.
LEMMA ResolvedStep ==
  ASSUME IInv, [Next]_vars
  PROVE  ResolvedIsDone'
<1> USE DEF IInv
<1>1. ASSUME NEW call \in calls, Charge(call) PROVE ResolvedIsDone'
  <2>1. /\ Rows' = Rows \cup {call.id}
        /\ \A r \in Rows : ledger'[r] = ledger[r]
        /\ ledger'[call.id] = NewRow(call.user, "charge", call.amount,
                                balance[call.user] - call.amount, "pending", call.day)
    BY <1>1, ChargeEffect DEF Appended
  <2>2. ledger'[call.id].resolution = "none"
    BY <2>1 DEF NewRow
  <2> QED
    BY <2>1, <2>2 DEF ResolvedIsDone
<1>2. ASSUME NEW id \in Charges, NEW byHand \in BOOLEAN, Settle(id, byHand)
      PROVE  ResolvedIsDone'
  <2>1. /\ Rows' = Rows
        /\ \A r \in Rows : r # id => ledger'[r] = ledger[r]
        /\ ledger'[id].state = Settled(ledger[id].state)
    BY <1>2, SettleEffect DEF MoneyKept
  <2>2. ledger'[id].state # "pending"
    BY <2>1 DEF Settled
  <2> QED
    BY <2>1, <2>2 DEF ResolvedIsDone
<1>3. ASSUME NEW id \in Charges, NEW byHand \in BOOLEAN, Refund(id, byHand)
      PROVE  ResolvedIsDone'
  <2>1. /\ Rows' = Rows \cup {RefundId(id)}
        /\ \A r \in Rows : r # id => ledger'[r] = ledger[r]
        /\ ledger'[id].state = "refunded"
        /\ ledger'[RefundId(id)].resolution = "none"
    BY <1>3, RefundEffect DEF Appended
  <2> QED
    BY <2>1 DEF ResolvedIsDone
<1>4. ASSUME NEW u \in Users, NEW a \in TopupAmounts, NEW id \in TopupIds,
             Topup(u, a, id)
      PROVE  ResolvedIsDone'
  <2>1. /\ Rows' = Rows \cup {id}
        /\ \A r \in Rows : ledger'[r] = ledger[r]
        /\ ledger'[id].resolution = "none"
    BY <1>4, TopupEffect DEF Appended
  <2> QED
    BY <2>1 DEF ResolvedIsDone
<1>5. ASSUME UNCHANGED ledger PROVE ResolvedIsDone'
  BY <1>5 DEF ResolvedIsDone, Rows
<1> QED
  BY <1>1, <1>2, <1>3, <1>4, <1>5
     DEF Next, vars, tables, CreateUser, SetUserStatus, StartCharge, AbandonCharge,
         RefundAgain, Midnight

\* The empty database satisfies the inductive invariant.
LEMMA IInvInit == Init => IInv
<1> SUFFICES ASSUME Init PROVE IInv
  OBVIOUS
<1>1. Rows = {} /\ Charges = {} /\ inflight = {} /\ \A u \in Users : balance[u] = 0
  BY DEF Init, Rows, Charges
<1>2. IsFiniteSet(inflight) /\ InflightBounded
  BY <1>1, FS_EmptySet, InflightAssumption DEF InflightBounded, InflightOf
<1> QED
  BY <1>1, <1>2, TypeInit
     DEF IInv, RowsNumbered, RefundsNamed, ResolvedIsDone, AuditTrail, InflightIsPending

\* The invariant is inductive.
LEMMA IInvStep == IInv /\ [Next]_vars => IInv'
<1> SUFFICES ASSUME IInv, [Next]_vars PROVE IInv'
  OBVIOUS
<1>1. TypeOK'
  BY TypeStep DEF IInv
<1> QED
  BY <1>1, TrailStep, RefundsStep, ResolvedStep, InflightStep, BoundStep DEF IInv, Trail

\* Every reachable state of the ledger satisfies the inductive invariant: its
\* rows are numbered and named as they should be, its trail and its slots are
\* right.
THEOREM Inductive == Spec => []IInv
  BY IInvInit, IInvStep, PTL DEF Spec

-----------------------------------------------------------------------------
(* What follows for the users of the ledger.                               *)

\* Unfinished charges and inflight slots are the same thing, and nobody ever
\* has more than inflight_limit of them.
THEOREM SlotsArePending == Spec => [](InflightIsPending /\ InflightBounded)
<1>1. IInv => InflightIsPending /\ InflightBounded
  BY DEF IInv
<1> QED
  BY <1>1, Inductive, PTL

\* The column balance_after is a complete account of how every balance came
\* about, from zero to what it is now.
THEOREM TrailIsComplete == Spec => []AuditTrail
<1>1. IInv => AuditTrail
  BY DEF IInv
<1> QED
  BY <1>1, Inductive, PTL

\* No sequence of settles, refunds, byHand resolutions and topups with chosen
\* ids pays a charge back twice, or to somebody else, or not in full.
THEOREM NoDoubleRefund == Spec => []RefundedOnce
<1>1. IInv => RefundedOnce
  <2> SUFFICES ASSUME IInv PROVE RefundedOnce
    OBVIOUS
  <2> USE DEF IInv
  <2>1. \A id \in Charges : id \in ChargeIds /\ id = <<id[1], "plain">>
    BY DEF RefundsNamed, ChargeIds
  <2>2. ASSUME NEW id \in Charges, NEW r \in RefundsOf(id)
        PROVE  /\ ledger[id].state = "refunded"
               /\ ledger[r].user = ledger[id].user
               /\ ledger[r].amount = ledger[id].amount
    <3>1. r \in Rows /\ ledger[r].kind = "refund" /\ r[1] = id[1]
      BY DEF RefundsOf, DerivedId, FreshDerivedId
    <3>2. PICK c \in Charges : /\ r \in {DerivedId(c), FreshDerivedId(c)}
                               /\ ledger[c].state = "refunded"
                               /\ ledger[r].user = ledger[c].user
                               /\ ledger[r].amount = ledger[c].amount
      BY <3>1 DEF RefundsNamed
    <3>3. c = id
      BY <2>1, <3>1, <3>2 DEF DerivedId, FreshDerivedId
    <3> QED
      BY <3>2, <3>3
  <2>3. ASSUME NEW id \in Charges
        PROVE  Cardinality(RefundsOf(id)) = IF ledger[id].state = "refunded" THEN 1 ELSE 0
    <3>1. CASE ledger[id].state = "refunded"
      <4>1. PICK r : RefundsOf(id) = {r}
        BY <3>1, ZenonT(30) DEF RefundsNamed
      <4> QED
        BY <3>1, <4>1, FS_Singleton
    <3>2. CASE ledger[id].state # "refunded"
      <4>1. RefundsOf(id) = {}
        BY <2>2, <3>2
      <4> QED
        BY <3>2, <4>1, FS_EmptySet
    <3> QED
      BY <3>1, <3>2
  <2>4. \A r \in Rows :
          ledger[r].kind = "refund" => \E id \in Charges : r \in RefundsOf(id)
    BY DEF RefundsNamed, RefundsOf
  <2> QED
    BY <2>2, <2>3, <2>4 DEF RefundedOnce
<1> QED
  BY <1>1, Inductive, PTL

\* Nobody rewrites the ledger: rows are only added, a charge only moves from
\* pending to settled to refunded, and a recorded resolution stays.
THEOREM LedgerAppendOnly == Spec => AppendOnly
<1> DEFINE RowStays(id) ==
             /\ id \in DOMAIN ledger'
             /\ \A f \in {"user", "kind", "amount", "after", "day", "n"} :
                  ledger'[id][f] = ledger[id][f]
             /\ MayBecome(ledger[id].state, ledger'[id].state)
             /\ ledger[id].resolution # "none" =>
                  ledger'[id].resolution = ledger[id].resolution
<1>1. ASSUME IInv, Next, NEW r \in Rows PROVE RowStays(r)
  <2> USE DEF IInv
  <2>a. ledger[r] \in Row
    BY <1>1 DEF TypeOK
  <2>1. ASSUME NEW call \in calls, Charge(call) PROVE RowStays(r)
    <3>1. r \in Rows' /\ ledger'[r] = ledger[r]
      BY <1>1, <2>1, ChargeEffect DEF Appended
    <3> QED
      BY <3>1 DEF MayBecome, Rows
  <2>2. ASSUME NEW id \in Charges, NEW byHand \in BOOLEAN, Settle(id, byHand)
        PROVE  RowStays(r)
    <3>1. /\ r \in Rows' /\ SameMoney(r)
          /\ r # id => ledger'[r] = ledger[r]
          /\ ledger'[id].state = Settled(ledger[id].state)
          /\ ledger'[id].resolution = Resolution(id, byHand, "settle")
          /\ byHand => ledger[id].state = "pending"
      BY <1>1, <2>2, SettleEffect DEF MoneyKept
    <3>2. MayBecome(ledger[r].state, ledger'[r].state)
      BY <2>a, <3>1 DEF Settled, MayBecome
    <3>3. ledger[r].resolution # "none" => ledger'[r].resolution = ledger[r].resolution
      <4>1. CASE r # id
        BY <3>1, <4>1
      <4>2. CASE r = id
        <5>1. byHand => ledger[r].resolution = "none"
          BY <1>1, <3>1, <4>2 DEF ResolvedIsDone
        <5>2. ~byHand => ledger'[r].resolution = ledger[r].resolution
          BY <3>1, <4>2 DEF Resolution
        <5> QED
          BY <5>1, <5>2
      <4> QED
        BY <4>1, <4>2
    <3> QED
      BY <3>1, <3>2, <3>3 DEF SameMoney, Rows
  <2>3. ASSUME NEW id \in Charges, NEW byHand \in BOOLEAN, Refund(id, byHand)
        PROVE  RowStays(r)
    <3>1. /\ r \in Rows' /\ SameMoney(r)
          /\ r # id => ledger'[r] = ledger[r]
          /\ ledger'[id].state = "refunded"
          /\ ledger'[id].resolution = Resolution(id, byHand, "refund")
          /\ byHand => ledger[id].state = "pending"
      BY <1>1, <2>3, RefundEffect DEF Appended
    <3>2. MayBecome(ledger[r].state, ledger'[r].state)
      BY <2>a, <3>1 DEF MayBecome, Row
    <3>3. ledger[r].resolution # "none" => ledger'[r].resolution = ledger[r].resolution
      <4>1. CASE r # id
        BY <3>1, <4>1
      <4>2. CASE r = id
        <5>1. byHand => ledger[r].resolution = "none"
          BY <1>1, <3>1, <4>2 DEF ResolvedIsDone
        <5>2. ~byHand => ledger'[r].resolution = ledger[r].resolution
          BY <3>1, <4>2 DEF Resolution
        <5> QED
          BY <5>1, <5>2
      <4> QED
        BY <4>1, <4>2
    <3> QED
      BY <3>1, <3>2, <3>3 DEF SameMoney, Rows
  <2>4. ASSUME NEW u \in Users, NEW a \in TopupAmounts, NEW id \in TopupIds,
               Topup(u, a, id)
        PROVE  RowStays(r)
    <3>1. r \in Rows' /\ ledger'[r] = ledger[r]
      BY <1>1, <2>4, TopupEffect DEF Appended
    <3> QED
      BY <3>1 DEF MayBecome, Rows
  <2>5. ASSUME ledger' = ledger PROVE RowStays(r)
    BY <1>1, <2>5 DEF MayBecome, Rows
  <2> QED
    BY <1>1, <2>1, <2>2, <2>3, <2>4, <2>5
       DEF Next, tables, CreateUser, SetUserStatus, StartCharge, AbandonCharge,
           RefundAgain, Midnight
<1>2. IInv /\ [Next]_vars => [\A id \in Rows : RowStays(id)]_vars
  BY <1>1
<1> QED
  BY <1>2, Inductive, PTL DEF Spec, AppendOnly

-----------------------------------------------------------------------------
(* Refinement: every step of the ledger is a step of CreditAccounts, or    *)
(* changes nothing CreditAccounts can see.                                 *)

AccountsUnchanged == UNCHANGED <<balance, status, Holds, Deposits>>

\* The reservations CreditAccounts counts are the slots charge() counts.
LEMMA SlotsAreHolds ==
  ASSUME IInv, NEW u \in Users
  PROVE  Cardinality(Accounts!HeldBy(u)) = Cardinality(InflightOf(u))
<1> USE DEF IInv
<1> DEFINE held == {id \in Charges : ledger[id].user = u /\ ledger[id].state = "pending"}
           slot == [id \in held |-> [id |-> id, user |-> u]]
<1>1. Accounts!HeldBy(u) = held
  BY DEF Accounts!HeldBy, Holds
<1>2. InflightOf(u) = {[id |-> id, user |-> u] : id \in held}
  BY DEF InflightOf, InflightIsPending
<1>3. IsFiniteSet(InflightOf(u))
  BY FS_Subset DEF InflightOf
<1>4. slot \in Bijection(held, InflightOf(u))
  <2>1. slot \in [held -> InflightOf(u)]
    BY <1>2
  <2>2. \A a, b \in held : slot[a] = slot[b] => a = b
    <3> SUFFICES ASSUME NEW a \in held, NEW b \in held, slot[a] = slot[b] PROVE a = b
      OBVIOUS
    <3>1. slot[a].id = a /\ slot[b].id = b
      OBVIOUS
    <3> QED
      BY <3>1
  <2>3. \A s \in InflightOf(u) : \E a \in held : slot[a] = s
    BY <1>2
  <2> QED
    BY <2>1, <2>2, <2>3 DEF Bijection, Injection, Surjection, IsInjective
<1>5. ExistsBijection(InflightOf(u), held)
  BY <1>4, Fun_ExistsBijSymmetric DEF ExistsBijection
<1>6. Cardinality(held) = Cardinality(InflightOf(u))
  BY <1>3, <1>5, FS_Bijection
<1> QED
  BY <1>1, <1>6

\* charge() is a Reserve of the abstract accounts.
LEMMA ChargeReserves ==
  ASSUME IInv, NEW call \in calls, Charge(call)
  PROVE  Accounts!Reserve(call.user, call.id, call.amount)
<1> USE DEF IInv
<1> DEFINE u == call.user
           new == call.id
           hold == [user |-> u, amount |-> call.amount, state |-> "pending"]
<1>1. /\ u \in Users /\ call.amount \in Nat /\ new \in ChargeIds
      /\ Appended(new, u)
      /\ \A r \in Rows : ledger'[r] = ledger[r]
      /\ ledger'[new] = NewRow(u, "charge", call.amount,
                          balance[u] - call.amount, "pending", call.day)
  BY ChargeEffect
<1>2. /\ new \notin Rows /\ Rows' = Rows \cup {new}
      /\ ledger'[new].kind = "charge" /\ ledger'[new].state = "pending"
      /\ ledger'[new].user = u /\ ledger'[new].amount = call.amount
  BY <1>1 DEF Appended, NewRow
<1>3. Charges' = Charges \cup {new} /\ new \notin Charges /\ Topups' = Topups
  BY <1>1, <1>2 DEF Charges, Topups
<1>4. Holds' = [x \in Charges \cup {new} |-> IF x = new THEN hold ELSE Holds[x]]
  BY <1>1, <1>2, <1>3 DEF Holds, Charges
<1>5. Deposits' = Deposits
  BY <1>1, <1>3 DEF Deposits, Topups
<1>6. DOMAIN Holds = Charges /\ DOMAIN Deposits = Topups
  BY DEF Holds, Deposits
<1>7. Cardinality(Accounts!HeldBy(u)) < InflightLimit
  <2>1. Cardinality(InflightOf(u)) < InflightLimit
    BY DEF Charge, InflightFree
  <2>2. Cardinality(Accounts!HeldBy(u)) = Cardinality(InflightOf(u))
    BY <1>1, SlotsAreHolds
  <2> QED
    BY <2>1, <2>2
<1>8. /\ status[u] = "active" /\ status' = status
      /\ balance' = [balance EXCEPT ![u] = balance[u] - call.amount]
  BY DEF Charge
<1>9. call.amount <= balance[u]
  BY <1>1 DEF Charge, CanPay, TypeOK
<1>10. new \notin Accounts!Used
  BY <1>2, <1>6 DEF Accounts!Used, Charges, Topups
<1>11. Holds' = Accounts!With(Holds, new, hold)
  BY <1>4, <1>6 DEF Accounts!With
<1>12. Accounts!Cardinality(Accounts!HeldBy(u)) = Cardinality(Accounts!HeldBy(u))
  BY DEF Accounts!Cardinality, Cardinality
<1> QED
  BY <1>5, <1>7, <1>8, <1>9, <1>10, <1>11, <1>12 DEF Accounts!Reserve

\* settle() is a Keep of the abstract accounts or, when the charge is no longer
\* pending, no step of theirs.
LEMMA SettleKeeps ==
  ASSUME IInv, NEW id \in Charges, NEW byHand \in BOOLEAN, Settle(id, byHand)
  PROVE  Accounts!Keep(id) \/ AccountsUnchanged
<1> USE DEF IInv
<1>1. /\ Rows' = Rows
      /\ \A r \in Rows : SameMoney(r)
      /\ \A r \in Rows : r # id => ledger'[r] = ledger[r]
      /\ ledger'[id].state = Settled(ledger[id].state)
  BY SettleEffect DEF MoneyKept
<1>2. Charges' = Charges /\ Topups' = Topups
  BY <1>1 DEF Charges, Topups, SameMoney
<1>3. Deposits' = Deposits
  BY <1>1, <1>2 DEF Deposits, Topups, SameMoney
<1>4. UNCHANGED <<balance, status>>
  BY DEF Settle
<1>5. CASE ledger[id].state = "pending"
  <2>1. Holds' = [x \in Charges |->
                    [user |-> ledger[x].user, amount |-> ledger[x].amount,
                     state |-> IF x = id THEN "settled" ELSE ledger[x].state]]
    BY <1>1, <1>2, <1>5 DEF Holds, Charges, SameMoney, Settled
  <2>2. Holds' = [Holds EXCEPT ![id].state = "settled"]
    BY <2>1 DEF Holds
  <2>3. Holds[id].state = "pending"
    BY <1>5 DEF Holds
  <2> QED
    BY <1>3, <1>4, <2>2, <2>3 DEF Accounts!Keep
<1>6. CASE ledger[id].state # "pending"
  <2>1. Holds' = Holds
    BY <1>1, <1>2, <1>6 DEF Holds, Charges, SameMoney, Settled
  <2> QED
    BY <1>3, <1>4, <2>1 DEF AccountsUnchanged
<1> QED
  BY <1>5, <1>6

\* refund() is a GiveBack of the abstract accounts.
LEMMA RefundGivesBack ==
  ASSUME IInv, NEW id \in Charges, NEW byHand \in BOOLEAN, Refund(id, byHand)
  PROVE  Accounts!GiveBack(id)
<1> USE DEF IInv
<1> DEFINE new == RefundId(id)
<1>1. /\ new \notin Rows
      /\ Rows' = Rows \cup {new}
      /\ \A r \in Rows : SameMoney(r)
      /\ \A r \in Rows : r # id => ledger'[r] = ledger[r]
      /\ ledger'[id].state = "refunded"
      /\ ledger'[new].kind = "refund"
      /\ ledger[id].state # "refunded"
  BY RefundEffect DEF Appended
<1>2. Charges' = Charges /\ Topups' = Topups
  BY <1>1 DEF Charges, Topups, SameMoney
<1>3. Deposits' = Deposits
  BY <1>1, <1>2 DEF Deposits, Topups, SameMoney
<1>4. Holds' = [x \in Charges |->
                  [user |-> ledger[x].user, amount |-> ledger[x].amount,
                   state |-> IF x = id THEN "refunded" ELSE ledger[x].state]]
  BY <1>1, <1>2 DEF Holds, Charges, SameMoney
<1>5. Holds' = [Holds EXCEPT ![id].state = "refunded"]
  BY <1>4 DEF Holds
<1>6. /\ Holds[id].user = ledger[id].user /\ Holds[id].amount = ledger[id].amount
      /\ Holds[id].state # "refunded"
  BY <1>1 DEF Holds
<1>7. /\ balance' = [balance EXCEPT ![ledger[id].user] =
                       balance[ledger[id].user] + ledger[id].amount]
      /\ status' = status
  BY DEF Refund
<1> QED
  BY <1>3, <1>5, <1>6, <1>7 DEF Accounts!GiveBack

\* topup() is a Deposit of the abstract accounts.
LEMMA TopupDeposits ==
  ASSUME IInv, NEW u \in Users, NEW a \in TopupAmounts, NEW id \in TopupIds,
         Topup(u, a, id)
  PROVE  Accounts!Deposit(u, id, a)
<1> USE DEF IInv
<1>1. /\ id \notin Rows /\ Rows' = Rows \cup {id}
      /\ \A r \in Rows : ledger'[r] = ledger[r]
      /\ ledger'[id] = NewRow(u, "topup", a, balance[u] + a, "settled", today)
      /\ UNCHANGED status
      /\ status[u] # "absent" /\ a > 0
      /\ balance' = [balance EXCEPT ![u] = balance[u] + a]
  BY DEF Topup, WithRow, Rows, IdUnused
<1>2. ledger'[id].kind = "topup" /\ ledger'[id].user = u /\ ledger'[id].amount = a
  BY <1>1 DEF NewRow
<1>3. Charges' = Charges /\ Topups' = Topups \cup {id}
  BY <1>1, <1>2 DEF Charges, Topups
<1>4. Holds' = Holds
  BY <1>1, <1>3 DEF Holds, Charges
<1>5. DOMAIN Holds = Charges /\ DOMAIN Deposits = Topups
  BY DEF Holds, Deposits
<1>6. Deposits' = Accounts!With(Deposits, id, [user |-> u, amount |-> a])
  BY <1>1, <1>2, <1>3, <1>5 DEF Deposits, Topups, Accounts!With
<1>7. id \notin Accounts!Used
  BY <1>1, <1>5 DEF Accounts!Used, Charges, Topups
<1> QED
  BY <1>1, <1>4, <1>6, <1>7 DEF Accounts!Deposit

\* The ledger keeps the promises of CreditAccounts.
THEOREM LedgerImplementsAccounts == Spec => ImplementsAccounts
<1>1. Init => Accounts!Init
  <2> SUFFICES ASSUME Init PROVE Accounts!Init
    OBVIOUS
  <2>1. Charges = {} /\ Topups = {}
    BY DEF Init, Charges, Topups, Rows
  <2> QED
    BY <2>1 DEF Init, Accounts!Init, Holds, Deposits
<1>2. IInv /\ [Next]_vars => [Accounts!Next]_(Accounts!vars)
  <2> SUFFICES ASSUME IInv, [Next]_vars
               PROVE  Accounts!Next \/ AccountsUnchanged
    BY DEF Accounts!vars, AccountsUnchanged
  <2> USE DEF IInv
  <2>1. ASSUME NEW u \in Users, NEW limit \in Limits, CreateUser(u, limit)
        PROVE  Accounts!Next
    <3>1. Accounts!Open(u)
      BY <2>1 DEF CreateUser, Accounts!Open, Holds, Deposits, Charges, Topups, Rows
    <3> QED
      BY <3>1 DEF Accounts!Next
  <2>2. ASSUME NEW u \in Users, NEW s \in {"active", "disabled"}, SetUserStatus(u, s)
        PROVE  Accounts!Next
    <3>1. Accounts!SetStanding(u, s)
      BY <2>2 DEF SetUserStatus, Accounts!SetStanding, Holds, Deposits, Charges, Topups, Rows
    <3> QED
      BY <3>1 DEF Accounts!Next
  <2>3. ASSUME NEW call \in calls, Charge(call) PROVE Accounts!Next
    <3>1. /\ call.user \in Users /\ call.id \in Ids
          /\ call.amount \in ChargeAmounts \cup TopupAmounts
      BY ReservedAssumption DEF TypeOK, Call, ChargeIds, Ids, Suffixes
    <3> QED
      BY <2>3, <3>1, ChargeReserves DEF Accounts!Next
  <2>4. ASSUME NEW id \in Charges, NEW byHand \in BOOLEAN, Settle(id, byHand)
        PROVE  Accounts!Next \/ AccountsUnchanged
    BY <2>4, SettleKeeps DEF Accounts!Next, Holds
  <2>5. ASSUME NEW id \in Charges, NEW byHand \in BOOLEAN, Refund(id, byHand)
        PROVE  Accounts!Next
    BY <2>5, RefundGivesBack DEF Accounts!Next, Holds
  <2>6. ASSUME NEW u \in Users, NEW a \in TopupAmounts, NEW id \in TopupIds,
               Topup(u, a, id)
        PROVE  Accounts!Next
    <3>1. id \in Ids
      BY TopupIdsAssumption DEF Ids, Suffixes
    <3> QED
      BY <2>6, <3>1, TopupDeposits DEF Accounts!Next
  <2>7. ASSUME UNCHANGED <<balance, status, ledger>> PROVE AccountsUnchanged
    BY <2>7 DEF AccountsUnchanged, Holds, Deposits, Charges, Topups, Rows
  <2> QED
    BY <2>1, <2>2, <2>3, <2>4, <2>5, <2>6, <2>7
       DEF Next, vars, tables, StartCharge, AbandonCharge, RefundAgain, Midnight
<1> QED
  BY <1>1, <1>2, Inductive, PTL DEF Spec, ImplementsAccounts, Accounts!Spec

-----------------------------------------------------------------------------
(* The books.  The lemmas about sums are stated for any table of rows, so  *)
(* that they can be used for the ledger before a step and after it.        *)

TableSum(table, ids) == SumFunctionOnSet([id \in DOMAIN table |-> table[id].amount], ids)

\* A table whose rows have amounts, and finitely many of its rows.
Summable(table, ids) ==
  /\ ids \subseteq DOMAIN table
  /\ IsFiniteSet(ids)
  /\ \A id \in ids : table[id].amount \in Nat

\* SumCredits is the sum over the ledger.
LEMMA SumOverLedger ==
  /\ \A ids : SumCredits(ids) = TableSum(ledger, ids)
  /\ \A ids : SumCredits(ids)' = TableSum(ledger', ids)
  BY DEF SumCredits, TableSum, Rows

\* Credits add up to naturals.
LEMMA TableSumType ==
  ASSUME NEW table, NEW S, Summable(table, S)
  PROVE  TableSum(table, S) \in Nat
<1> DEFINE amount == [id \in DOMAIN table |-> table[id].amount]
<1>1. \A r \in S : amount[r] \in Nat
  BY DEF Summable
<1>2. SumFunctionOnSet(amount, S) \in Nat
  <2> HIDE DEF amount
  <2> QED BY <1>1, SumType DEF Summable
<1> QED
  BY <1>2 DEF TableSum

\* A sum stays the same while the amounts of its rows do.
LEMMA TableSumSame ==
  ASSUME NEW before, NEW after, NEW S, Summable(before, S), S \subseteq DOMAIN after,
         \A id \in S : before[id].amount = after[id].amount
  PROVE  TableSum(after, S) = TableSum(before, S) /\ Summable(after, S)
<1> DEFINE f == [id \in DOMAIN before |-> before[id].amount]
           g == [id \in DOMAIN after |-> after[id].amount]
<1>1. \A r \in S : f[r] = g[r]
  BY DEF Summable
<1>2. SumFunctionOnSet(f, S) = SumFunctionOnSet(g, S)
  <2> HIDE DEF f, g
  <2> QED BY <1>1, SumSame DEF Summable
<1> QED
  BY <1>2 DEF TableSum, Summable

\* One row more counts with its amount.
LEMMA TableSumWith ==
  ASSUME NEW table, NEW S, Summable(table, S), NEW id \in DOMAIN table, id \notin S,
         table[id].amount \in Nat
  PROVE  TableSum(table, S \cup {id}) = TableSum(table, S) + table[id].amount
<1> DEFINE amount == [r \in DOMAIN table |-> table[r].amount]
<1>1. amount[id] = table[id].amount /\ amount[id] \in Int /\ \A r \in S : amount[r] \in Int
  BY DEF Summable
<1>2. SumFunctionOnSet(amount, S \cup {id}) = SumFunctionOnSet(amount, S) + amount[id]
  <2> HIDE DEF amount
  <2> QED BY <1>1, SumWith DEF Summable
<1> QED
  BY <1>1, <1>2 DEF TableSum

\* More rows add up to no less.
LEMMA TableSumMonotone ==
  ASSUME NEW table, NEW S, Summable(table, S), NEW T \in SUBSET S
  PROVE  TableSum(table, T) <= TableSum(table, S)
<1> DEFINE amount == [r \in DOMAIN table |-> table[r].amount]
<1>1. \A r \in S : amount[r] \in Nat
  BY DEF Summable
<1>2. SumFunctionOnSet(amount, T) <= SumFunctionOnSet(amount, S)
  <2> HIDE DEF amount
  <2> QED BY <1>1, SumMonotone DEF Summable
<1> QED
  BY <1>2 DEF TableSum

RowsOfKind(kind, u) == {id \in RowsOf(u) : ledger[id].kind = kind}

\* Every set of rows of a finite ledger can be summed.
LEMMA LedgerSummable ==
  ASSUME TypeOK, IsFiniteSet(Rows), NEW S \in SUBSET Rows
  PROVE  Summable(ledger, S)
  BY FS_Subset DEF Summable, TypeOK, Row, Rows

\* A row that is appended adds its amount to the credits of its kind and user.
LEMMA CreditsAppended ==
  ASSUME TypeOK, TypeOK', IsFiniteSet(Rows), NEW id, NEW u, Appended(id, u), NEW kind, NEW v
  PROVE  /\ Credits(kind, v) \in Nat
         /\ Credits(kind, v)' = IF v = u /\ kind = ledger'[id].kind
                                  THEN Credits(kind, v) + ledger'[id].amount
                                  ELSE Credits(kind, v)
<1> DEFINE S == RowsOfKind(kind, v)
<1>1. S \in SUBSET Rows /\ Summable(ledger, S)
  BY LedgerSummable DEF RowsOfKind, RowsOf
<1>2. Credits(kind, v) = TableSum(ledger, S) /\ Credits(kind, v)' = TableSum(ledger', S')
  BY SumOverLedger DEF Credits, RowsOfKind
<1>3. TableSum(ledger, S) \in Nat
  BY <1>1, TableSumType
<1>4. S \subseteq Rows' /\ id \in Rows' /\ id \notin S /\ ledger'[id].amount \in Nat
  BY <1>1 DEF Appended, TypeOK, Row
<1>5. TableSum(ledger', S) = TableSum(ledger, S) /\ Summable(ledger', S)
  <2>1. \A r \in S : ledger[r].amount = ledger'[r].amount
    BY <1>1 DEF Appended, SameMoney
  <2> HIDE DEF S
  <2> QED
    BY <1>1, <1>4, <2>1, TableSumSame DEF Rows
<1>6. TableSum(ledger', S \cup {id}) = TableSum(ledger', S) + ledger'[id].amount
  <2> HIDE DEF S
  <2> QED
    BY <1>4, <1>5, TableSumWith DEF Rows
<1>7. S' = IF v = u /\ kind = ledger'[id].kind THEN S \cup {id} ELSE S
  BY DEF Appended, SameMoney, RowsOfKind, RowsOf
<1> HIDE DEF S
<1> QED
  BY <1>2, <1>3, <1>5, <1>6, <1>7

\* A step that moves no money leaves all sums of credits alone.
LEMMA CreditsKept ==
  ASSUME TypeOK, IsFiniteSet(Rows), MoneyKept, NEW kind, NEW v
  PROVE  Credits(kind, v)' = Credits(kind, v)
<1> DEFINE S == RowsOfKind(kind, v)
<1>1. S \in SUBSET Rows /\ Summable(ledger, S)
  BY LedgerSummable DEF RowsOfKind, RowsOf
<1>2. Credits(kind, v) = TableSum(ledger, S) /\ Credits(kind, v)' = TableSum(ledger', S')
  BY SumOverLedger DEF Credits, RowsOfKind
<1>3. S' = S /\ \A r \in S : ledger[r].amount = ledger'[r].amount
  BY DEF MoneyKept, SameMoney, RowsOfKind, RowsOf
<1> HIDE DEF S
<1> QED
  BY <1>1, <1>2, <1>3, TableSumSame DEF MoneyKept, Rows

\* There are finitely many rows, and only of users who exist.
RowsOfSomebody == IsFiniteSet(Rows) /\ \A id \in Rows : status[ledger[id].user] # "absent"

\* Every row goes on belonging to some user, whichever operation commits.
LEMMA RowsStep ==
  ASSUME IInv, RowsOfSomebody, [Next]_vars
  PROVE  RowsOfSomebody'
<1> USE DEF IInv, RowsOfSomebody
<1>a. ASSUME NEW id, NEW u \in Users, Appended(id, u), status[u] # "absent", status' = status
      PROVE  RowsOfSomebody'
  BY <1>a, FS_AddElement DEF Appended, SameMoney
<1>1. ASSUME NEW call \in calls, Charge(call) PROVE RowsOfSomebody'
  BY <1>1, <1>a, ChargeEffect DEF Charge
<1>2. ASSUME NEW id \in Charges, NEW byHand \in BOOLEAN, Settle(id, byHand)
      PROVE  RowsOfSomebody'
  BY <1>2, SettleEffect, ZenonT(30) DEF MoneyKept, SameMoney, Settle
<1>3. ASSUME NEW id \in Charges, NEW byHand \in BOOLEAN, Refund(id, byHand)
      PROVE  RowsOfSomebody'
  <2>1. ledger[id].user \in Users /\ id \in Rows
    BY DEF Charges, TypeOK, Row
  <2> QED
    BY <1>3, <1>a, <2>1, RefundEffect DEF Refund
<1>4. ASSUME NEW u \in Users, NEW a \in TopupAmounts, NEW id \in TopupIds, Topup(u, a, id)
      PROVE  RowsOfSomebody'
  BY <1>4, <1>a, TopupEffect DEF Topup
<1>5. ASSUME UNCHANGED ledger, \A u \in Users : status[u] # "absent" => status'[u] # "absent"
      PROVE  RowsOfSomebody'
  BY <1>5 DEF Rows, TypeOK, Row
<1>6. ASSUME NEW u \in Users, NEW s \in {"active", "disabled"},
             SetUserStatus(u, s) \/ \E limit \in Limits : CreateUser(u, limit)
      PROVE  RowsOfSomebody'
  BY <1>5, <1>6 DEF SetUserStatus, CreateUser, TypeOK
<1> QED
  BY <1>1, <1>2, <1>3, <1>4, <1>5, <1>6
     DEF Next, vars, tables, CreateUser, StartCharge, AbandonCharge, RefundAgain, Midnight

\* Whoever appends a row moves the balance by as much as the sums.
LEMMA BooksAppended ==
  ASSUME TypeOK, TypeOK', IsFiniteSet(Rows), Conservation,
         NEW id, NEW u \in Users, Appended(id, u)
  PROVE  Conservation'
<1>1. /\ ledger'[id].kind \in {"charge", "refund", "topup"} /\ ledger'[id].amount \in Nat
      /\ ledger'[id].after = balance[u] + Delta(ledger'[id])
      /\ balance' = [balance EXCEPT ![u] = ledger'[id].after]
  BY DEF Appended, TypeOK, Row
<1> SUFFICES ASSUME NEW v \in Users
             PROVE  balance'[v] = Credits("topup", v)' + Credits("refund", v)' - Credits("charge", v)'
  BY DEF Conservation
<1>2. balance[v] = Credits("topup", v) + Credits("refund", v) - Credits("charge", v)
  BY DEF Conservation
<1>3. \A kind : /\ Credits(kind, v) \in Nat
                /\ Credits(kind, v)' = IF v = u /\ kind = ledger'[id].kind
                                         THEN Credits(kind, v) + ledger'[id].amount
                                         ELSE Credits(kind, v)
  BY CreditsAppended
<1>4. CASE v # u
  <2>1. balance'[v] = balance[v]
    BY <1>1, <1>4 DEF TypeOK
  <2>2. \A kind : Credits(kind, v)' = Credits(kind, v)
    BY <1>3, <1>4
  <2> QED
    BY <1>2, <2>1, <2>2
<1>5. CASE v = u
  <2>1. balance'[v] = balance[v] + Delta(ledger'[id])
    BY <1>1, <1>5 DEF TypeOK
  <2> DEFINE topup == Credits("topup", v)
             refund == Credits("refund", v)
             charge == Credits("charge", v)
  <2>2. topup \in Nat /\ refund \in Nat /\ charge \in Nat
    BY <1>3
  <2>3. CASE ledger'[id].kind = "topup"
    <3>1. topup' = topup + ledger'[id].amount /\ refund' = refund /\ charge' = charge
      BY <1>3, <1>5, <2>3
    <3> HIDE DEF topup, refund, charge
    <3> QED
      BY <1>1, <1>2, <2>1, <2>2, <2>3, <3>1 DEF Delta, topup, refund, charge
  <2>4. CASE ledger'[id].kind = "refund"
    <3>1. topup' = topup /\ refund' = refund + ledger'[id].amount /\ charge' = charge
      BY <1>3, <1>5, <2>4
    <3> QED
      BY <1>1, <1>2, <2>1, <2>2, <2>4, <3>1 DEF Delta
  <2>5. CASE ledger'[id].kind = "charge"
    <3>1. topup' = topup /\ refund' = refund /\ charge' = charge + ledger'[id].amount
      BY <1>3, <1>5, <2>5
    <3> QED
      BY <1>1, <1>2, <2>1, <2>2, <2>5, <3>1 DEF Delta
  <2> QED
    BY <1>1, <2>3, <2>4, <2>5
<1> QED
  BY <1>4, <1>5

\* Every operation keeps the books balanced.
LEMMA BooksStep ==
  ASSUME IInv, TypeOK', RowsOfSomebody, Conservation, [Next]_vars
  PROVE  Conservation'
<1> USE DEF IInv, RowsOfSomebody
<1>a. ASSUME MoneyKept PROVE Conservation'
  BY <1>a, CreditsKept DEF Conservation, MoneyKept
<1>1. ASSUME NEW call \in calls, Charge(call) PROVE Conservation'
  BY <1>1, ChargeEffect, BooksAppended
<1>2. ASSUME NEW id \in Charges, NEW byHand \in BOOLEAN, Settle(id, byHand)
      PROVE  Conservation'
  BY <1>2, <1>a, SettleEffect
<1>3. ASSUME NEW id \in Charges, NEW byHand \in BOOLEAN, Refund(id, byHand)
      PROVE  Conservation'
  <2>1. ledger[id].user \in Users
    BY DEF Charges, TypeOK, Row
  <2> QED
    BY <1>3, <2>1, RefundEffect, BooksAppended
<1>4. ASSUME NEW u \in Users, NEW a \in TopupAmounts, NEW id \in TopupIds, Topup(u, a, id)
      PROVE  Conservation'
  BY <1>4, TopupEffect, BooksAppended
<1>5. ASSUME UNCHANGED <<balance, ledger, lastRow>> PROVE Conservation'
  <2>1. MoneyKept
    BY <1>5 DEF MoneyKept, SameMoney, Rows
  <2> QED
    BY <1>a, <2>1
<1> QED
  BY <1>1, <1>2, <1>3, <1>4, <1>5
     DEF Next, vars, tables, CreateUser, SetUserStatus, StartCharge, AbandonCharge,
         RefundAgain, Midnight

Counted(u) == CountedSince(u, today)

\* What counts against a limit can be summed.
LEMMA CountedType ==
  ASSUME TypeOK, IsFiniteSet(Rows), NEW u
  PROVE  /\ Counted(u) \in SUBSET Rows
         /\ Summable(ledger, Counted(u))
         /\ TableSum(ledger, Counted(u)) \in Nat
<1>1. Counted(u) \in SUBSET Rows
  BY DEF Counted, CountedSince, RowsOf
<1>2. Summable(ledger, Counted(u))
  BY <1>1, LedgerSummable
<1> QED
  BY <1>1, <1>2, TableSumType

\* Where nothing more is counted, the limit holds on.
LEMMA LimitKept ==
  ASSUME TypeOK, TypeOK', RowsOfSomebody, TodayWithinLimit, NEW u \in Users,
         dailyLimit'[u] = dailyLimit[u],
         Rows \subseteq Rows', \A r \in Rows : SameMoney(r),
         Counted(u)' \subseteq Counted(u)
  PROVE  dailyLimit'[u] > 0 => TableSum(ledger', Counted(u)') <= dailyLimit'[u]
<1> DEFINE S == Counted(u)
           T == Counted(u)'
<1>1. S \in SUBSET Rows /\ Summable(ledger, S) /\ TableSum(ledger, S) \in Nat
  BY CountedType DEF RowsOfSomebody
<1>2. dailyLimit[u] > 0 => TableSum(ledger, S) <= dailyLimit[u]
  BY SumOverLedger DEF TodayWithinLimit, Counted
<1>3. T \subseteq S /\ S \subseteq Rows' /\ \A r \in S : ledger[r].amount = ledger'[r].amount
  BY <1>1 DEF SameMoney
<1> HIDE DEF S, T
<1>4. TableSum(ledger', S) = TableSum(ledger, S) /\ Summable(ledger', S)
  BY <1>1, <1>3, TableSumSame DEF Rows
<1>5. TableSum(ledger', T) <= TableSum(ledger', S)
  BY <1>3, <1>4, TableSumMonotone
<1>6. Summable(ledger', T)
  BY <1>3, <1>4, FS_Subset DEF Summable
<1>7. TableSum(ledger', T) \in Nat /\ dailyLimit[u] \in Nat
  BY <1>6, TableSumType DEF TypeOK
<1> QED
  BY <1>1, <1>2, <1>4, <1>5, <1>7 DEF T

\* charge() counts what was spent today before it adds to it.
LEMMA LimitCharged ==
  ASSUME TypeOK, TypeOK', RowsOfSomebody, TodayWithinLimit, NEW call \in calls, Charge(call)
  PROVE  TodayWithinLimit'
<1> DEFINE id == call.id
           u == call.user
<1>1. /\ u \in Users /\ call.amount \in Nat /\ dailyLimit' = dailyLimit /\ today' = today
      /\ id \notin Rows /\ Rows' = Rows \cup {id} /\ \A r \in Rows : SameMoney(r)
      /\ \A r \in Rows : ledger'[r] = ledger[r]
      /\ ledger'[id].user = u /\ ledger'[id].amount = call.amount
      /\ WithinDailyLimit(u, call.amount)
  <2>1. /\ u \in Users /\ call.amount \in Nat
        /\ Appended(id, u) /\ \A r \in Rows : ledger'[r] = ledger[r]
        /\ ledger'[id] = NewRow(u, "charge", call.amount, balance[u] - call.amount,
                                "pending", call.day)
    BY ChargeEffect
  <2>0. ledger'[id].user = u /\ ledger'[id].amount = call.amount
    BY <2>1 DEF NewRow
  <2>2. WithinDailyLimit(u, call.amount) /\ dailyLimit' = dailyLimit /\ today' = today
    BY DEF Charge
  <2> QED
    BY <2>0, <2>1, <2>2 DEF Appended
<1>2. ASSUME NEW v \in Users, v # u
      PROVE  dailyLimit'[v] > 0 => TableSum(ledger', Counted(v)') <= dailyLimit'[v]
  <2>1. Counted(v)' \subseteq Counted(v)
    BY <1>1, <1>2 DEF Counted, CountedSince, RowsOf
  <2> QED
    BY <1>1, <1>2, <2>1, LimitKept
<1>3. dailyLimit'[u] > 0 => TableSum(ledger', Counted(u)') <= dailyLimit'[u]
  <2> DEFINE S == Counted(u)
             T == Counted(u)'
  <2>1. S \in SUBSET Rows /\ Summable(ledger, S) /\ TableSum(ledger, S) \in Nat
    BY CountedType DEF RowsOfSomebody
  <2>2. T \in {S, S \cup {id}}
    BY <1>1 DEF Counted, CountedSince, RowsOf
  <2>3. dailyLimit[u] > 0 => TableSum(ledger, S) <= dailyLimit[u]
    BY <1>1, SumOverLedger DEF TodayWithinLimit, Counted
  <2>4. \/ call.amount = 0
        \/ dailyLimit[u] = 0
        \/ TableSum(ledger, S) + call.amount <= dailyLimit[u]
    BY <1>1, SumOverLedger DEF WithinDailyLimit, Counted
  <2>5. dailyLimit[u] \in Nat
    BY <1>1 DEF TypeOK
  <2>6. S \subseteq Rows' /\ \A r \in S : ledger[r].amount = ledger'[r].amount
    BY <1>1, <2>1
  <2> HIDE DEF S, T
  <2>7. TableSum(ledger', S) = TableSum(ledger, S) /\ Summable(ledger', S)
    BY <2>1, <2>6, TableSumSame DEF Rows
  <2>8. TableSum(ledger', S \cup {id}) = TableSum(ledger', S) + call.amount
    BY <1>1, <2>1, <2>7, TableSumWith DEF Rows
  <2>9. TableSum(ledger', T) \in {TableSum(ledger, S), TableSum(ledger, S) + call.amount}
    BY <2>2, <2>7, <2>8
  <2>10. dailyLimit[u] > 0 => TableSum(ledger', T) <= dailyLimit[u]
    BY <1>1, <2>1, <2>3, <2>4, <2>5, <2>9
  <2> QED
    BY <1>1, <2>10 DEF T
<1> QED
  BY <1>2, <1>3, SumOverLedger DEF TodayWithinLimit, Counted

\* Every operation keeps what counts against today's limit within it.
LEMMA LimitStep ==
  ASSUME IInv, TypeOK', RowsOfSomebody, TodayWithinLimit, [Next]_vars
  PROVE  TodayWithinLimit'
<1> USE DEF IInv
<1>a. ASSUME UNCHANGED dailyLimit, Rows \subseteq Rows', \A r \in Rows : SameMoney(r),
             \A u \in Users : Counted(u)' \subseteq Counted(u)
      PROVE  TodayWithinLimit'
  BY <1>a, LimitKept, SumOverLedger DEF TodayWithinLimit, Counted
<1>1. ASSUME NEW call \in calls, Charge(call) PROVE TodayWithinLimit'
  BY <1>1, LimitCharged
<1>2. ASSUME NEW id \in Charges, NEW byHand \in BOOLEAN, Settle(id, byHand)
      PROVE  TodayWithinLimit'
  <2>1. /\ MoneyKept
        /\ \A r \in Rows : r # id => ledger'[r] = ledger[r]
        /\ ledger'[id].state = Settled(ledger[id].state)
        /\ dailyLimit' = dailyLimit /\ today' = today
    BY <1>2, SettleEffect DEF Settle
  <2>2. \A u \in Users : Counted(u)' \subseteq Counted(u)
    BY <2>1 DEF MoneyKept, SameMoney, Settled, Counted, CountedSince, RowsOf
  <2> QED
    BY <1>a, <2>1, <2>2 DEF MoneyKept
<1>3. ASSUME NEW id \in Charges, NEW byHand \in BOOLEAN, Refund(id, byHand)
      PROVE  TodayWithinLimit'
  <2>1. /\ Appended(RefundId(id), ledger[id].user)
        /\ \A r \in Rows : r # id => ledger'[r] = ledger[r]
        /\ ledger'[id].state = "refunded"
        /\ ledger'[RefundId(id)].kind = "refund"
        /\ dailyLimit' = dailyLimit /\ today' = today
    BY <1>3, RefundEffect DEF Refund
  <2>2. \A u \in Users : Counted(u)' \subseteq Counted(u)
    BY <2>1 DEF Appended, SameMoney, Counted, CountedSince, RowsOf
  <2> QED
    BY <1>a, <2>1, <2>2 DEF Appended
<1>4. ASSUME NEW u \in Users, NEW a \in TopupAmounts, NEW id \in TopupIds, Topup(u, a, id)
      PROVE  TodayWithinLimit'
  <2>1. /\ Appended(id, u) /\ \A r \in Rows : ledger'[r] = ledger[r]
        /\ ledger'[id].kind = "topup"
        /\ dailyLimit' = dailyLimit /\ today' = today
    BY <1>4, TopupEffect DEF Topup
  <2>2. \A v \in Users : Counted(v)' \subseteq Counted(v)
    BY <2>1 DEF Appended, Counted, CountedSince, RowsOf
  <2> QED
    BY <1>a, <2>1, <2>2 DEF Appended
<1>5. ASSUME UNCHANGED <<ledger, dailyLimit>>, today \in Nat, today' \in Nat, today <= today'
      PROVE  TodayWithinLimit'
  <2>1. Rows' = Rows /\ \A r \in Rows : SameMoney(r) /\ ledger[r].day \in Nat
    BY <1>5 DEF Rows, SameMoney, TypeOK, Row
  <2>2. \A u \in Users : Counted(u)' \subseteq Counted(u)
    BY <1>5, <2>1 DEF Counted, CountedSince, RowsOf
  <2> QED
    BY <1>5, <1>a, <2>1, <2>2
<1>6. ASSUME NEW u \in Users, NEW limit \in Limits, CreateUser(u, limit)
      PROVE  TodayWithinLimit'
  <2>1. /\ status[u] = "absent" /\ limit \in Nat
        /\ dailyLimit' = [dailyLimit EXCEPT ![u] = limit]
        /\ ledger' = ledger /\ today' = today
    BY <1>6, LimitsAssumption DEF CreateUser
  <2>2. Counted(u)' = {}
    BY <2>1 DEF Counted, CountedSince, RowsOf, RowsOfSomebody, Rows
  <2>3. TableSum(ledger', {}) = 0
    BY SumOfNothing DEF TableSum
  <2>4. \A v \in Users : v # u => Counted(v)' = Counted(v) /\ dailyLimit'[v] = dailyLimit[v]
    BY <2>1 DEF Counted, CountedSince, RowsOf, Rows, TypeOK
  <2>5. dailyLimit'[u] = limit
    BY <2>1 DEF TypeOK
  <2>6. \A v \in Users : dailyLimit'[v] > 0 => TableSum(ledger', Counted(v)') <= dailyLimit'[v]
    BY <2>1, <2>2, <2>3, <2>4, <2>5, SumOverLedger DEF TodayWithinLimit, Counted
  <2> QED
    BY <2>6, SumOverLedger DEF TodayWithinLimit, Counted
<1> QED
  BY <1>1, <1>2, <1>3, <1>4, <1>5, <1>6
     DEF Next, vars, tables, SetUserStatus, StartCharge, AbandonCharge, RefundAgain, Midnight,
         TypeOK

\* The books of an empty ledger.
LEMMA BooksInit == Init => RowsOfSomebody /\ Conservation /\ TodayWithinLimit
<1> SUFFICES ASSUME Init PROVE RowsOfSomebody /\ Conservation /\ TodayWithinLimit
  OBVIOUS
<1>1. Rows = {} /\ \A u \in Users : balance[u] = 0 /\ dailyLimit[u] = 0
  BY DEF Init, Rows
<1>2. \A kind, u : Credits(kind, u) = 0
  BY <1>1, SumOfNothing DEF Credits, RowsOf, SumCredits
<1> QED
  BY <1>1, <1>2, FS_EmptySet DEF RowsOfSomebody, Conservation, TodayWithinLimit

\* Credits are neither made nor lost: every balance is the sum of its topups
\* and refunds less its charges, however calls interleave.
THEOREM BooksBalance == Spec => []Conservation
<1>1. IInv /\ IInv' /\ RowsOfSomebody /\ Conservation /\ [Next]_vars
        => RowsOfSomebody' /\ Conservation'
  BY RowsStep, BooksStep DEF IInv
<1> QED
  BY <1>1, BooksInit, Inductive, PTL DEF Spec

\* Concurrent charges never spend more of today's credits than the limit,
\* whatever day those that waited for the lock were stamped with.
THEOREM TodayIsCapped == Spec => []TodayWithinLimit
<1>1. IInv /\ IInv' /\ RowsOfSomebody /\ TodayWithinLimit /\ [Next]_vars
        => RowsOfSomebody' /\ TodayWithinLimit'
  BY RowsStep, LimitStep DEF IInv
<1> QED
  BY <1>1, BooksInit, Inductive, PTL DEF Spec

(***************************************************************************)
(* Billed requests.  What a request knows is said of it alone; requests    *)
(* meet only in the ledger, where each charged one has a row of its own,   *)
(* and at the leases.                                                      *)
(***************************************************************************)

AtWork == {"turn", "post", "finalize", "refund", "report", "unlock"}
BeforeCharge == {"idle", "lease", "prepare", "charging"}
UnderLease == {"prepare", "charging", "activate", "start", "turn", "post", "finalize",
               "refund", "teardown", "release"}

\* The two threads of a request hand it over once, and its locals say so.
HandedOver(q) ==
  /\ worker[q] # "none" =>
       /\ req[q].stream /\ req[q].workerOwned /\ req[q].transferred /\ Charged(q)
       /\ handler[q] \in {"teardown", "release", "done", "dead"}
  /\ req[q].workerOwned \/ req[q].transferred => worker[q] # "none"
  /\ req[q].stream => handler[q] \notin {"turn", "post", "finalize"}
  /\ ~req[q].stream => handler[q] # "start"

\* What the locals say of the charge, and of the turn it paid for.
LocalsAgree(q) ==
  /\ handler[q] \in BeforeCharge => ~Charged(q)
  /\ handler[q] \in {"activate", "start", "turn", "post", "finalize", "refund"} =>
       Charged(q) /\ ~req[q].finalized
  /\ worker[q] \in {"turn", "post", "finalize", "refund"} => ~req[q].finalized
  /\ ~req[q].finalized => req[q].receipt \in {"none", "pending"}
  /\ req[q].finalized => req[q].receipt \in {"settled", "refunded"}
  /\ req[q].finalized /\ req[q].receipt = "settled" => req[q].outcome = "answer"
  /\ req[q].reported # "none" =>
       /\ req[q].reported = req[q].receipt
       /\ worker[q] \in {"unlock", "done", "dead"}

\* A charge is refunded after one fault, and left alone after two.
FaultsCounted(q) ==
  /\ handler[q] = "refund" \/ worker[q] = "refund" => req[q].faults >= 1
  /\ worker[q] \in {"report", "unlock", "done"} /\ ~req[q].finalized => req[q].faults >= 2
  /\ handler[q] = "teardown" /\ RefundDue(q) => req[q].faults >= 1
  /\ handler[q] \in {"release", "done"} /\ RefundDue(q) => req[q].faults >= 2

\* The row of a charged request is as the request left it; only the operator
\* resolves one that a finished request left pending.
RowKnown(q) ==
  Charged(q) =>
    /\ req[q].id \in Charges
    /\ req[q].finalized => ledger[req[q].id].state = req[q].receipt
    /\ ~req[q].finalized =>
         ledger[req[q].id].state = "pending" \/ ledger[req[q].id].resolution # "none"
    /\ ~Finished(q) => ledger[req[q].id].resolution = "none"

\* Of several requests with one id at most one is charged.
OneChargePerId ==
  \A p, q \in Clients : Charged(p) /\ Charged(q) /\ req[p].id = req[q].id => p = q

CallsKnown == \A call \in calls : call.id = req[call.client].id

\* Who holds a lease is the worker that took it over, or the handler before.
LeaseKnown ==
  \A u \in Users, q \in Clients :
    lease[u] = q =>
      /\ u = req[q].user
      /\ worker[q] \in AtWork \/ (~req[q].transferred /\ handler[q] \in UnderLease)

RequestInv ==
  /\ IInv
  /\ RequestTypeOK
  /\ \A q \in Clients : HandedOver(q) /\ LocalsAgree(q) /\ FaultsCounted(q) /\ RowKnown(q)
  /\ OneChargePerId
  /\ CallsKnown
  /\ LeaseKnown
  /\ WorkUnderLease

-----------------------------------------------------------------------------
\* The faults of one request are no more than all of them.
LEMMA FaultFits ==
  ASSUME RequestTypeOK, NEW q \in Clients, Faults < MaxFaults
  PROVE  req[q].faults + 1 \in 0..MaxFaults
<1> DEFINE f == [p \in Clients |-> req[p].faults]
<1>1. \A p \in Clients : f[p] \in Nat /\ f[p] = req[p].faults
  BY FiniteAssumption DEF RequestTypeOK, Request
<1>2. Faults = SumFunctionOnSet(f, Clients)
  BY DEF Faults
<1> HIDE DEF f
<1>3. /\ SumFunctionOnSet(f, Clients) = f[q] + SumFunctionOnSet(f, Clients \ {q})
      /\ SumFunctionOnSet(f, Clients \ {q}) \in Nat
  <2>1. \A p \in Clients : f[p] \in Int
    BY <1>1
  <2>2. IsFiniteSet(Clients \ {q})
    BY FiniteAssumption, FS_RemoveElement
  <2>3. SumFunctionOnSet(f, Clients) = f[q] + SumFunctionOnSet(f, Clients \ {q})
    BY <2>1, FiniteAssumption, SumWithout
  <2>4. SumFunctionOnSet(f, Clients \ {q}) \in Nat
    BY <1>1, <2>2, SumType
  <2> QED
    BY <2>3, <2>4
<1> QED
  BY <1>1, <1>2, <1>3, FiniteAssumption

\* A step is of one request: the locals of the others stay.
OthersRest(p) ==
  \A q \in Clients :
    /\ q # p => handler'[q] = handler[q] /\ worker'[q] = worker[q] /\ req'[q] = req[q]
    /\ req'[q].id = req[q].id /\ req'[q].user = req[q].user

\* It touches no row but its own.
OwnRow(p) ==
  \/ ledger' = ledger
  \/ /\ Charges \subseteq Charges'
     /\ \A r \in Charges : r # req[p].id => ledger'[r] = ledger[r]
     /\ Charged(p) \/ req[p].id \notin Charges

\* It takes its user's lease when that is free, and gives it back.
OwnLease(p) ==
  /\ \A u \in Users : u # req[p].user => lease'[u] = lease[u]
  /\ \/ lease'[req[p].user] = lease[req[p].user]
     \/ lease[req[p].user] = Nobody /\ lease'[req[p].user] = p
     \/ lease[req[p].user] = p /\ lease'[req[p].user] = Nobody

Locals(p) == HandedOver(p) /\ LocalsAgree(p) /\ FaultsCounted(p)

HoldsAtWork(p) ==
  /\ (\/ handler[p] \in {"prepare", "charging", "activate", "start", "turn", "post"}
      \/ worker[p] \in AtWork)
       => lease[req[p].user] = p
  /\ lease[req[p].user] = p =>
       worker[p] \in AtWork \/ (~req[p].transferred /\ handler[p] \in UnderLease)

\* What such a step has to show for its own request is enough for all.
LEMMA OwnStep ==
  ASSUME RequestInv, IInv', RequestTypeOK', NEW p \in Clients,
         OthersRest(p), OwnRow(p), OwnLease(p),
         Locals(p)', RowKnown(p)', HoldsAtWork(p)',
         Charged(p)' => Charged(p) \/ req[p].id \notin Charges,
         \A call \in calls' : call \in calls \/ (call.client = p /\ call.id = req[p].id)
  PROVE  RequestInv'
<1> USE DEF RequestInv
<1>a. /\ \A q \in Clients : req[q].user \in Users /\ q # Nobody
      /\ \A u \in Users : lease[u] \in Clients \cup {Nobody}
      /\ \A call \in calls : call.client \in Clients
  BY NobodyAssumption DEF RequestTypeOK, Request, TypeOK, Call
<1>1. \A q \in Clients : q # p => (Charged(q)' <=> Charged(q))
  BY DEF OthersRest, Charged
<1>2. \A q \in Clients : q # p => (Finished(q)' <=> Finished(q))
  BY DEF OthersRest, Finished
<1>3. \A q \in Clients : q # p /\ Charged(q) =>
        req[q].id \in Charges' /\ ledger'[req[q].id] = ledger[req[q].id]
  <2>1. CASE ledger' = ledger
    BY <2>1 DEF RowKnown, Charges, Rows
  <2>2. CASE OwnRow(p) /\ ledger' # ledger
    BY <2>2 DEF RowKnown, OwnRow, OneChargePerId
  <2> QED
    BY <2>1, <2>2
<1>4. ASSUME NEW q \in Clients, q # p
      PROVE  HandedOver(q)' /\ LocalsAgree(q)' /\ FaultsCounted(q)' /\ RowKnown(q)'
  <2>1. handler'[q] = handler[q] /\ worker'[q] = worker[q] /\ req'[q] = req[q]
    BY <1>4 DEF OthersRest
  <2>2. HandedOver(q)'
    BY <1>1, <1>4, <2>1 DEF HandedOver
  <2>3. LocalsAgree(q)'
    BY <1>1, <1>4, <2>1 DEF LocalsAgree
  <2>4. FaultsCounted(q)'
    BY <1>1, <1>4, <2>1 DEF FaultsCounted, RefundDue
  <2>5. RowKnown(q)'
    BY <1>1, <1>2, <1>3, <1>4, <2>1 DEF RowKnown
  <2> QED
    BY <2>2, <2>3, <2>4, <2>5
<1>5. OneChargePerId'
  <2>1. \A q \in Clients : q # p /\ Charged(q) /\ Charged(p)' => req[q].id # req[p].id
    BY DEF OneChargePerId, RowKnown
  <2>2. \A q \in Clients : req'[q].id = req[q].id
    BY DEF OthersRest
  <2> QED
    BY <1>1, <2>1, <2>2 DEF OneChargePerId
<1>6. CallsKnown'
  BY <1>a DEF CallsKnown, OthersRest
<1>7. LeaseKnown'
  <2> SUFFICES ASSUME NEW u \in Users, NEW q \in Clients, lease'[u] = q
               PROVE  /\ u = req'[q].user
                      /\ worker'[q] \in AtWork \/ (~req'[q].transferred /\ handler'[q] \in UnderLease)
    BY DEF LeaseKnown
  <2>1. CASE q = p
    <3>1. u = req[p].user
      BY <1>a, <2>1 DEF OwnLease, LeaseKnown
    <3> QED
      BY <2>1, <3>1 DEF HoldsAtWork, OthersRest
  <2>2. CASE q # p
    BY <1>a, <2>2 DEF OwnLease, LeaseKnown, OthersRest
  <2> QED
    BY <2>1, <2>2
<1>8. WorkUnderLease'
  <2> SUFFICES ASSUME NEW q \in Clients,
                 \/ handler'[q] \in {"prepare", "charging", "activate", "start", "turn", "post"}
                 \/ worker'[q] \in AtWork
               PROVE  lease'[req'[q].user] = q
    BY DEF WorkUnderLease, AtWork
  <2>1. CASE q = p
    BY <2>1 DEF HoldsAtWork
  <2>2. CASE q # p
    <3>1. lease[req[q].user] = q /\ req'[q].user = req[q].user
      BY <2>2 DEF WorkUnderLease, AtWork, OthersRest
    <3> QED
      BY <1>a, <2>2, <3>1 DEF OwnLease
  <2> QED
    BY <2>1, <2>2
<1> QED
  BY <1>4, <1>5, <1>6, <1>7, <1>8 DEF Locals


\* The sets of the columns, the locals and the leases.
Typed(q) ==
  /\ handler \in [Clients -> HandlerSteps]
  /\ worker \in [Clients -> WorkerSteps]
  /\ req \in [Clients -> Request]
  /\ lease \in [Users -> Clients \cup {Nobody}]
  /\ req[q] \in Request

\* A step of one request gives its threads a place and its locals a value.
LocalsMove(q) ==
  /\ handler' \in [Clients -> HandlerSteps]
  /\ worker' \in [Clients -> WorkerSteps]
  /\ req' \in [Clients -> Request]
  /\ OthersRest(q)

\* A step that leaves the tables and the leases alone: the locals that say
\* what happened to the charge stay too.
LEMMA QuietStep ==
  ASSUME RequestInv, NEW q \in Clients, UNCHANGED <<vars, lease>>, LocalsMove(q),
         req'[q].receipt = req[q].receipt, req'[q].finalized = req[q].finalized,
         ~Finished(q), Locals(q)', HoldsAtWork(q)'
  PROVE  RequestInv'
<1> USE DEF RequestInv
<1>1. IInv'
  BY IInvStep
<1>2. RequestTypeOK'
  BY <1>1 DEF RequestTypeOK, IInv, LocalsMove
<1>3. /\ OwnRow(q) /\ OwnLease(q)
      /\ (Charged(q)' <=> Charged(q))
      /\ calls' = calls
  BY DEF OwnRow, OwnLease, RequestTypeOK, Charged, vars
<1>4. RowKnown(q)'
  <2>1. ledger' = ledger /\ Charges' = Charges
    BY DEF vars, Charges, Rows
  <2> QED
    BY <1>3, <2>1 DEF RowKnown, LocalsMove, OthersRest
<1> QED
  BY <1>1, <1>2, <1>3, <1>4, OwnStep DEF LocalsMove

\* What the invariant says of one request.
LEMMA OneRequest ==
  ASSUME RequestInv, NEW q \in Clients
  PROVE  Typed(q) /\ Locals(q) /\ HoldsAtWork(q) /\ RowKnown(q)
<1>1. Typed(q) /\ Locals(q) /\ RowKnown(q)
  BY DEF RequestInv, Typed, RequestTypeOK, Locals
<1>2. req[q].user \in Users
  BY <1>1 DEF Typed, Request
<1> QED
  BY <1>1, <1>2 DEF RequestInv, HoldsAtWork, WorkUnderLease, LeaseKnown, AtWork

\* A request arrives, finds its profile busy or is refused: nothing was charged.
LEMMA ArrivalKeeps ==
  ASSUME RequestInv, NEW q \in Clients, Begin(q) \/ ProfileBusy(q) \/ RejectPayload(q)
  PROVE  RequestInv'
<1>1. Typed(q) /\ Locals(q) /\ HoldsAtWork(q)
  BY OneRequest
<1>2. /\ handler[q] \in {"idle", "lease", "prepare"} /\ UNCHANGED <<vars, worker, req, lease>>
      /\ \/ handler[q] = "idle" /\ handler' = [handler EXCEPT ![q] = "lease"]
         \/ handler[q] # "idle" /\ handler' = [handler EXCEPT ![q] = "teardown"]
  BY <1>1, FaultFits DEF Begin, ProfileBusy, RejectPayload, HandlerTo, ledgerVars, tables, vars, RequestInv, Typed
<1>3. Locals(q)' /\ HoldsAtWork(q)'
  BY <1>1, <1>2
     DEF Locals, HandedOver, LocalsAgree, FaultsCounted, RefundDue, Charged, HoldsAtWork,
         Typed, Request, BeforeCharge, AtWork, UnderLease, Where, Goto, HandlerTo
<1>4. /\ LocalsMove(q)
      /\ req'[q].receipt = req[q].receipt /\ req'[q].finalized = req[q].finalized
  BY <1>1, <1>2
     DEF LocalsMove, OthersRest, Typed, Request, HandlerSteps, WorkerSteps, Where, Goto, HandlerTo
<1>5. ~Finished(q)
  BY <1>1, <1>2 DEF Locals, HandedOver, Finished, Where
<1> QED
  BY <1>2, <1>3, <1>4, <1>5, QuietStep

\* save_profile and the event before the turn.
LEMMA ActivateKeeps ==
  ASSUME RequestInv, NEW q \in Clients, Activate(q)
  PROVE  RequestInv'
<1>1. Typed(q) /\ Locals(q) /\ HoldsAtWork(q)
  BY OneRequest
<1>2. /\ handler[q] = "activate" /\ UNCHANGED <<vars, worker, lease>>
      /\ \/ /\ req' = req
            /\ handler' = [handler EXCEPT ![q] = IF req[q].stream THEN "start" ELSE "turn"]
         \/ /\ req' = [req EXCEPT ![q].faults = @ + 1] /\ req[q].faults + 1 \in 0..MaxFaults
            /\ handler' = [handler EXCEPT ![q] = "teardown"]
  BY <1>1, FaultFits DEF Activate, NoFault, Fault, HandlerTo, ledgerVars, tables, vars, RequestInv, Typed
<1>3. Locals(q)' /\ HoldsAtWork(q)'
  BY <1>1, <1>2
     DEF Locals, HandedOver, LocalsAgree, FaultsCounted, RefundDue, Charged, HoldsAtWork,
         Typed, Request, BeforeCharge, AtWork, UnderLease, Where, Goto, HandlerTo
<1>4. /\ LocalsMove(q)
      /\ req'[q].receipt = req[q].receipt /\ req'[q].finalized = req[q].finalized
  BY <1>1, <1>2
     DEF LocalsMove, OthersRest, Typed, Request, HandlerSteps, WorkerSteps, Where, Goto, HandlerTo
<1>5. ~Finished(q)
  BY <1>1, <1>2 DEF Locals, HandedOver, Finished, Where
<1> QED
  BY <1>2, <1>3, <1>4, <1>5, QuietStep

\* The worker takes over, or the handler has it all back.
LEMMA StartKeeps ==
  ASSUME RequestInv, NEW q \in Clients, StartWorker(q) \/ StartWorkerFails(q)
  PROVE  RequestInv'
<1>1. Typed(q) /\ Locals(q) /\ HoldsAtWork(q)
  BY OneRequest
<1>2. /\ handler[q] = "start" /\ UNCHANGED <<vars, lease>>
      /\ \/ /\ req' = [req EXCEPT ![q].workerOwned = TRUE, ![q].transferred = TRUE]
            /\ worker' = [worker EXCEPT ![q] = "turn"]
            /\ handler' = [handler EXCEPT ![q] = "teardown"]
         \/ /\ req' = [req EXCEPT ![q].faults = @ + 1] /\ req[q].faults + 1 \in 0..MaxFaults
            /\ handler' = [handler EXCEPT ![q] = "refund"] /\ worker' = worker
  BY <1>1, FaultFits DEF StartWorker, StartWorkerFails, OwnershipReturned, Fault, HandlerTo, ledgerVars, tables, vars, RequestInv, Typed
<1>3. Locals(q)' /\ HoldsAtWork(q)'
  BY <1>1, <1>2
     DEF Locals, HandedOver, LocalsAgree, FaultsCounted, RefundDue, Charged, HoldsAtWork,
         Typed, Request, BeforeCharge, AtWork, UnderLease, Where, Goto, HandlerTo
<1>4. /\ LocalsMove(q)
      /\ req'[q].receipt = req[q].receipt /\ req'[q].finalized = req[q].finalized
  <2>1. CASE req' = [req EXCEPT ![q].workerOwned = TRUE, ![q].transferred = TRUE]
    <3> DEFINE owned == [req[q] EXCEPT !.workerOwned = TRUE]
               r == [owned EXCEPT !.transferred = TRUE]
    <3>1. owned \in Request /\ owned.id = req[q].id /\ owned.user = req[q].user
          /\ owned.receipt = req[q].receipt /\ owned.finalized = req[q].finalized
      BY <1>1 DEF Typed, Request
    <3>2. req' = [req EXCEPT ![q] = r]
      BY <1>1, <2>1 DEF Typed
    <3> HIDE DEF owned
    <3>3. r \in Request /\ r.id = req[q].id /\ r.user = req[q].user
          /\ r.receipt = req[q].receipt /\ r.finalized = req[q].finalized
      BY <3>1 DEF Request
    <3> HIDE DEF r
    <3> QED
      BY <1>1, <1>2, <3>2, <3>3 DEF LocalsMove, OthersRest, Typed, HandlerSteps, WorkerSteps
  <2>2. CASE req' = [req EXCEPT ![q].faults = @ + 1] /\ req[q].faults + 1 \in 0..MaxFaults
    BY <1>1, <1>2, <2>2, SMTT(30) DEF LocalsMove, OthersRest, Typed, Request, HandlerSteps, WorkerSteps
  <2> QED
    BY <1>2, <2>1, <2>2
<1>5. ~Finished(q)
  BY <1>1, <1>2 DEF Locals, HandedOver, Finished, Where
<1> QED
  BY <1>2, <1>3, <1>4, <1>5, QuietStep

\* The turn, in either thread.
LEMMA TurnKeeps ==
  ASSUME RequestInv, NEW q \in Clients, NEW outcome \in {"answer", "error", "exception"}, RunTurn(q, outcome)
  PROVE  RequestInv'
<1>1. Typed(q) /\ Locals(q) /\ HoldsAtWork(q)
  BY OneRequest
<1>2. /\ Where(q) = "turn" /\ UNCHANGED <<vars, lease>>
      /\ \/ /\ outcome # "exception" /\ req' = [req EXCEPT ![q].outcome = outcome] /\ Goto(q, "post")
         \/ /\ outcome = "exception" /\ req[q].faults + 1 \in 0..MaxFaults
            /\ req' = [req EXCEPT ![q].outcome = outcome, ![q].faults = @ + 1] /\ Goto(q, "refund")
  BY <1>1, FaultFits DEF RunTurn, Request, ledgerVars, tables, vars, RequestInv, Typed
<1>3. Locals(q)' /\ HoldsAtWork(q)'
  BY <1>1, <1>2
     DEF Locals, HandedOver, LocalsAgree, FaultsCounted, RefundDue, Charged, HoldsAtWork,
         Typed, Request, BeforeCharge, AtWork, UnderLease, Where, Goto, HandlerTo
<1>4. /\ LocalsMove(q)
      /\ req'[q].receipt = req[q].receipt /\ req'[q].finalized = req[q].finalized
  BY <1>1, <1>2, SMTT(30)
     DEF LocalsMove, OthersRest, Typed, Request, HandlerSteps, WorkerSteps, Where, Goto, HandlerTo
<1>5. ~Finished(q)
  BY <1>1, <1>2 DEF Locals, HandedOver, Finished, Where
<1> QED
  BY <1>2, <1>3, <1>4, <1>5, QuietStep

\* The result is written, or the first fault is noticed.
LEMMA WriteKeeps ==
  ASSUME RequestInv, NEW q \in Clients, WriteResult(q)
  PROVE  RequestInv'
<1>1. Typed(q) /\ Locals(q) /\ HoldsAtWork(q)
  BY OneRequest
<1>2. /\ Where(q) = "post" /\ UNCHANGED <<vars, lease>>
      /\ \/ req' = req /\ Goto(q, "finalize")
         \/ /\ req' = [req EXCEPT ![q].faults = @ + 1] /\ req[q].faults + 1 \in 0..MaxFaults
            /\ Goto(q, IF req[q].stream THEN "refund" ELSE "teardown")
  BY <1>1, FaultFits DEF WriteResult, NoFault, Fault, ledgerVars, tables, vars, RequestInv, Typed
<1>3. Locals(q)' /\ HoldsAtWork(q)'
  BY <1>1, <1>2
     DEF Locals, HandedOver, LocalsAgree, FaultsCounted, RefundDue, Charged, HoldsAtWork,
         Typed, Request, BeforeCharge, AtWork, UnderLease, Where, Goto, HandlerTo
<1>4. /\ LocalsMove(q)
      /\ req'[q].receipt = req[q].receipt /\ req'[q].finalized = req[q].finalized
  BY <1>1, <1>2
     DEF LocalsMove, OthersRest, Typed, Request, HandlerSteps, WorkerSteps, Where, Goto, HandlerTo
<1>5. ~Finished(q)
  BY <1>1, <1>2 DEF Locals, HandedOver, Finished, Where
<1> QED
  BY <1>2, <1>3, <1>4, <1>5, QuietStep

\* The billing event.
LEMMA ReportKeeps ==
  ASSUME RequestInv, NEW q \in Clients, Report(q)
  PROVE  RequestInv'
<1>1. Typed(q) /\ Locals(q) /\ HoldsAtWork(q)
  BY OneRequest
<1>2. /\ worker[q] = "report" /\ UNCHANGED <<vars, handler, lease>>
      /\ worker' = [worker EXCEPT ![q] = "unlock"]
      /\ \/ req' = [req EXCEPT ![q].reported = req[q].receipt]
         \/ req' = [req EXCEPT ![q].faults = @ + 1] /\ req[q].faults + 1 \in 0..MaxFaults
  BY <1>1, FaultFits DEF Report, StageOfReceipt, AfterReportFailed, Fault, ledgerVars, tables, vars, RequestInv, Typed
<1>3. Locals(q)' /\ HoldsAtWork(q)'
  BY <1>1, <1>2
     DEF Locals, HandedOver, LocalsAgree, FaultsCounted, RefundDue, Charged, HoldsAtWork,
         Typed, Request, BeforeCharge, AtWork, UnderLease, Where, Goto, HandlerTo
<1>4. /\ LocalsMove(q)
      /\ req'[q].receipt = req[q].receipt /\ req'[q].finalized = req[q].finalized
  BY <1>1, <1>2, SMTT(30)
     DEF LocalsMove, OthersRest, Typed, Request, HandlerSteps, WorkerSteps, Where, Goto, HandlerTo
<1>5. ~Finished(q)
  BY <1>1, <1>2 DEF Locals, HandedOver, Finished, Where
<1> QED
  BY <1>2, <1>3, <1>4, <1>5, QuietStep

\* Settling or refunding raises: what was charged stays pending, a fault later.
LEMMA RefundFails ==
  ASSUME RequestInv, NEW q \in Clients, 
         \/ Where(q) = "finalize" /\ Goto(q, IF req[q].stream THEN "refund" ELSE "teardown")
         \/ Where(q) = "refund" /\ Goto(q, IF req[q].stream THEN "report" ELSE "teardown")
         \/ /\ req[q].stream /\ handler[q] = "refund"
            /\ HandlerTo(q, "teardown") /\ UNCHANGED worker
         \/ /\ handler[q] = "teardown" /\ RefundDue(q)
            /\ HandlerTo(q, "release") /\ UNCHANGED worker,
         Fault(q), UNCHANGED <<ledgerVars, lease>>
  PROVE  RequestInv'
<1>1. Typed(q) /\ Locals(q) /\ HoldsAtWork(q)
  BY OneRequest
<1>2. UNCHANGED <<vars, lease>> /\ req' = [req EXCEPT ![q].faults = @ + 1] /\ req[q].faults + 1 \in 0..MaxFaults
  BY <1>1, FaultFits DEF Fault, ledgerVars, tables, vars, RequestInv, Typed
<1>3. Locals(q)' /\ HoldsAtWork(q)'
  BY <1>1, <1>2
     DEF Locals, HandedOver, LocalsAgree, FaultsCounted, RefundDue, Charged, HoldsAtWork,
         Typed, Request, BeforeCharge, AtWork, UnderLease, Where, Goto, HandlerTo
<1>4. /\ LocalsMove(q)
      /\ req'[q].receipt = req[q].receipt /\ req'[q].finalized = req[q].finalized
  BY <1>1, <1>2, SMTT(30)
     DEF LocalsMove, OthersRest, Typed, Request, HandlerSteps, WorkerSteps, Where, Goto, HandlerTo
<1>5. ~Finished(q)
  BY <1>1, <1>2 DEF Locals, HandedOver, Finished, Where
<1> QED
  BY <1>2, <1>3, <1>4, <1>5, QuietStep

\* Teardown has nothing to refund.
LEMMA NothingDue ==
  ASSUME RequestInv, NEW q \in Clients, handler[q] = "teardown", ~RefundDue(q),
         HandlerTo(q, "release"), UNCHANGED <<ledgerVars, req, worker, lease>>
  PROVE  RequestInv'
<1>1. Typed(q) /\ Locals(q) /\ HoldsAtWork(q)
  BY OneRequest
<1>2. UNCHANGED <<vars, req, worker, lease>> /\ handler[q] = "teardown"
      /\ handler' = [handler EXCEPT ![q] = "release"]
  BY <1>1, FaultFits DEF HandlerTo, ledgerVars, tables, vars, RequestInv, Typed
<1>3. Locals(q)' /\ HoldsAtWork(q)'
  BY <1>1, <1>2
     DEF Locals, HandedOver, LocalsAgree, FaultsCounted, RefundDue, Charged, HoldsAtWork,
         Typed, Request, BeforeCharge, AtWork, UnderLease, Where, Goto, HandlerTo
<1>4. /\ LocalsMove(q)
      /\ req'[q].receipt = req[q].receipt /\ req'[q].finalized = req[q].finalized
  BY <1>1, <1>2
     DEF LocalsMove, OthersRest, Typed, Request, HandlerSteps, WorkerSteps, Where, Goto, HandlerTo
<1>5. ~Finished(q)
  BY <1>1, <1>2 DEF Locals, HandedOver, Finished, Where
<1> QED
  BY <1>2, <1>3, <1>4, <1>5, QuietStep

-----------------------------------------------------------------------------
(* The charge, and the end of it.                                          *)

\* The clock is read before the lock is waited for; a charge that raises
\* leaves the tables as they were.
LEMMA CallKeeps ==
  ASSUME RequestInv, NEW q \in Clients, CallCharge(q) \/ ChargeRaises(q)
  PROVE  RequestInv'
<1>1. Typed(q) /\ Locals(q) /\ HoldsAtWork(q) /\ RowKnown(q)
  BY OneRequest
<1>2. /\ UNCHANGED <<tables, today, worker, req, lease>>
      /\ \/ handler[q] = "prepare" /\ HandlerTo(q, "charging")
         \/ handler[q] = "charging" /\ HandlerTo(q, "teardown")
      /\ \/ StartCharge(q, req[q].user, req[q].id, Price)
         \/ \E call \in calls : AbandonCharge(call)
  BY DEF CallCharge, ChargeRaises, StartCharge, AbandonCharge
<1>3. IInv'
  <2>1. Next
    BY <1>1, <1>2, PriceAssumption DEF Next, Typed, Request
  <2> QED
    BY <2>1, IInvStep DEF RequestInv
<1>4. LocalsMove(q) /\ RequestTypeOK'
  BY <1>1, <1>2, <1>3 DEF LocalsMove, OthersRest, Typed, HandlerSteps, HandlerTo, RequestTypeOK, IInv
<1>5. Locals(q)' /\ HoldsAtWork(q)'
  BY <1>1, <1>2
     DEF Locals, HandedOver, LocalsAgree, FaultsCounted, RefundDue, Charged, HoldsAtWork,
         Typed, BeforeCharge, AtWork, UnderLease, HandlerTo
<1>6. OwnRow(q) /\ OwnLease(q) /\ ~Charged(q)'
  BY <1>1, <1>2 DEF OwnRow, OwnLease, Locals, LocalsAgree, BeforeCharge, Charged, tables
<1>7. \A call \in calls' : call \in calls \/ (call.client = q /\ call.id = req[q].id)
  BY <1>2 DEF StartCharge, AbandonCharge
<1> QED
  BY <1>3, <1>4, <1>5, <1>6, <1>7, OwnStep DEF LocalsMove, RowKnown

\* charge() committed: the request has a row that was nobody's.
LEMMA ChargeKeeps ==
  ASSUME RequestInv, NEW q \in Clients, ChargeReturns(q)
  PROVE  RequestInv'
<1>1. Typed(q) /\ Locals(q) /\ HoldsAtWork(q) /\ RowKnown(q)
  BY OneRequest
<1>2. PICK call \in calls : call.client = q /\ Charge(call)
  BY DEF ChargeReturns
<1>3. /\ handler[q] = "charging" /\ UNCHANGED <<worker, lease>>
      /\ req' = [req EXCEPT ![q].receipt = "pending"]
      /\ handler' = [handler EXCEPT ![q] = "activate"]
  BY DEF ChargeReturns, HandlerTo
<1>4. call.id = req[q].id
  BY <1>2 DEF RequestInv, CallsKnown
<1>5. IInv'
  <2>1. Next
    BY <1>2 DEF Next
  <2> QED
    BY <2>1, IInvStep DEF RequestInv
<1>6. /\ req[q].id \notin Rows /\ Rows' = Rows \cup {req[q].id}
      /\ \A r \in Rows : ledger'[r] = ledger[r]
      /\ ledger'[req[q].id].kind = "charge" /\ ledger'[req[q].id].state = "pending"
      /\ ledger'[req[q].id].resolution = "none"
  <2>1. TypeOK
    BY DEF RequestInv, IInv
  <2>2. /\ Appended(call.id, call.user)
        /\ \A r \in Rows : ledger'[r] = ledger[r]
        /\ ledger'[call.id] = NewRow(call.user, "charge", call.amount,
                                balance[call.user] - call.amount, "pending", call.day)
    BY <1>2, <2>1, ChargeEffect
  <2> QED
    BY <1>4, <2>2 DEF Appended, NewRow
<1>7. OwnRow(q) /\ OwnLease(q) /\ req[q].id \in Charges' /\ req[q].id \notin Charges
  BY <1>3, <1>6 DEF OwnRow, OwnLease, Charges
<1>8. LocalsMove(q) /\ RequestTypeOK'
  BY <1>1, <1>3, <1>5 DEF LocalsMove, OthersRest, Typed, Request, HandlerSteps, RequestTypeOK, IInv
<1>9. Locals(q)' /\ HoldsAtWork(q)'
  BY <1>1, <1>3
     DEF Locals, HandedOver, LocalsAgree, FaultsCounted, RefundDue, Charged, HoldsAtWork,
         Typed, Request, BeforeCharge, AtWork, UnderLease
<1>10. RowKnown(q)'
  <2>1. req'[q].id = req[q].id /\ ~req'[q].finalized
    BY <1>1, <1>3 DEF Typed, Request, Locals, LocalsAgree, BeforeCharge, Charged
  <2> QED
    BY <1>6, <1>7, <2>1 DEF RowKnown
<1>11. \A c \in calls' : c \in calls
  BY <1>2 DEF Charge
<1> QED
  BY <1>5, <1>7, <1>8, <1>9, <1>10, <1>11, OwnStep DEF LocalsMove

\* The transaction that ends a charge ends the pending row of the request that
\* calls it, and nothing else that is charged.
LEMMA RowEnds ==
  ASSUME RequestInv, NEW q \in Clients, Charged(q), ~req[q].finalized, ~Finished(q),
         NEW how \in {"settled", "refunded"},
         IF how = "settled" THEN Settle(req[q].id, FALSE) ELSE RefundTransaction(req[q].id)
  PROVE  /\ IInv' /\ OwnRow(q) /\ calls' = calls
         /\ req[q].id \in Charges' /\ ledger'[req[q].id].state = how
         /\ ledger'[req[q].id].resolution = "none"
<1> DEFINE id == req[q].id
<1>1. /\ id \in Charges /\ ledger[id].state = "pending" /\ ledger[id].resolution = "none"
      /\ TypeOK /\ RefundsNamed /\ IInv
  BY OneRequest DEF RowKnown, RequestInv, IInv
<1> HIDE DEF id
<1>2. CASE how = "settled"
  <2>1. Settle(id, FALSE) /\ Next
    BY <1>1, <1>2 DEF Next, id
  <2>2. /\ Rows' = Rows /\ \A r \in Rows : ledger'[r].kind = ledger[r].kind
        /\ \A r \in Rows : r # id => ledger'[r] = ledger[r]
        /\ ledger'[id].state = "settled" /\ ledger'[id].resolution = "none"
    BY <1>1, <2>1, SettleEffect DEF MoneyKept, SameMoney, Settled, Resolution
  <2>3. Charges' = Charges
    BY <2>2 DEF Charges
  <2> QED
    BY <1>1, <1>2, <2>1, <2>2, <2>3, IInvStep DEF OwnRow, Settle, Charges, id
<1>3. CASE how = "refunded"
  <2>1. Refund(id, FALSE) /\ Next
    BY <1>1, <1>3 DEF Next, id, RefundTransaction, RefundAgain
  <2>2. /\ Appended(RefundId(id), ledger[id].user)
        /\ \A r \in Rows : r # id => ledger'[r] = ledger[r]
        /\ ledger'[id].state = "refunded" /\ ledger'[id].resolution = "none"
    BY <1>1, <2>1, RefundEffect DEF Resolution
  <2>3. Charges \subseteq Charges'
    BY <2>2 DEF Charges, Appended, SameMoney
  <2> QED
    BY <1>1, <1>3, <2>1, <2>2, <2>3, IInvStep DEF OwnRow, Refund, Charges, id
<1> QED
  BY <1>2, <1>3

\* The end of a charge, wherever it is called: settled when the turn answered,
\* refunded otherwise.
LEMMA EndKeeps ==
  ASSUME RequestInv, NEW q \in Clients, Charged(q), ~req[q].finalized, ~Finished(q),
         NEW how \in {"settled", "refunded"},
         IF how = "settled" THEN Settle(req[q].id, FALSE) ELSE RefundTransaction(req[q].id),
         how = "settled" => req[q].outcome = "answer",
         KeepReceipt(q), lease' = lease,
         \/ /\ Where(q) \in {"finalize", "refund"}
            /\ Goto(q, IF req[q].stream THEN "report" ELSE "teardown")
         \/ /\ req[q].stream /\ handler[q] = "refund"
            /\ HandlerTo(q, "teardown") /\ UNCHANGED worker
         \/ /\ handler[q] = "teardown" /\ RefundDue(q)
            /\ HandlerTo(q, "release") /\ UNCHANGED worker
  PROVE  RequestInv'
<1>1. Typed(q) /\ Locals(q) /\ HoldsAtWork(q) /\ RowKnown(q)
  BY OneRequest
<1>2. /\ IInv' /\ OwnRow(q) /\ calls' = calls
      /\ req[q].id \in Charges' /\ ledger'[req[q].id].state = how
      /\ ledger'[req[q].id].resolution = "none"
  BY RowEnds
<1> DEFINE kept == [req[q] EXCEPT !.receipt = how]
           r == [kept EXCEPT !.finalized = TRUE]
<1>3. /\ kept \in Request /\ kept.receipt = how
      /\ kept.id = req[q].id /\ kept.user = req[q].user /\ kept.stream = req[q].stream
      /\ kept.workerOwned = req[q].workerOwned /\ kept.transferred = req[q].transferred
      /\ kept.outcome = req[q].outcome /\ kept.reported = req[q].reported
      /\ kept.faults = req[q].faults
  BY <1>1 DEF Typed, Request
<1>4. req' = [req EXCEPT ![q] = r]
  BY <1>1, <1>2 DEF KeepReceipt, Typed
<1> HIDE DEF kept
<1>5. /\ r \in Request /\ r.receipt = how /\ r.finalized = TRUE
      /\ r.id = req[q].id /\ r.user = req[q].user /\ r.stream = req[q].stream
      /\ r.workerOwned = req[q].workerOwned /\ r.transferred = req[q].transferred
      /\ r.outcome = req[q].outcome /\ r.reported = req[q].reported
      /\ r.faults = req[q].faults
  BY <1>3 DEF Request
<1> HIDE DEF r
<1>6. LocalsMove(q) /\ RequestTypeOK' /\ req'[q] = r
  BY <1>1, <1>2, <1>4, <1>5
     DEF LocalsMove, OthersRest, Typed, HandlerSteps, WorkerSteps, Where, Goto, HandlerTo,
         RequestTypeOK, IInv
<1>7. Locals(q)' /\ HoldsAtWork(q)'
  BY <1>1, <1>5, <1>6
     DEF Locals, HandedOver, LocalsAgree, FaultsCounted, RefundDue, Charged, HoldsAtWork,
         Typed, BeforeCharge, AtWork, UnderLease, Where, Goto, HandlerTo
<1>8. RowKnown(q)'
  BY <1>2, <1>5, <1>6 DEF RowKnown
<1>9. OwnLease(q)
  BY DEF OwnLease
<1> QED
  BY <1>2, <1>6, <1>7, <1>8, <1>9, OwnStep DEF LocalsMove

\* finalize(), refund() after an exception, and the refund of the teardown.
LEMMA FinishKeeps ==
  ASSUME RequestInv, NEW q \in Clients,
         Finalize(q) \/ RefundTurn(q) \/ RefundStart(q) \/ RefundUnfinished(q)
  PROVE  RequestInv'
<1>1. Typed(q) /\ Locals(q)
  BY OneRequest
<1>2. CASE Finalize(q)
  <2>1. /\ Where(q) = "finalize" /\ Charged(q) /\ ~req[q].finalized /\ ~Finished(q)
        /\ lease' = lease
    BY <1>1, <1>2 DEF Finalize, Where, Locals, HandedOver, LocalsAgree, Finished
  <2>2. CASE Fault(q) /\ UNCHANGED ledgerVars
             /\ Goto(q, IF req[q].stream THEN "refund" ELSE "teardown")
    BY <2>1, <2>2, RefundFails
  <2>3. CASE req[q].outcome = "answer" /\ Settle(req[q].id, FALSE) /\ KeepReceipt(q)
             /\ Goto(q, IF req[q].stream THEN "report" ELSE "teardown")
    BY <2>1, <2>3, EndKeeps
  <2>4. CASE RefundTransaction(req[q].id) /\ KeepReceipt(q)
             /\ Goto(q, IF req[q].stream THEN "report" ELSE "teardown")
    BY <2>1, <2>4, EndKeeps
  <2> QED
    BY <1>2, <2>2, <2>3, <2>4 DEF Finalize, SettleWhenAnswered
<1>3. CASE RefundTurn(q)
  <2>1. /\ Where(q) = "refund" /\ Charged(q) /\ ~req[q].finalized /\ ~Finished(q)
        /\ lease' = lease /\ Goto(q, IF req[q].stream THEN "report" ELSE "teardown")
    BY <1>1, <1>3 DEF RefundTurn, Where, Locals, HandedOver, LocalsAgree, Finished
  <2>2. CASE Fault(q) /\ UNCHANGED ledgerVars
    BY <2>1, <2>2, RefundFails
  <2>3. CASE RefundTransaction(req[q].id) /\ KeepReceipt(q)
    BY <2>1, <2>3, EndKeeps
  <2> QED
    BY <1>3, <2>2, <2>3 DEF RefundTurn
<1>4. CASE RefundStart(q)
  <2>1. /\ req[q].stream /\ handler[q] = "refund" /\ Charged(q) /\ ~req[q].finalized
        /\ ~Finished(q) /\ HandlerTo(q, "teardown") /\ UNCHANGED <<worker, lease>>
    BY <1>1, <1>4 DEF RefundStart, Locals, HandedOver, LocalsAgree, Finished
  <2>2. CASE Fault(q) /\ UNCHANGED ledgerVars
    BY <2>1, <2>2, RefundFails
  <2>3. CASE RefundTransaction(req[q].id) /\ KeepReceipt(q)
    BY <2>1, <2>3, EndKeeps
  <2> QED
    BY <1>4, <2>2, <2>3 DEF RefundStart
<1>5. CASE RefundUnfinished(q)
  <2>1. /\ handler[q] = "teardown" /\ ~Finished(q)
        /\ HandlerTo(q, "release") /\ UNCHANGED <<worker, lease>>
    BY <1>1, <1>5 DEF RefundUnfinished, Finished
  <2>2. CASE ~RefundDue(q) /\ UNCHANGED <<ledgerVars, req>>
    BY <2>1, <2>2, NothingDue
  <2>3. CASE RefundDue(q) /\ Fault(q) /\ UNCHANGED ledgerVars
    BY <2>1, <2>3, RefundFails
  <2>4. CASE RefundDue(q) /\ RefundTransaction(req[q].id) /\ KeepReceipt(q)
    BY <2>1, <2>4, EndKeeps DEF RefundDue
  <2> QED
    BY <1>5, <2>2, <2>3, <2>4 DEF RefundUnfinished
<1> QED
  BY <1>2, <1>3, <1>4, <1>5

-----------------------------------------------------------------------------
(* The lease, the process and the operator.                                *)

\* A lease is taken when it is free and let go of by the thread that has it.
LEMMA LeaseKeeps ==
  ASSUME RequestInv, NEW q \in Clients,
         AcquireProfile(q) \/ ReleaseProfile(q) \/ Unlock(q)
  PROVE  RequestInv'
<1>1. Typed(q) /\ Locals(q) /\ HoldsAtWork(q) /\ RowKnown(q)
  BY OneRequest
<1>2. UNCHANGED <<vars, req>>
  BY DEF AcquireProfile, ReleaseProfile, Unlock, ledgerVars, tables, vars
<1>3. IInv' /\ Charges' = Charges
  BY <1>2, IInvStep DEF RequestInv, vars, Charges, Rows
<1>4. LocalsMove(q) /\ OwnLease(q) /\ lease' \in [Users -> Clients \cup {Nobody}]
  <2>1. LocalsMove(q)
    BY <1>1, <1>2
       DEF AcquireProfile, ReleaseProfile, Unlock, HandlerTo, LocalsMove, OthersRest, Typed,
           HandlerSteps, WorkerSteps
  <2>2. req[q].user \in Users
    BY <1>1 DEF Typed, Request
  <2>3. \/ lease' = lease
        \/ lease[req[q].user] = Nobody /\ lease' = [lease EXCEPT ![req[q].user] = q]
        \/ lease[req[q].user] = q /\ lease' = [lease EXCEPT ![req[q].user] = Nobody]
    BY <1>1 DEF AcquireProfile, ReleaseProfile, Unlock, WithoutLease, MayRelease, HoldsAtWork, AtWork
  <2> QED
    BY <1>1, <2>1, <2>2, <2>3 DEF OwnLease, Typed
<1>5. Locals(q)'
  BY <1>1, <1>2
     DEF AcquireProfile, ReleaseProfile, Unlock, HandlerTo, Locals, HandedOver, LocalsAgree,
         FaultsCounted, RefundDue, Charged, Typed, BeforeCharge
<1>6. HoldsAtWork(q)'
  BY <1>1, <1>2, NobodyAssumption
     DEF AcquireProfile, ReleaseProfile, Unlock, WithoutLease, MayRelease, HandlerTo, HoldsAtWork,
         Locals, HandedOver, LocalsAgree, Typed, Request, AtWork, UnderLease
<1>7. RowKnown(q)' /\ OwnRow(q) /\ (Charged(q)' <=> Charged(q)) /\ calls' = calls
  <2>1. ~Finished(q)
    BY <1>1 DEF AcquireProfile, ReleaseProfile, Unlock, Finished, Locals, HandedOver
  <2> QED
    BY <1>1, <1>2, <1>3, <2>1 DEF RowKnown, OwnRow, Charged, vars
<1>8. RequestTypeOK'
  BY <1>3, <1>4 DEF RequestTypeOK, IInv, LocalsMove
<1> QED
  BY <1>3, <1>4, <1>5, <1>6, <1>7, <1>8, OwnStep DEF LocalsMove

\* The ledger's invariant is about its tables: it survives those who wait for
\* its lock.
LEMMA WaitersForgotten ==
  ASSUME IInv, calls' \subseteq calls, UNCHANGED <<tables, today>>
  PROVE  IInv'
<1>1. UNCHANGED <<balance, status, dailyLimit, ledger, lastRow, inflight, today>>
  BY DEF tables
<1>2. TypeOK'
  BY <1>1 DEF IInv, TypeOK, Rows
<1>3. RowsNumbered' /\ RefundsNamed' /\ ResolvedIsDone'
  BY <1>1 DEF IInv, RowsNumbered, RefundsNamed, ResolvedIsDone, Rows, Charges, RefundsOf
<1>4. AuditTrail'
  BY <1>1 DEF IInv, AuditTrail, Adjacent, Earlier, Rows, RowsOf
<1>5. InflightIsPending' /\ IsFiniteSet(inflight') /\ InflightBounded'
  BY <1>1 DEF IInv, InflightIsPending, InflightBounded, InflightOf, Charges, Rows
<1> QED
  BY <1>2, <1>3, <1>4, <1>5 DEF IInv

\* A crash ends every thread, and with it every lease and every wait.
LEMMA CrashKeeps == ASSUME RequestInv, Crash PROVE RequestInv'
<1> USE DEF RequestInv
<1>1. /\ \A q \in Clients : /\ handler[q] \in HandlerSteps /\ worker[q] \in WorkerSteps
                            /\ handler'[q] = IF handler[q] \in {"idle", "done"} THEN handler[q] ELSE "dead"
                            /\ worker'[q] = IF worker[q] \in {"none", "done"} THEN worker[q] ELSE "dead"
      /\ \A u \in Users : lease'[u] = Nobody
      /\ calls' = {} /\ UNCHANGED <<tables, today, req, ledger>>
  BY DEF Crash, RequestTypeOK, tables
<1>2. IInv'
  BY <1>1, WaitersForgotten
<1>3. RequestTypeOK'
  BY <1>2 DEF Crash, RequestTypeOK, IInv, HandlerSteps, WorkerSteps
<1>4. ASSUME NEW q \in Clients
      PROVE  HandedOver(q)' /\ LocalsAgree(q)' /\ FaultsCounted(q)' /\ RowKnown(q)'
  <2>1. HandedOver(q) /\ LocalsAgree(q) /\ FaultsCounted(q) /\ RowKnown(q)
    OBVIOUS
  <2>2. HandedOver(q)'
    BY <1>1, <2>1 DEF HandedOver, Charged
  <2>3. LocalsAgree(q)'
    BY <1>1, <2>1 DEF LocalsAgree, Charged, BeforeCharge
  <2>4. FaultsCounted(q)'
    BY <1>1, <2>1 DEF FaultsCounted, RefundDue, Charged
  <2>5. RowKnown(q)'
    <3>1. Finished(q) => Finished(q)'
      BY <1>1 DEF Finished
    <3> QED
      BY <1>1, <2>1, <3>1 DEF RowKnown, Charged, Charges, Rows
  <2> QED
    BY <2>2, <2>3, <2>4, <2>5
<1>5. OneChargePerId' /\ CallsKnown'
  BY <1>1 DEF OneChargePerId, CallsKnown, Charged
<1>6. LeaseKnown'
  BY <1>1, NobodyAssumption DEF LeaseKnown
<1>7. WorkUnderLease'
  BY <1>1 DEF WorkUnderLease
<1> QED
  BY <1>2, <1>3, <1>4, <1>5, <1>6, <1>7

\* The operator resolves what finished requests left pending.
LEMMA ReconcileKeeps ==
  ASSUME RequestInv, NEW id \in Charges, Reconcile(id)
  PROVE  RequestInv'
<1> USE DEF RequestInv
<1>1. Idle /\ UNCHANGED requestVars /\ (Settle(id, TRUE) \/ Refund(id, TRUE))
  BY DEF Reconcile
<1>2. IInv'
  <2>1. Next
    BY <1>1 DEF Next
  <2> QED
    BY <2>1, IInvStep
<1>3. /\ Charges \subseteq Charges' /\ calls' = calls
      /\ \A r \in Charges : r # id => ledger'[r] = ledger[r]
      /\ ledger[id].state = "pending" /\ ledger'[id].resolution # "none"
  <2>1. TypeOK /\ RefundsNamed
    BY DEF IInv
  <2>2. CASE Settle(id, TRUE)
    <3>1. /\ MoneyKept
          /\ \A r \in Rows : r # id => ledger'[r] = ledger[r]
          /\ ledger'[id].resolution = Resolution(id, TRUE, "settle")
          /\ ledger[id].state = "pending"
      BY <2>1, <2>2, SettleEffect
    <3>2. Charges' = Charges /\ Charges \subseteq Rows
      BY <3>1 DEF MoneyKept, SameMoney, Charges
    <3>3. calls' = calls
      BY <2>2 DEF Settle
    <3> QED
      BY <3>1, <3>2, <3>3 DEF Resolution
  <2>3. CASE Refund(id, TRUE)
    <3>1. /\ Appended(RefundId(id), ledger[id].user)
          /\ \A r \in Rows : r # id => ledger'[r] = ledger[r]
          /\ ledger'[id].resolution = Resolution(id, TRUE, "refund")
          /\ ledger[id].state = "pending"
      BY <2>1, <2>3, RefundEffect
    <3>2. Charges \subseteq Charges' /\ Charges \subseteq Rows
      BY <3>1 DEF Appended, SameMoney, Charges
    <3>3. calls' = calls
      BY <2>3 DEF Refund
    <3> QED
      BY <3>1, <3>2, <3>3 DEF Resolution
  <2> QED
    BY <1>1, <2>2, <2>3
<1>4. RequestTypeOK'
  BY <1>1, <1>2 DEF RequestTypeOK, requestVars, IInv
<1>5. ASSUME NEW q \in Clients
      PROVE  HandedOver(q)' /\ LocalsAgree(q)' /\ FaultsCounted(q)' /\ RowKnown(q)'
  <2>1. HandedOver(q)' /\ LocalsAgree(q)' /\ FaultsCounted(q)'
    BY <1>1 DEF HandedOver, LocalsAgree, FaultsCounted, RefundDue, Charged, requestVars
  <2>2. RowKnown(q)'
    <3> SUFFICES ASSUME Charged(q)
                 PROVE  /\ req[q].id \in Charges'
                        /\ req[q].finalized => ledger'[req[q].id].state = req[q].receipt
                        /\ ~req[q].finalized => \/ ledger'[req[q].id].state = "pending"
                                                \/ ledger'[req[q].id].resolution # "none"
                        /\ Finished(q)
      BY <1>1 DEF RowKnown, Charged, Finished, requestVars
    <3>1. Finished(q)
      BY <1>1 DEF Idle, LocalsAgree, BeforeCharge
    <3>2. req[q].finalized => req[q].id # id
      BY <1>3 DEF RowKnown, LocalsAgree
    <3> QED
      BY <1>3, <3>1, <3>2 DEF RowKnown
  <2> QED
    BY <2>1, <2>2
<1>6. OneChargePerId' /\ CallsKnown'
  BY <1>1, <1>3 DEF OneChargePerId, CallsKnown, Charged, requestVars
<1>7. LeaseKnown' /\ WorkUnderLease'
  BY <1>1 DEF LeaseKnown, WorkUnderLease, requestVars
<1> QED
  BY <1>2, <1>4, <1>5, <1>6, <1>7

\* Every step of the requests keeps the invariant.
LEMMA RequestStep == ASSUME RequestInv, RequestNext PROVE RequestInv'
<1>1. ASSUME NEW q \in Clients, Begin(q) \/ HandlerStep(q) \/ TurnStep(q) \/ WorkerStep(q)
      PROVE  RequestInv'
  <2>1. CASE Begin(q) \/ HandlerStep(q)
    BY <2>1, ArrivalKeeps, ActivateKeeps, StartKeeps, CallKeeps, ChargeKeeps, FinishKeeps, LeaseKeeps
       DEF HandlerStep
  <2>2. CASE TurnStep(q)
    BY <2>2, TurnKeeps, WriteKeeps, FinishKeeps DEF TurnStep
  <2>3. CASE WorkerStep(q)
    BY <2>3, ReportKeeps, LeaseKeeps DEF WorkerStep
  <2> QED
    BY <1>1, <2>1, <2>2, <2>3
<1> QED
  BY <1>1, CrashKeeps, ReconcileKeeps DEF RequestNext

-----------------------------------------------------------------------------
(* The first state: accounts that are open and funded.                     *)

\* The accounts can be numbered, whoever they belong to.
LEMMA AccountsNumbered ==
  /\ Cardinality(Users) \in Nat
  /\ \A u \in Users : AccountNumber[u] \in 1..Cardinality(Users)
  /\ \A u, v \in Users : AccountNumber[u] = AccountNumber[v] => u = v
<1>1. Cardinality(Users) \in Nat /\ ExistsBijection(1..Cardinality(Users), Users)
  BY FiniteAssumption, FS_CardinalityType
<1>2. ExistsBijection(Users, 1..Cardinality(Users))
  BY <1>1, Fun_ExistsBijSymmetric
<1>3. Injection(Users, 1..Cardinality(Users)) # {}
  BY <1>2 DEF ExistsBijection, Bijection
<1>4. AccountNumber \in Injection(Users, 1..Cardinality(Users))
  BY <1>3 DEF AccountNumber
<1> QED
  BY <1>1, <1>4 DEF Injection, IsInjective

\* A ledger of one topup for each account keeps every promise of the ledger.
LEMMA FundedLedger == ASSUME RequestInit PROVE IInv
<1> DEFINE first(u) == <<Opening[u], "plain">>
<1>1. /\ Rows = {first(u) : u \in Users}
      /\ \A u \in Users : ledger[first(u)] =
           [user |-> u, kind |-> "topup", amount |-> Funds, after |-> Funds,
            state |-> "settled", day |-> 0, n |-> AccountNumber[u], resolution |-> "none"]
  <2>1. \A u \in Users : OwnerOf(first(u)) = u
    BY OpeningAssumption DEF OwnerOf
  <2> QED
    BY <2>1 DEF RequestInit, Rows
<1>2. /\ balance = [u \in Users |-> Funds] /\ status = [u \in Users |-> "active"]
      /\ dailyLimit = [u \in Users |-> 0] /\ lastRow = Cardinality(Users)
      /\ inflight = {} /\ calls = {} /\ today = 0
  BY DEF RequestInit
<1>3. \A u \in Users : Opening[u] \in ReservedIds /\ Opening[u] \in BaseIds
  BY OpeningAssumption, ReservedAssumption
<1>4. \A u, v \in Users : first(u) = first(v) => u = v
  BY OpeningAssumption
<1>5. \A u \in Users :
        /\ ledger[first(u)].user = u /\ ledger[first(u)].kind = "topup"
        /\ ledger[first(u)].amount = Funds /\ ledger[first(u)].after = Funds
        /\ ledger[first(u)].state = "settled" /\ ledger[first(u)].n = AccountNumber[u]
        /\ ledger[first(u)].resolution = "none" /\ ledger[first(u)] \in Row
  <2> SUFFICES ASSUME NEW u \in Users
               PROVE  /\ ledger[first(u)].user = u /\ ledger[first(u)].kind = "topup"
                      /\ ledger[first(u)].amount = Funds /\ ledger[first(u)].after = Funds
                      /\ ledger[first(u)].state = "settled" /\ ledger[first(u)].n = AccountNumber[u]
                      /\ ledger[first(u)].resolution = "none" /\ ledger[first(u)] \in Row
    OBVIOUS
  <2>1. Funds \in Nat /\ AccountNumber[u] \in Nat
    BY PriceAssumption, AccountsNumbered
  <2>2. ledger[first(u)] =
          [user |-> u, kind |-> "topup", amount |-> Funds, after |-> Funds,
           state |-> "settled", day |-> 0, n |-> AccountNumber[u], resolution |-> "none"]
    BY <1>1
  <2> HIDE DEF first
  <2> QED
    BY <2>1, <2>2 DEF Row
<1>6. \A r \in Rows : \E u \in Users : r = first(u) /\ r[2] = "plain"
  BY <1>1
<1>7. Charges = {}
  BY <1>5, <1>6 DEF Charges
<1>8. TypeOK
  <2>1. Rows \subseteq Ids
    BY <1>1, <1>3 DEF Ids, Suffixes
  <2>2. ledger = [id \in Rows |-> ledger[id]]
    BY DEF RequestInit, Rows
  <2>3. ledger \in [Rows -> Row]
    BY <1>5, <1>6, <2>2
  <2> QED
    BY <1>2, <2>1, <2>3, AccountsNumbered, PriceAssumption DEF TypeOK
<1> HIDE DEF first
<1>9. RowsNumbered
  BY <1>2, <1>5, <1>6, AccountsNumbered DEF RowsNumbered
<1>10. RefundsNamed /\ ResolvedIsDone
  BY <1>5, <1>6, <1>7 DEF RefundsNamed, ResolvedIsDone
<1>11. AuditTrail
  <2>1. \A i, j \in Rows : ~Earlier(i, j)
    BY <1>5, <1>6, AccountsNumbered DEF Earlier
  <2>2. \A u \in Users : RowsOf(u) # {}
    BY <1>1, <1>5 DEF RowsOf
  <2>3. \A r \in Rows : ledger[r].after = Delta(ledger[r]) /\ balance[ledger[r].user] = ledger[r].after
    BY <1>2, <1>5, <1>6 DEF Delta
  <2> QED
    BY <2>1, <2>2, <2>3 DEF AuditTrail, Adjacent
<1>12. InflightIsPending /\ IsFiniteSet(inflight) /\ InflightBounded
  BY <1>2, <1>7, FS_EmptySet, InflightAssumption DEF InflightIsPending, InflightBounded, InflightOf
<1> QED
  BY <1>8, <1>9, <1>10, <1>11, <1>12 DEF IInv

\* Requests that have not begun know nothing and hold nothing.
LEMMA IdleKeeps == ASSUME RequestsIdle, IInv, calls = {} PROVE RequestInv
<1>1. /\ \A q \in Clients : /\ handler[q] = "idle" /\ worker[q] = "none"
                            /\ req[q] \in Request
                            /\ req[q].receipt = "none" /\ ~req[q].finalized
                            /\ ~req[q].workerOwned /\ ~req[q].transferred
                            /\ req[q].reported = "none"
      /\ \A u \in Users : lease[u] = Nobody
  <2> SUFFICES ASSUME NEW q \in Clients
               PROVE  /\ handler[q] = "idle" /\ worker[q] = "none"
                      /\ req[q] \in Request
                      /\ req[q].receipt = "none" /\ ~req[q].finalized
                      /\ ~req[q].workerOwned /\ ~req[q].transferred
                      /\ req[q].reported = "none"
    BY DEF RequestsIdle
  <2>1. /\ handler[q] = "idle" /\ worker[q] = "none"
        /\ req[q] \in [user: Users, id: ChargeIds, stream: BOOLEAN,
                      receipt: {"none"}, finalized: {FALSE}, workerOwned: {FALSE},
                      transferred: {FALSE}, outcome: {"none"}, reported: {"none"}, faults: {0}]
    BY DEF RequestsIdle
  <2>2. 0 \in 0..MaxFaults
    BY FiniteAssumption
  <2> QED
    BY <2>1, <2>2 DEF Request
<1>2. RequestTypeOK
  BY <1>1 DEF RequestsIdle, RequestTypeOK, HandlerSteps, WorkerSteps, IInv
<1>3. \A q \in Clients : HandedOver(q) /\ LocalsAgree(q) /\ FaultsCounted(q) /\ RowKnown(q)
  BY <1>1 DEF HandedOver, LocalsAgree, FaultsCounted, RowKnown, Charged, RefundDue
<1>4. OneChargePerId /\ CallsKnown /\ LeaseKnown /\ WorkUnderLease
  BY <1>1, NobodyAssumption DEF OneChargePerId, CallsKnown, LeaseKnown, WorkUnderLease, Charged
<1> QED
  BY <1>2, <1>3, <1>4 DEF RequestInv

(***************************************************************************)
(* Payments: what Stripe reports and is told, and what the ledger makes of *)
(* it.                                                                     *)
(***************************************************************************)

\* What Stripe reports is true, and what it is told is too.
ReportsAreTrue ==
  /\ session \in [Sessions -> SessionRecord]
  /\ events \subseteq Event
  /\ \A e \in events : e.paid => /\ session[e.session].state = "paid"
                                 /\ e.type \in {Completed, Succeeded}
  /\ working \subseteq Delivery
  /\ \A d \in working : d.event \in events
  /\ acked \subseteq events

AnswersAreTrue ==
  \A d \in working : d.answer = "ok" /\ d.event.paid => Credited(d.event.session)

PaidInv ==
  /\ ReportsAreTrue
  /\ AnswersAreTrue
  /\ AckedIsCredited
  /\ CreditedWasPaid

-----------------------------------------------------------------------------
\* A topup adds its row and changes no other.
LEMMA TopupAdds ==
  ASSUME NEW u, NEW credits, NEW id, Topup(u, credits, id)
  PROVE  /\ Rows' = Rows \cup {id} /\ id \notin Rows
         /\ \A r \in Rows : ledger'[r] = ledger[r]
         /\ SameTopup(ledger'[id], u, credits)
<1>1. id \notin Rows
  BY DEF Topup, IdUnused
<1>2. ledger' = [x \in Rows \cup {id} |->
                   IF x = id THEN NewRow(u, "topup", credits, balance[u] + credits, "settled", today)
                             ELSE ledger[x]]
  BY DEF Topup, WithRow, Rows
<1>3. Rows' = Rows \cup {id}
  BY <1>2 DEF Rows
<1>4. \A r \in Rows : ledger'[r] = ledger[r]
  BY <1>1, <1>2
<1>5. ledger'[id] = NewRow(u, "topup", credits, balance[u] + credits, "settled", today)
  BY <1>2
<1>6. SameTopup(ledger'[id], u, credits)
  BY <1>5 DEF SameTopup, NewRow
<1> QED
  BY <1>1, <1>3, <1>4, <1>6

\* While the ledger only grows, what was credited stays credited.
LEMMA CreditStays ==
  ASSUME ledger' = ledger \/ \E u, credits, id : Topup(u, credits, id)
  PROVE  \A s \in Sessions :
           Credited(s) => Credited(s)' /\ ledger'[StripeId(s)] = ledger[StripeId(s)]
<1>1. CASE ledger' = ledger
  BY <1>1 DEF Credited, Rows
<1>2. ASSUME NEW u, NEW credits, NEW id, Topup(u, credits, id)
      PROVE  \A s \in Sessions :
               Credited(s) => Credited(s)' /\ ledger'[StripeId(s)] = ledger[StripeId(s)]
  BY <1>2, TopupAdds DEF Credited
<1> QED
  BY <1>1, <1>2

\* Checkout: no session that is known changes.
LEMMA CheckoutKeeps ==
  ASSUME PaidInv, NEW u \in Users, NEW s \in Sessions, NEW c \in TopupAmounts,
         CreateCheckout(u, s, c) \/ ForeignCheckout(u, s, c)
  PROVE  PaidInv'
<1> DEFINE new == [state |-> "open", user |-> u, credits |-> c]
<1>1. /\ session[s] = NoSession /\ session' = [session EXCEPT ![s] = new]
      /\ UNCHANGED <<ledger, events, working, acked, manual>>
  BY DEF CreateCheckout, ForeignCheckout, vars
<1>2. new \in SessionRecord
  BY DEF SessionRecord
<1>3. session' \in [Sessions -> SessionRecord]
  BY <1>1, <1>2 DEF PaidInv, ReportsAreTrue
<1>4. \A x \in Sessions : session[x].state = "paid" => session'[x] = session[x]
  BY <1>1 DEF NoSession, PaidInv, ReportsAreTrue
<1>5. ReportsAreTrue'
  BY <1>1, <1>3, <1>4 DEF PaidInv, ReportsAreTrue, Event
<1>6. AnswersAreTrue' /\ AckedIsCredited'
  BY <1>1 DEF PaidInv, AnswersAreTrue, AckedIsCredited, Credited, Rows
<1>7. CreditedWasPaid'
  BY <1>1, <1>4 DEF PaidInv, CreditedWasPaid, Credited, Rows
<1> QED
  BY <1>5, <1>6, <1>7 DEF PaidInv

\* The customer pays, or fails to: what is paid stays paid, and a report says
\* "paid" of nothing else.
LEMMA CustomerKeeps ==
  ASSUME PaidInv, NEW s \in Sessions, Customer(s)
  PROVE  PaidInv'
<1>1. PICK from \in {"open", "unpaid"}, to \in {"paid", "unpaid", "failed"},
           type \in {Completed, Succeeded, Failed} :
        /\ TellStripe(s, from, to, type)
        /\ to = "paid" => type \in {Completed, Succeeded}
  BY DEF Customer
<1> DEFINE new == [session[s] EXCEPT !.state = to]
<1> DEFINE report == [session |-> s, type |-> type, paid |-> to = "paid"]
<1>2. /\ session[s].state = from
      /\ session' = [session EXCEPT ![s] = new]
      /\ events' = events \cup {report}
      /\ UNCHANGED <<ledger, working, acked, manual>>
  BY <1>1 DEF TellStripe, vars
<1>3. session[s] \in [state: {"open", "unpaid", "paid", "failed"}, user: Users,
                      credits: TopupAmounts]
  BY <1>2 DEF PaidInv, ReportsAreTrue, SessionRecord, NoSession
<1>4. new \in SessionRecord /\ new.state = to
  BY <1>3 DEF SessionRecord
<1> HIDE DEF new
<1>5. /\ session' \in [Sessions -> SessionRecord]
      /\ session'[s].state = to
      /\ \A x \in Sessions : session[x].state = "paid" => session'[x] = session[x]
  BY <1>2, <1>4 DEF PaidInv, ReportsAreTrue
<1>6. report \in Event /\ report.session = s /\ report.type = type /\ (report.paid => to = "paid")
  BY DEF Event
<1> HIDE DEF report
<1>7. ReportsAreTrue'
  BY <1>1, <1>2, <1>5, <1>6 DEF PaidInv, ReportsAreTrue, Event
<1>8. AnswersAreTrue' /\ AckedIsCredited'
  BY <1>2 DEF PaidInv, AnswersAreTrue, AckedIsCredited, Credited, Rows
<1>9. CreditedWasPaid'
  BY <1>2, <1>5 DEF PaidInv, CreditedWasPaid, Credited, Rows
<1> QED
  BY <1>7, <1>8, <1>9 DEF PaidInv

\* The webhook: "ok" to a paid event is only answered when its row is there,
\* whoever has inserted it.
LEMMA HandleKeeps ==
  ASSUME PaidInv, NEW d \in working, Handle(d)
  PROVE  PaidInv'
<1> DEFINE e == d.event
<1> DEFINE s == session[e.session]
<1> DEFINE id == StripeId(e.session)
<1>1. /\ e \in events /\ e \in Event /\ e.session \in Sessions
      /\ UNCHANGED <<session, events, acked, manual>>
  BY DEF PaidInv, ReportsAreTrue, Event, Handle
<1>2. PICK answer \in {"ok", "unknown_user", "conflict"} :
        /\ Answered(d, answer)
        /\ \/ ~Parsed(e) /\ UNCHANGED vars
           \/ answer # "ok" /\ UNCHANGED vars
           \/ Parsed(e) /\ Topup(s.user, s.credits, id)
           \/ id \in Rows /\ UNCHANGED vars
  BY DEF Handle
<1>3. ledger' = ledger \/ \E u, credits, i : Topup(u, credits, i)
  BY <1>2 DEF vars
<1>4. \A x \in Sessions :
        Credited(x) => Credited(x)' /\ ledger'[StripeId(x)] = ledger[StripeId(x)]
  BY <1>3, CreditStays
<1>5. e.paid => Parsed(e)
  BY <1>1 DEF PaidInv, ReportsAreTrue, Parsed
<1>6. e.paid /\ answer = "ok" => Credited(e.session)'
  <2>1. CASE Topup(s.user, s.credits, id)
    BY <2>1, TopupAdds DEF Credited
  <2>2. CASE id \in Rows
    BY <1>1, <1>4, <2>2 DEF Credited
  <2> QED
    BY <1>2, <1>5, <2>1, <2>2
<1> DEFINE told == [d EXCEPT !.answer = answer]
<1>7. /\ told \in Delivery /\ told.event = e /\ told.answer = answer
      /\ working' = (working \ {d}) \cup {told}
  <2>1. d \in Delivery
    BY DEF PaidInv, ReportsAreTrue
  <2> QED
    BY <1>2, <2>1 DEF Answered, Delivery
<1> HIDE DEF told
<1>8. ReportsAreTrue'
  BY <1>1, <1>7 DEF PaidInv, ReportsAreTrue
<1>9. AnswersAreTrue'
  <2>1. ASSUME NEW x \in working', x.answer = "ok", x.event.paid
        PROVE  Credited(x.event.session)'
    <3>1. CASE x = told
      BY <1>6, <1>7, <2>1, <3>1
    <3>2. CASE x \in working
      <4>1. x.event.session \in Sessions /\ Credited(x.event.session)
        BY <2>1, <3>2 DEF PaidInv, AnswersAreTrue, ReportsAreTrue, Event
      <4> QED
        BY <1>4, <4>1
    <3> QED
      BY <1>7, <3>1, <3>2
  <2> QED
    BY <2>1 DEF AnswersAreTrue
<1>10. AckedIsCredited'
  <2>1. \A x \in acked : x.session \in Sessions
    BY DEF PaidInv, ReportsAreTrue, Event
  <2> QED
    BY <1>1, <1>4, <2>1 DEF PaidInv, AckedIsCredited
<1>11. CreditedWasPaid'
  <2>1. ASSUME NEW x \in Sessions, Credited(x)', x \notin manual
        PROVE  /\ session[x].state = "paid"
               /\ SameTopup(ledger'[StripeId(x)], session[x].user, session[x].credits)
    <3>1. CASE Credited(x)
      BY <1>4, <2>1, <3>1 DEF PaidInv, CreditedWasPaid
    <3>2. CASE ~Credited(x)
      <4>1. Parsed(e) /\ Topup(s.user, s.credits, id)
        BY <1>2, <2>1, <3>2 DEF Credited, vars, Rows
      <4>2. StripeId(x) = id
        BY <2>1, <3>2, <4>1, TopupAdds DEF Credited
      <4>3. x = e.session
        BY <4>2 DEF StripeId
      <4>4. session[x].state = "paid"
        BY <1>1, <4>1, <4>3 DEF PaidInv, ReportsAreTrue, Parsed
      <4>5. SameTopup(ledger'[id], s.user, s.credits)
        BY <4>1, TopupAdds
      <4> QED
        BY <4>2, <4>3, <4>4, <4>5
    <3> QED
      BY <3>1, <3>2
  <2> QED
    BY <1>1, <2>1 DEF CreditedWasPaid
<1> QED
  BY <1>8, <1>9, <1>10, <1>11 DEF PaidInv

\* Deliveries, answers that arrive or are lost: the ledger is left alone, and
\* an acknowledgement is an "ok" that arrives.
LEMMA DeliveryKeeps ==
  ASSUME PaidInv,
         \/ \E w \in Workers, e \in events : Deliver(w, e)
         \/ \E d \in working : Reply(d) \/ Lose(d)
  PROVE  PaidInv'
<1>1. UNCHANGED <<ledger, session, events, manual>>
  BY DEF Deliver, Reply, Lose, vars
<1>2. CreditedWasPaid'
  BY <1>1 DEF PaidInv, CreditedWasPaid, Credited, Rows
<1>3. ASSUME NEW w \in Workers, NEW e \in events, Deliver(w, e)
      PROVE  PaidInv'
  <2> DEFINE new == [worker |-> w, event |-> e, answer |-> "none"]
  <2>1. working' = working \cup {new} /\ acked' = acked
    BY <1>3 DEF Deliver
  <2>2. new \in Delivery /\ new.event = e /\ new.answer # "ok"
    BY DEF Delivery, PaidInv, ReportsAreTrue
  <2> HIDE DEF new
  <2>3. ReportsAreTrue' /\ AnswersAreTrue' /\ AckedIsCredited'
    BY <1>1, <2>1, <2>2 DEF PaidInv, ReportsAreTrue, AnswersAreTrue, AckedIsCredited,
                            Credited, Rows
  <2> QED
    BY <1>2, <2>3 DEF PaidInv
<1>4. ASSUME NEW d \in working, Reply(d) \/ Lose(d)
      PROVE  PaidInv'
  <2>1. /\ working' = working \ {d}
        /\ \/ acked' = acked
           \/ d.answer = "ok" /\ acked' = acked \cup {d.event}
    BY <1>4 DEF Reply, Lose, Ack
  <2>2. ReportsAreTrue' /\ AnswersAreTrue'
    BY <1>1, <2>1 DEF PaidInv, ReportsAreTrue, AnswersAreTrue, Credited, Rows
  <2>3. AckedIsCredited'
    BY <1>1, <2>1 DEF PaidInv, AnswersAreTrue, AckedIsCredited, Credited, Rows
  <2> QED
    BY <1>2, <2>2, <2>3 DEF PaidInv
<1> QED
  BY <1>3, <1>4

\* A correction by hand, and the administration of accounts.
LEMMA HandKeeps ==
  ASSUME PaidInv,
         \/ AccountStep
         \/ \E s \in Sessions, u \in Users, c \in TopupAmounts : CreditByHand(s, u, c)
  PROVE  PaidInv'
<1>1. CASE AccountStep
  <2>1. UNCHANGED <<ledger, session, events, working, acked, manual>>
    BY <1>1 DEF AccountStep, CreateUser, SetUserStatus, stripeVars
  <2> QED
    BY <2>1 DEF PaidInv, ReportsAreTrue, AnswersAreTrue, AckedIsCredited, CreditedWasPaid,
                Credited, Rows
<1>2. ASSUME NEW s \in Sessions, NEW u \in Users, NEW c \in TopupAmounts,
             CreditByHand(s, u, c)
      PROVE  PaidInv'
  <2>1. /\ Topup(u, c, StripeId(s)) /\ manual' = manual \cup {s}
        /\ UNCHANGED <<session, events, working, acked>>
    BY <1>2 DEF CreditByHand
  <2>2. \A x \in Sessions :
          Credited(x) => Credited(x)' /\ ledger'[StripeId(x)] = ledger[StripeId(x)]
    BY <2>1, CreditStays
  <2>3. ReportsAreTrue'
    BY <2>1 DEF PaidInv, ReportsAreTrue
  <2>4. AnswersAreTrue' /\ AckedIsCredited'
    <3>1. \A e \in events : e.session \in Sessions
      BY DEF PaidInv, ReportsAreTrue, Event
    <3> QED
      BY <2>1, <2>2, <3>1 DEF PaidInv, ReportsAreTrue, AnswersAreTrue, AckedIsCredited
  <2>5. \A x \in Sessions : Credited(x)' /\ x # s => Credited(x)
    BY <2>1, TopupAdds DEF Credited, StripeId
  <2>6. CreditedWasPaid'
    BY <2>1, <2>2, <2>5 DEF PaidInv, CreditedWasPaid
  <2> QED
    BY <2>3, <2>4, <2>6 DEF PaidInv
<1> QED
  BY <1>1, <1>2

\* At first nothing is sold, reported or credited, and every step keeps the
\* invariant.
LEMMA PaidInit == PaymentsInit => PaidInv
  BY DEF PaymentsInit, NoPayments, Init, PaidInv, ReportsAreTrue, AnswersAreTrue,
         AckedIsCredited, CreditedWasPaid, Credited, Rows, SessionRecord

\* Every step of Stripe and of the service keeps what is credited paid.
LEMMA PaidStep == PaidInv /\ [PaymentsNext]_paymentVars => PaidInv'
<1> SUFFICES ASSUME PaidInv, [PaymentsNext]_paymentVars PROVE PaidInv'
  OBVIOUS
<1>1. CASE \E u \in Users, s \in Sessions, c \in TopupAmounts :
             CreateCheckout(u, s, c) \/ ForeignCheckout(u, s, c)
  BY <1>1, CheckoutKeeps
<1>2. CASE \/ AccountStep
           \/ \E s \in Sessions, u \in Users, c \in TopupAmounts : CreditByHand(s, u, c)
  BY <1>2, HandKeeps
<1>3. CASE \E s \in Sessions : Customer(s)
  BY <1>3, CustomerKeeps
<1>4. CASE \/ \E w \in Workers, e \in events : Deliver(w, e)
           \/ \E d \in working : Reply(d) \/ Lose(d)
  BY <1>4, DeliveryKeeps
<1>5. CASE \E d \in working : Handle(d)
  BY <1>5, HandleKeeps
<1>6. CASE UNCHANGED paymentVars
  BY <1>6 DEF paymentVars, vars, stripeVars, PaidInv, ReportsAreTrue, AnswersAreTrue,
              AckedIsCredited, CreditedWasPaid, Credited, Rows
<1> QED
  BY <1>1, <1>2, <1>3, <1>4, <1>5, <1>6 DEF PaymentsNext

\* What is credited is paid for, always.
LEMMA PaidInvariant == PaymentsSpec => []PaidInv
  BY PaidInit, PaidStep, PTL DEF PaymentsSpec

\* However often, late and concurrently Stripe delivers what it has to report,
\* a session that was credited without a correction by hand was paid for, and
\* the row names its user and its credits (web_server.py webhooks_stripe,
\* stripe_gateway.py, service.py topup).
THEOREM NothingIsCreditedUnpaid == PaymentsSpec => []CreditedWasPaid
<1>1. PaidInv => CreditedWasPaid
  BY DEF PaidInv
<1> QED
  BY <1>1, PaidInvariant, PTL

\* The webhook acknowledges a paid event only when its credits are in the
\* ledger: from then on Stripe may forget it.
THEOREM AcknowledgedIsCredited == PaymentsSpec => []AckedIsCredited
<1>1. PaidInv => AckedIsCredited
  BY DEF PaidInv
<1> QED
  BY <1>1, PaidInvariant, PTL

-----------------------------------------------------------------------------
\* Payments use the ledger by its operations only.
LEMMA PaymentIsLedgerStep ==
  ASSUME FitAssumption, PaidInv, [PaymentsNext]_paymentVars
  PROVE  [Next]_vars
<1>1. CASE AccountStep
  BY <1>1 DEF AccountStep, FitAssumption, Next
<1>2. ASSUME NEW u \in Users, NEW s \in Sessions, NEW c \in TopupAmounts,
             CreditByHand(s, u, c)
      PROVE  Next
  <2>1. Topup(u, c, StripeId(s)) /\ StripeId(s) \in TopupIds
    BY <1>2 DEF CreditByHand, FitAssumption
  <2> QED
    BY <2>1 DEF Next
<1>3. ASSUME NEW d \in working, Handle(d)
      PROVE  [Next]_vars
  <2> DEFINE e == d.event
  <2> DEFINE s == session[e.session]
  <2>1. e \in events /\ e.session \in Sessions /\ s \in SessionRecord
    BY DEF PaidInv, ReportsAreTrue, Event
  <2>2. CASE UNCHANGED vars
    BY <2>2
  <2>3. CASE Parsed(e) /\ Topup(s.user, s.credits, StripeId(e.session))
    <3>1. s.state = "paid"
      BY <2>1, <2>3 DEF PaidInv, ReportsAreTrue, Parsed
    <3>2. s.user \in Users /\ s.credits \in TopupAmounts
      BY <2>1, <3>1 DEF SessionRecord, NoSession
    <3>3. StripeId(e.session) \in TopupIds
      BY <2>1 DEF FitAssumption
    <3> QED
      BY <2>3, <3>2, <3>3 DEF Next
  <2> QED
    BY <1>3, <2>2, <2>3 DEF Handle
<1>4. CASE \/ \E u \in Users, s \in Sessions, c \in TopupAmounts :
                CreateCheckout(u, s, c) \/ ForeignCheckout(u, s, c)
           \/ \E s \in Sessions : Customer(s)
           \/ \E w \in Workers, e \in events : Deliver(w, e)
           \/ \E d \in working : Reply(d) \/ Lose(d)
           \/ UNCHANGED paymentVars
  <2>1. UNCHANGED vars
    BY <1>4 DEF CreateCheckout, ForeignCheckout, Customer, TellStripe, Deliver, Reply, Lose, paymentVars
  <2> QED
    BY <2>1
<1> QED
  BY <1>1, <1>2, <1>3, <1>4 DEF PaymentsNext

\* Whatever payments do to the tables is a step of BillingLedger.
THEOREM PaymentsAreLedgerSteps == FitAssumption => (PaymentsSpec => Spec)
<1> SUFFICES ASSUME FitAssumption PROVE PaymentsSpec => Spec
  OBVIOUS
<1>1. PaymentsInit => Init
  BY DEF PaymentsInit
<1>2. PaidInv /\ [PaymentsNext]_paymentVars => [Next]_vars
  BY PaymentIsLedgerStep
<1> QED
  BY <1>1, <1>2, PaidInvariant, PTL DEF PaymentsSpec, Spec

\* So everything proved of the ledger holds of it under payments as well: its
\* audit trail is complete, and its slots are the pending charges.
THEOREM LedgerHoldsUnderPayments == FitAssumption => (PaymentsSpec => []IInv)
  BY PaymentsAreLedgerSteps, Inductive


-----------------------------------------------------------------------------
(* Where nothing is sold but credits, the ledger holds topups and no more.  *)

TopupsOnly ==
  \A id \in Rows : ledger[id].kind = "topup" /\ \E s \in Sessions : id = StripeId(s)

DeliveriesKnown ==
  /\ \A d, e \in working : d.worker = e.worker => d = e
  /\ manual \subseteq Sessions
  /\ lost \in 0..MaxLost

PaymentsInv ==
  /\ IInv /\ PaidInv
  /\ RowsOfSomebody /\ Conservation
  /\ TopupsOnly /\ DeliveriesKnown
  /\ calls = {}

\* At first there are no payments, rows or calls.
LEMMA PaymentsInvInit == ASSUME PaymentsInit PROVE PaymentsInv
<1>1. Init /\ NoPayments /\ Rows = {} /\ calls = {}
  BY DEF PaymentsInit, Init, Rows
<1>2. TopupsOnly /\ DeliveriesKnown
  BY <1>1, PaymentsAssumption DEF TopupsOnly, DeliveriesKnown, NoPayments, LostAssumption
<1> QED
  BY <1>1, <1>2, IInvInit, BooksInit, PaidInit DEF PaymentsInv

\* The ledger of payments changes by a topup named after a session, or not at
\* all.
LEMMA PaymentTouches ==
  ASSUME PaidInv, PaymentsNext
  PROVE  /\ calls' = calls
         /\ \/ ledger' = ledger
            \/ \E u, credits : \E s \in Sessions : Topup(u, credits, StripeId(s))
<1>1. CASE AccountStep
  BY <1>1 DEF AccountStep, CreateUser, SetUserStatus
<1>2. ASSUME NEW u \in Users, NEW s \in Sessions, NEW c \in TopupAmounts, CreditByHand(s, u, c)
      PROVE  /\ calls' = calls
             /\ \E v, credits : \E x \in Sessions : Topup(v, credits, StripeId(x))
  <2>1. Topup(u, c, StripeId(s))
    BY <1>2 DEF CreditByHand
  <2> QED
    BY <2>1 DEF Topup
<1>3. ASSUME NEW d \in working, Handle(d)
      PROVE  /\ calls' = calls
             /\ \/ ledger' = ledger
                \/ \E v, credits : \E x \in Sessions : Topup(v, credits, StripeId(x))
  <2>1. d.event.session \in Sessions
    BY DEF PaidInv, ReportsAreTrue, Event
  <2>2. UNCHANGED vars \/ \E v, credits : Topup(v, credits, StripeId(d.event.session))
    BY <1>3 DEF Handle
  <2>3. CASE UNCHANGED vars
    BY <2>3 DEF vars
  <2>4. ASSUME NEW v, NEW credits, Topup(v, credits, StripeId(d.event.session))
        PROVE  calls' = calls
    BY <2>4 DEF Topup
  <2> QED
    BY <2>1, <2>2, <2>3, <2>4
<1>4. CASE \/ \E u \in Users, s \in Sessions, c \in TopupAmounts :
                CreateCheckout(u, s, c) \/ ForeignCheckout(u, s, c)
           \/ \E s \in Sessions : Customer(s)
           \/ \E w \in Workers, e \in events : Deliver(w, e)
           \/ \E d \in working : Reply(d) \/ Lose(d)
  BY <1>4 DEF CreateCheckout, ForeignCheckout, Customer, TellStripe, Deliver, Reply, Lose, vars
<1> QED
  BY <1>1, <1>2, <1>3, <1>4 DEF PaymentsNext

\* A worker has one delivery at a time.
LEMMA DeliveriesStep ==
  ASSUME DeliveriesKnown, PaymentsNext
  PROVE  DeliveriesKnown'
<1> USE DEF DeliveriesKnown
<1>1. ASSUME NEW w \in Workers, NEW e \in events, Deliver(w, e) PROVE DeliveriesKnown'
  BY <1>1 DEF Deliver
<1>2. ASSUME NEW d \in working, Handle(d) PROVE DeliveriesKnown'
  <2>1. PICK answer : Answered(d, answer)
    BY <1>2 DEF Handle
  <2> DEFINE new == [d EXCEPT !.answer = answer]
  <2>2. working' = (working \ {d}) \cup {new} /\ UNCHANGED <<manual, lost>>
    BY <1>2, <2>1 DEF Handle, Answered
  <2>3. new.worker = d.worker
    OBVIOUS
  <2> HIDE DEF new
  <2> QED
    BY <2>2, <2>3
<1>3. ASSUME NEW d \in working, Reply(d) \/ Lose(d) PROVE DeliveriesKnown'
  BY <1>3, PaymentsAssumption DEF Reply, Lose, LostAssumption
<1>4. CASE \/ AccountStep
           \/ \E u \in Users, s \in Sessions, c \in TopupAmounts :
                CreateCheckout(u, s, c) \/ ForeignCheckout(u, s, c) \/ CreditByHand(s, u, c)
           \/ \E s \in Sessions : Customer(s)
  BY <1>4 DEF AccountStep, CreateCheckout, ForeignCheckout, CreditByHand, Customer, TellStripe,
              stripeVars
<1> QED
  BY <1>1, <1>2, <1>3, <1>4 DEF PaymentsNext

\* Every step of the payments keeps the types and the ledger's invariant with them.
LEMMA PaymentsInvStep == ASSUME PaymentsInv, [PaymentsNext]_paymentVars PROVE PaymentsInv'
<1> USE DEF PaymentsInv
<1>1. PaidInv' /\ [Next]_vars
  BY PaidStep, PaymentIsLedgerStep, PaymentsAssumption
<1>2. IInv' /\ RowsOfSomebody' /\ Conservation'
  <2>1. IInv'
    BY <1>1, IInvStep
  <2> QED
    BY <1>1, <2>1, RowsStep, BooksStep DEF IInv
<1>3. CASE UNCHANGED paymentVars
  <2>1. UNCHANGED <<ledger, calls, working, manual, lost>>
    BY <1>3 DEF paymentVars, vars, stripeVars
  <2>2. TopupsOnly' /\ DeliveriesKnown'
    BY <2>1 DEF TopupsOnly, DeliveriesKnown, Rows
  <2> QED
    BY <1>1, <1>2, <2>1, <2>2
<1>4. ASSUME PaymentsNext PROVE TopupsOnly'
  <2>1. CASE ledger' = ledger
    BY <2>1 DEF TopupsOnly, Rows
  <2>2. ASSUME NEW u, NEW credits, NEW s \in Sessions, Topup(u, credits, StripeId(s))
        PROVE  TopupsOnly'
    BY <2>2, TopupAdds DEF TopupsOnly, SameTopup
  <2> QED
    BY <1>4, <2>1, <2>2, PaymentTouches
<1> QED
  BY <1>1, <1>2, <1>3, <1>4, DeliveriesStep, PaymentTouches

\* With nothing charged and nothing given back, the balances are the topups.
LEMMA BalancesArePaid ==
  ASSUME PaymentsInv
  PROVE  PaymentsTypeOK /\ CreditsArePaid /\ AckedIsCredited
<1> USE DEF PaymentsInv
<1>1. PaymentsTypeOK
  BY DEF PaymentsTypeOK, IInv, PaidInv, ReportsAreTrue, DeliveriesKnown
<1>2. ASSUME NEW u \in Users
      PROVE  balance[u] = SumCredits({StripeId(s) : s \in {x \in Sessions : Credited(x) /\
                                                            ledger[StripeId(x)].user = u}})
  <2> DEFINE topups == {id \in RowsOf(u) : ledger[id].kind = "topup"}
             paid == {StripeId(s) : s \in {x \in Sessions : Credited(x) /\
                                            ledger[StripeId(x)].user = u}}
  <2>1. topups = paid
    BY DEF TopupsOnly, RowsOf, Credited
  <2>2. /\ {id \in RowsOf(u) : ledger[id].kind = "charge"} = {}
        /\ {id \in RowsOf(u) : ledger[id].kind = "refund"} = {}
    BY DEF TopupsOnly, RowsOf
  <2>3. Credits("charge", u) = 0 /\ Credits("refund", u) = 0
    BY <2>2, SumOfNothing DEF Credits, SumCredits
  <2>4. Credits("topup", u) = SumCredits(topups)
    BY DEF Credits
  <2>5. SumCredits(topups) \in Nat
    <3>1. topups \in SUBSET Rows
      BY DEF RowsOf
    <3> HIDE DEF topups
    <3>2. Summable(ledger, topups)
      BY <3>1, LedgerSummable DEF IInv, RowsOfSomebody
    <3> QED
      BY <3>2, TableSumType, SumOverLedger
  <2>6. balance[u] = Credits("topup", u) + Credits("refund", u) - Credits("charge", u)
    BY DEF Conservation
  <2> HIDE DEF topups, paid
  <2>7. balance[u] = SumCredits(topups)
    BY <2>3, <2>4, <2>5, <2>6
  <2> QED
    BY <2>1, <2>7 DEF paid
<1>3. CreditsArePaid /\ AckedIsCredited
  BY <1>2 DEF CreditsArePaid, PaidInv
<1> QED
  BY <1>1, <1>3

(***************************************************************************)
(* Both together: a behaviour is of one part, and the other is idle.       *)
(***************************************************************************)

MoneyInv ==
  /\ part \in {"requests", "payments"}
  /\ part = "requests" => RequestInv
  /\ part = "payments" => RequestsIdle /\ PaymentsInv

\* In either part the requests are as their invariant says.
LEMMA RequestsHold == MoneyInv => RequestInv
  BY IdleKeeps DEF MoneyInv, PaymentsInv

\* A step that is not of the requests leaves their invariant alone.
LEMMA RequestsStandStill ==
  ASSUME RequestInv, UNCHANGED vars, UNCHANGED requestVars
  PROVE  RequestInv'
<1> USE DEF RequestInv
<1>1. UNCHANGED <<ledger, calls, handler, worker, req, lease>> /\ Charges' = Charges
  BY DEF vars, requestVars, Charges, Rows
<1>2. IInv'
  BY IInvStep
<1>3. RequestTypeOK'
  BY <1>1, <1>2 DEF RequestTypeOK, IInv
<1>4. \A q \in Clients : /\ HandedOver(q)' /\ LocalsAgree(q)'
                        /\ FaultsCounted(q)' /\ RowKnown(q)'
  BY <1>1 DEF HandedOver, LocalsAgree, FaultsCounted, RowKnown, Charged, RefundDue, Finished
<1>5. OneChargePerId' /\ CallsKnown' /\ LeaseKnown' /\ WorkUnderLease'
  BY <1>1 DEF OneChargePerId, CallsKnown, LeaseKnown, WorkUnderLease, Charged
<1> QED
  BY <1>2, <1>3, <1>4, <1>5

\* Whichever part is exercised, it begins well.
LEMMA MoneyInvInit == MoneyInit => MoneyInv
<1> SUFFICES ASSUME MoneyInit PROVE MoneyInv
  OBVIOUS
<1>1. CASE part = "requests" /\ RequestInit
  <2>1. IInv /\ RequestsIdle /\ calls = {}
    BY <1>1, FundedLedger DEF RequestInit
  <2> QED
    BY <1>1, <2>1, IdleKeeps DEF MoneyInv
<1>2. CASE part = "payments" /\ RequestsIdle /\ PaymentsInit
  BY <1>2, PaymentsInvInit DEF MoneyInv
<1> QED
  BY <1>1, <1>2 DEF MoneyInit

\* Whichever part is exercised, it steps and the other rests.
LEMMA MoneyInvStep == MoneyInv /\ [MoneyNext]_<<part, allVars, stripeVars>> => MoneyInv'
<1> SUFFICES ASSUME MoneyInv, [MoneyNext]_<<part, allVars, stripeVars>> PROVE MoneyInv'
  OBVIOUS
<1>1. CASE part = "requests" /\ RequestNext /\ part' = part
  BY <1>1, RequestStep DEF MoneyInv
<1>2. CASE part = "payments" /\ PaymentsNext /\ part' = part /\ UNCHANGED requestVars
  <2>1. PaymentsInv'
    BY <1>2, PaymentsInvStep DEF MoneyInv
  <2>2. RequestsIdle'
    BY <1>2 DEF MoneyInv, RequestsIdle, requestVars
  <2> QED
    BY <1>2, <2>1, <2>2 DEF MoneyInv
<1>3. CASE UNCHANGED <<part, allVars, stripeVars>>
  <2>1. UNCHANGED part /\ UNCHANGED vars /\ UNCHANGED requestVars /\ UNCHANGED stripeVars
    BY <1>3 DEF allVars
  <2>2. RequestInv => RequestInv'
    BY <2>1, RequestsStandStill
  <2>3. PaymentsInv => PaymentsInv'
    BY <2>1, PaymentsInvStep DEF paymentVars
  <2>4. RequestsIdle => RequestsIdle'
    BY <2>1 DEF RequestsIdle, requestVars
  <2> QED
    BY <2>1, <2>2, <2>3, <2>4 DEF MoneyInv
<1> QED
  BY <1>1, <1>2, <1>3 DEF MoneyNext

\* The invariant of the sum holds always.
LEMMA MoneyInvariant == MoneySpec => []MoneyInv
  BY MoneyInvInit, MoneyInvStep, PTL DEF MoneySpec

\* Whatever reads or writes a profile for a billed request, the handler or the
\* worker it started, does so under the profile's lease; and a lease that is
\* held has a thread at work that will give it back (profile_store.py
\* acquire_profile, web_server.py guarded_worker and the teardown functions).
THEOREM LeasesAreOwned == MoneySpec => []LeaseIsOwned
<1>1. ASSUME RequestInv PROVE LeaseIsOwned
  <2> USE <1>1 DEF RequestInv
  <2>1. ASSUME NEW u \in Users, lease[u] # Nobody PROVE ~Finished(lease[u])
    <3>1. lease[u] \in Clients
      BY <2>1 DEF RequestTypeOK
    <3>2. \/ worker[lease[u]] \in AtWork
          \/ ~req[lease[u]].transferred /\ handler[lease[u]] \in UnderLease
      BY <3>1 DEF LeaseKnown
    <3> QED
      BY <3>1, <3>2 DEF Finished, AtWork, UnderLease, HandedOver
  <2> QED
    BY <2>1 DEF LeaseIsOwned, LeaseHasOwner
<1>2. MoneyInv => LeaseIsOwned
  BY <1>1, RequestsHold
<1> QED
  BY <1>2, MoneyInvariant, PTL

\* A charge that the request itself settled has paid for an answer: neither
\* an error nor an exception is ever kept as paid (web_server.py
\* run_v1_request and its worker, service.py settle).
THEOREM OnlyAnswersArePaid == MoneySpec => []PaidIsAnswered
<1>1. ASSUME RequestInv PROVE PaidIsAnswered
  BY <1>1 DEF RequestInv, PaidIsAnswered, RowKnown, LocalsAgree
<1>2. MoneyInv => PaidIsAnswered
  BY <1>1, RequestsHold
<1> QED
  BY <1>2, MoneyInvariant, PTL

\* A charge outlives its request unresolved only after two failures of that
\* request, or when the process died: the refund of the except clause has the
\* teardown behind it.
THEOREM TwoFaultsToLeak == MoneySpec => []LeakNeedsTwoFaults
<1>1. ASSUME RequestInv, NEW q \in Clients, Finished(q), Charged(q),
             ledger[req[q].id].state = "pending", "dead" \notin {handler[q], worker[q]}
      PROVE  req[q].faults >= 2
  <2> USE <1>1 DEF RequestInv
  <2>1. ~req[q].finalized
    BY DEF RowKnown, LocalsAgree
  <2>2. CASE worker[q] # "none"
    BY <2>1, <2>2 DEF FaultsCounted, Finished
  <2>3. CASE worker[q] = "none"
    <3>1. ~req[q].workerOwned
      BY <2>3 DEF HandedOver
    <3> QED
      BY <2>1, <2>3, <3>1 DEF FaultsCounted, Finished, RefundDue, LocalsAgree, BeforeCharge
  <2> QED
    BY <2>2, <2>3
<1>2. MoneyInv => LeakNeedsTwoFaults
  BY <1>1, RequestsHold DEF LeakNeedsTwoFaults
<1> QED
  BY <1>2, MoneyInvariant, PTL

\* What the billing event of a stream told the client stays true of the ledger
\* from then on.
THEOREM ReportsAreFinal == MoneySpec => []ReportedIsFinal
<1>1. ASSUME RequestInv PROVE ReportedIsFinal
  <2> SUFFICES ASSUME NEW q \in Clients, req[q].reported \in {"settled", "refunded"}
               PROVE  ledger[req[q].id].state = req[q].reported
    BY DEF ReportedIsFinal
  <2>1. req[q].reported = req[q].receipt /\ req[q].finalized
    BY <1>1 DEF RequestInv, LocalsAgree
  <2> QED
    BY <1>1, <2>1 DEF RequestInv, RowKnown, Charged
<1>2. MoneyInv => ReportedIsFinal
  BY <1>1, RequestsHold
<1> QED
  BY <1>2, MoneyInvariant, PTL

\* Under payments a balance is the sum of the sessions that were paid, each
\* once, and of corrections by hand, whatever Stripe repeats, reorders or does
\* not hear; and what was acknowledged is in the ledger.
THEOREM CreditsWerePaidFor == MoneySpec => []CreditsArePaidFor
<1>1. MoneyInv => CreditsArePaidFor
  BY BalancesArePaid DEF MoneyInv, CreditsArePaidFor
<1> QED
  BY <1>1, MoneyInvariant, PTL
=============================================================================
