-------------------------- MODULE CreditAccounts ---------------------------
(***************************************************************************)
(* What agent/billing promises to its callers, without tables, clocks or   *)
(* threads: a request reserves its price at once or not at all, keeps it   *)
(* or gives it back exactly once, and every deposit counts once.           *)
(* BillingLedger implements it.                                            *)
(***************************************************************************)
EXTENDS Integers, FiniteSets

CONSTANTS
  Users,
  Ids,       \* names of reservations and deposits
  Amounts,   \* credits a reservation or a deposit may be for
  MaxHeld    \* reservations a user may have open at a time

VARIABLES
  credit,    \* what each user may still spend
  standing,  \* "absent", "active" or "disabled"
  holds,     \* every reservation ever made, by id
  deposits   \* every deposit ever made, by id

vars == <<credit, standing, holds, deposits>>

Used == DOMAIN holds \cup DOMAIN deposits
HeldBy(u) == {id \in DOMAIN holds : holds[id].user = u /\ holds[id].state = "pending"}

\* A function with one more point.
With(f, id, value) == [x \in DOMAIN f \cup {id} |-> IF x = id THEN value ELSE f[x]]

Init ==
  /\ credit = [u \in Users |-> 0]
  /\ standing = [u \in Users |-> "absent"]
  /\ holds = [id \in {} |-> 0]
  /\ deposits = [id \in {} |-> 0]

Open(u) ==
  /\ standing[u] = "absent"
  /\ standing' = [standing EXCEPT ![u] = "active"]
  /\ UNCHANGED <<credit, holds, deposits>>

SetStanding(u, s) ==
  /\ standing[u] # "absent"
  /\ standing' = [standing EXCEPT ![u] = s]
  /\ UNCHANGED <<credit, holds, deposits>>

Reserve(u, id, amount) ==
  /\ standing[u] = "active"
  /\ id \notin Used
  /\ Cardinality(HeldBy(u)) < MaxHeld
  /\ amount <= credit[u]
  /\ credit' = [credit EXCEPT ![u] = @ - amount]
  /\ holds' = With(holds, id, [user |-> u, amount |-> amount, state |-> "pending"])
  /\ UNCHANGED <<standing, deposits>>

Keep(id) ==
  /\ holds[id].state = "pending"
  /\ holds' = [holds EXCEPT ![id].state = "settled"]
  /\ UNCHANGED <<credit, standing, deposits>>

GiveBack(id) ==
  /\ holds[id].state # "refunded"
  /\ credit' = [credit EXCEPT ![holds[id].user] = @ + holds[id].amount]
  /\ holds' = [holds EXCEPT ![id].state = "refunded"]
  /\ UNCHANGED <<standing, deposits>>

Deposit(u, id, amount) ==
  /\ standing[u] # "absent"
  /\ id \notin Used
  /\ amount > 0
  /\ credit' = [credit EXCEPT ![u] = @ + amount]
  /\ deposits' = With(deposits, id, [user |-> u, amount |-> amount])
  /\ UNCHANGED <<standing, holds>>

Next ==
  \/ \E u \in Users : Open(u) \/ \E s \in {"active", "disabled"} : SetStanding(u, s)
  \/ \E u \in Users, id \in Ids, amount \in Amounts :
       Reserve(u, id, amount) \/ Deposit(u, id, amount)
  \/ \E id \in DOMAIN holds : Keep(id) \/ GiveBack(id)

Spec == Init /\ [][Next]_vars

=============================================================================
