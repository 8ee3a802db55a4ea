------------------------------ MODULE MCMoney ------------------------------
(* What moves credits over the web: billed requests, and payments that      *)
(* Stripe reports.  Both work on the tables of BillingLedger; a behaviour   *)
(* exercises the one that `part` names, on accounts that are open and       *)
(* funded, or from an empty ledger, and the other has nothing to do.        *)
EXTENDS BilledRequest, StripePayments, TLC

CONSTANTS
  u1, u2, q1, q2, r1, r2, t1, t2

VARIABLE part

ASSUME PaymentsAssumption == SessionsAssumption /\ LostAssumption /\ FitAssumption

MCOneUser == {u1}
MCUsers == {u1, u2}
MCClients == {q1, q2}
MCBaseIds == {r1, r2, t1, t2}
MCReserved == {t1, t2}
MCOpening == u1 :> t1
MCOpenings == u1 :> t1 @@ u2 :> t2
MCSessions == {t1}
MCTopupIds == {<<t1, "plain">>}

\* The requests of a behaviour that makes none.
AnyRequests == \A q \in Clients : req[q].user = u1 /\ req[q].id = req[q1].id /\ ~req[q].stream

MoneyInit ==
  \/ part = "requests" /\ RequestInit /\ NoPayments
  \/ part = "payments" /\ RequestsIdle /\ AnyRequests /\ PaymentsInit

MoneyNext ==
  \/ part = "requests" /\ RequestNext /\ UNCHANGED <<part, stripeVars>>
  \/ part = "payments" /\ PaymentsNext /\ UNCHANGED <<part, requestVars>>

\* Nothing is enabled in the part that has nothing to do, so that its fairness
\* asks for nothing.
MoneySpec ==
  MoneyInit /\ [][MoneyNext]_<<part, allVars, stripeVars>> /\ Fairness /\ PaymentsFairness

Symmetry == Permutations(Clients) \cup Permutations({r1, r2})

-----------------------------------------------------------------------------
\* Whatever works for a request works under the user's lease, and a lease that
\* is held has somebody at work who will give it back (BilledRequest).
LeaseIsOwned == RequestTypeOK /\ WorkUnderLease /\ LeaseHasOwner

\* Credits come from payments that were made, each once, and from corrections
\* by hand; and Stripe stops repeating an event only when the payment is in the
\* ledger (StripePayments).
CreditsArePaidFor ==
  part = "payments" => PaymentsTypeOK /\ CreditsArePaid /\ AckedIsCredited
=============================================================================
