--------------------------- MODULE StripePayments ---------------------------
(***************************************************************************)
(* Buying credits: v1_checkout_create and webhooks_stripe of web_server.py *)
(* with billing/stripe_gateway.py, over the ledger of BillingLedger.       *)
(*                                                                         *)
(* Stripe is external.  It reports what happens to a checkout session as   *)
(* events, each delivered at least once, in any order, to any of several   *)
(* workers at a time, until one answers with a 2xx status.  The ledger row *)
(* that credits a session is named stripe:<session id>.                    *)
(***************************************************************************)
EXTENDS BillingLedger

CONSTANTS
  Sessions,   \* checkout sessions; their ids are reserved request ids
  Workers,    \* requests to the webhook that may run at once
  MaxLost     \* bound: answers that do not reach Stripe

SessionsAssumption == Sessions \subseteq ReservedIds
LostAssumption == MaxLost \in Nat

VARIABLES
  session,    \* what Stripe knows of each session
  events,     \* events Stripe has to report until they are acknowledged
  working,    \* deliveries the webhook is handling
  acked,      \* events a worker acknowledged
  manual,     \* sessions an administrator credited by hand
  lost        \* answers lost so far

stripeVars == <<session, events, working, acked, manual, lost>>
paymentVars == <<vars, stripeVars>>

StripeId(s) == <<s, "plain">>

\* The bounds of the ledger's model let payments in.
FitAssumption == {StripeId(s) : s \in Sessions} \subseteq TopupIds /\ 0 \in Limits

Completed == "checkout.session.completed"
Succeeded == "checkout.session.async_payment_succeeded"
Failed == "checkout.session.async_payment_failed"
NoSession == [state |-> "none"]
SessionRecord ==
  {NoSession} \cup [state: {"open", "unpaid", "paid", "failed"}, user: Users,
                    credits: TopupAmounts]
Event == [session: Sessions, type: {Completed, Succeeded, Failed},
          paid: BOOLEAN]
Delivery == [worker: Workers, event: Event,
             answer: {"none", "ok", "unknown_user", "conflict"}]

NoPayments ==
  /\ session = [s \in Sessions |-> NoSession]
  /\ events = {}
  /\ working = {}
  /\ acked = {}
  /\ manual = {}
  /\ lost = 0

PaymentsInit == Init /\ NoPayments

-----------------------------------------------------------------------------
(* Checkout and the customer.                                              *)

\* v1_checkout_create: an authenticated user; amount and credits go into the
\* session, and nothing is written here.
CreateCheckout(u, s, credits) ==
  /\ status[u] = "active"
  /\ session[s] = NoSession
  /\ session' = [session EXCEPT ![s] = [state |-> "open", user |-> u,
                                        credits |-> credits]]
  /\ UNCHANGED <<vars, events, working, acked, manual, lost>>

\* A session that something else opened on the same Stripe account may name
\* anybody.
ForeignCheckout(u, s, credits) ==
  /\ status[u] = "absent"
  /\ session[s] = NoSession
  /\ session' = [session EXCEPT ![s] = [state |-> "open", user |-> u,
                                        credits |-> credits]]
  /\ UNCHANGED <<vars, events, working, acked, manual, lost>>

TellStripe(s, from, to, type) ==
  /\ session[s].state = from
  /\ session' = [session EXCEPT ![s].state = to]
  /\ events' = events \cup {[session |-> s, type |-> type, paid |-> to = "paid"]}
  /\ UNCHANGED <<vars, working, acked, manual, lost>>

\* Paid at once, or by a method that confirms later or fails.
Customer(s) ==
  \/ TellStripe(s, "open", "paid", Completed)
  \/ TellStripe(s, "open", "unpaid", Completed)
  \/ TellStripe(s, "unpaid", "paid", Succeeded)
  \/ TellStripe(s, "unpaid", "failed", Failed)

-----------------------------------------------------------------------------
(* The webhook.                                                            *)
(* An operator marked "faulty" is the one below it with a plausible bug.   *)

\* Stripe may deliver an event again although it was acknowledged.
Deliver(w, e) ==
  /\ e \in events
  /\ \A d \in working : d.worker # w
  /\ working' = working \cup {[worker |-> w, event |-> e, answer |-> "none"]}
  /\ UNCHANGED <<vars, session, events, acked, manual, lost>>

AnyCompleted(e) == e.type \in {Completed, Succeeded}              \* faulty
OnlyCompleted(e) == e.type = Completed /\ e.paid                  \* faulty
Parsed(e) == e.type \in {Completed, Succeeded} /\ e.paid

Answered(d, answer) ==
  working' = (working \ {d}) \cup {[d EXCEPT !.answer = answer]}

SameTopup(row, u, credits) == row.kind = "topup" /\ row.user = u /\ row.amount = credits

\* A worker: verify, look at the type, parse, then topup() in a transaction.
Handle(d) ==
  LET e == d.event
      s == session[e.session]
      id == StripeId(e.session)
  IN
  /\ d \in working /\ d.answer = "none"
  /\ \/ ~Parsed(e) /\ Answered(d, "ok") /\ UNCHANGED vars
     \/ /\ Parsed(e) /\ status[s.user] = "absent"
        /\ Answered(d, "unknown_user") /\ UNCHANGED vars
     \/ /\ Parsed(e)
        /\ Topup(s.user, s.credits, id)
        /\ Answered(d, "ok")
     \/ /\ Parsed(e) /\ id \in Rows
        /\ Answered(d, IF SameTopup(ledger[id], s.user, s.credits)
                         THEN "ok" ELSE "conflict")
        /\ UNCHANGED vars
  /\ UNCHANGED <<session, events, acked, manual, lost>>

\* The answer reaches Stripe; only a 2xx is an acknowledgement.
Ack(answer) == answer = "ok"

Reply(d) ==
  /\ d \in working /\ d.answer # "none"
  /\ working' = working \ {d}
  /\ acked' = IF Ack(d.answer) THEN acked \cup {d.event} ELSE acked
  /\ UNCHANGED <<vars, session, events, manual, lost>>

\* The worker dies, or its answer is lost: Stripe sees a failure.
Lose(d) ==
  /\ lost < MaxLost
  /\ d \in working
  /\ working' = working \ {d}
  /\ lost' = lost + 1
  /\ UNCHANGED <<vars, session, events, acked, manual>>

\* /admin/topup with the session's id, as a correction by hand.
CreditByHand(s, u, credits) ==
  /\ Topup(u, credits, StripeId(s))
  /\ manual' = manual \cup {s}
  /\ UNCHANGED <<session, events, working, acked, lost>>

AccountStep ==
  /\ \E u \in Users : \/ CreateUser(u, 0)
                      \/ \E st \in {"active", "disabled"} : SetUserStatus(u, st)
  /\ UNCHANGED stripeVars

PaymentsNext ==
  \/ AccountStep
  \/ \E u \in Users, s \in Sessions, c \in TopupAmounts :
       CreateCheckout(u, s, c) \/ ForeignCheckout(u, s, c) \/ CreditByHand(s, u, c)
  \/ \E s \in Sessions : Customer(s)
  \/ \E w \in Workers, e \in events : Deliver(w, e)
  \/ \E d \in working : Handle(d) \/ Reply(d) \/ Lose(d)

\* Stripe repeats an unacknowledged event; a worker that has one finishes.
Redeliver(e) == e \notin acked /\ \E w \in Workers : Deliver(w, e)
Answer(w) == \E d \in working : d.worker = w /\ (Handle(d) \/ Reply(d))
PaymentsFairness ==
  /\ \A e \in Event : SF_paymentVars(Redeliver(e))
  /\ \A w \in Workers : WF_paymentVars(Answer(w))

PaymentsSpec == PaymentsInit /\ [][PaymentsNext]_paymentVars /\ PaymentsFairness

-----------------------------------------------------------------------------

PaymentsTypeOK ==
  /\ TypeOK
  /\ session \in [Sessions -> SessionRecord]
  /\ events \subseteq Event
  /\ working \subseteq Delivery
  /\ \A d, e \in working : d.worker = e.worker => d = e
  /\ acked \subseteq events
  /\ manual \subseteq Sessions
  /\ lost \in 0..MaxLost

Credited(s) == StripeId(s) \in Rows

\* What was credited without a correction by hand was paid, and went to the
\* user of the session in the amount of the session.
CreditedWasPaid ==
  \A s \in Sessions :
    Credited(s) /\ s \notin manual =>
      /\ session[s].state = "paid"
      /\ SameTopup(ledger[StripeId(s)], session[s].user, session[s].credits)

\* Credits come from payments: what a user owns is the sum of the sessions
\* that user paid, each once, and of corrections by hand.  Neither an event
\* delivered twice, to two workers at once or after a lost answer, nor a
\* session that reports its completion before it is paid adds to it.
CreditsArePaid ==
  /\ \A u \in Users :
       balance[u] =
         SumCredits({StripeId(s) : s \in {x \in Sessions : Credited(x) /\
                                           ledger[StripeId(x)].user = u}})
  /\ CreditedWasPaid

\* Stripe stops repeating an event only when its payment is in the ledger.
AckedIsCredited == \A e \in acked : e.paid => Credited(e.session)

\* Whoever paid is credited, whichever answers are lost, and however late the
\* account is opened.
PaidGetsCredited ==
  \A s \in Sessions :
    session[s].state = "paid" /\ status[session[s].user] # "absent" ~> Credited(s)
=============================================================================
