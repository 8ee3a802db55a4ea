-------------------------- MODULE MCBillingLedger --------------------------
(* Instances of BillingLedger for TLC. *)
EXTENDS BillingLedger, TLC

CONSTANTS u1, u2, c1, c2, r1, r2, t1

MCOneUser == {u1}
MCUsers == {u1, u2}
MCClients == {c1, c2}
MCIds == {r1, r2, t1}
MCReserved == {t1}

\* A generated topup id, and one that an administrator chose and that is the
\* name of a charge or of the refund row of a charge.
MCGeneratedId == {<<t1, "plain">>}
MCAnyId == {<<t1, "plain">>, <<r1, "plain">>, <<r1, "refund">>}

Symmetry == Permutations(Users) \cup Permutations(Clients)
DaySymmetry == Permutations(Users) \cup Permutations(Clients)
                 \cup Permutations(BaseIds \ ReservedIds)
=============================================================================
