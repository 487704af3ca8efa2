--------------------------- MODULE MCClientScreen ---------------------------
(* A small instance of the browser client for TLC. *)
EXTENDS ClientScreen

CONSTANTS o1, o2, u1, u2, l1, l2, c1, c2, v1, v2

FormOfOp == (o1 :> "createInvoice") @@ (o2 :> "collectInvoice")

(* What can go wrong in one history: Spend(l, o, s, r, e, c, v) lost messages,
   outages, logouts, reloads, expired tokens, company switches and visits. *)
Spend(l, o, s, r, e, c, v) ==
    [losses |-> l, outages |-> o, sessions |-> s, reloads |-> r,
     expiries |-> e, switches |-> c, visits |-> v]

Budgets == {Spend(2, 1, 0, 1, 0, 0, 0), Spend(0, 1, 1, 0, 0, 0, 0),
            Spend(0, 1, 0, 0, 1, 1, 0), Spend(1, 0, 0, 0, 1, 0, 1),
            Spend(0, 1, 0, 0, 0, 2, 1), Spend(1, 0, 0, 0, 0, 1, 2)}
=============================================================================
