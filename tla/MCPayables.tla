----------------------------- MODULE MCPayables -----------------------------
(* A small instance of the payables for TLC. *)
EXTENDS Payables, TLC

CONSTANTS r1, r2, r3, r4, r5, u1, u2, b1, b2,
          MaxArrived   \* bound: requests once a connection was cut or two
                       \* overlapped and a bank line took part

(* Two users who together may approve every level. *)
Roles == (u1 :> "CHIEF_ACCOUNTANT") @@ (u2 :> "MANAGER")

(* Bills, payments and bank lines of 20 mills. *)
TwoLines == (b1 :> 20) @@ (b2 :> 20)
TwoCents == {20}

RequestSymmetry == Permutations(Req)

(* History: whether two requests were ever in flight together, and whether a
   bank line was ever reconciled. *)
VARIABLES overlapped, banked

Calm == ~overlapped /\ \A r \in Req : tx[r].pc # "cut"
Arrived == {r \in Req : tx[r].pc # "idle"}

HistoryInit == Init /\ overlapped = FALSE /\ banked = FALSE
HistoryNext ==
    /\ Next
    /\ overlapped' = (overlapped \/ Cardinality(InFlight') > 1)
    /\ banked' = (banked \/ \E r \in InFlight' : tx'[r].op = "RECONCILE")
    /\ ~Calm' /\ banked' => Cardinality(Arrived') <= MaxArrived
HistorySpec == HistoryInit /\ [][HistoryNext]_<<vars, overlapped, banked>>

(* Requests that run one at a time pay no supplier invoice beyond its total,
   however the payment route and bank lines are mixed and wherever a
   connection is cut. *)
SerialPayments == ~overlapped => NoOverpayment

(* Such requests never bring a rejected invoice back into the approval flow,
   nor send an approved one back to a lower level. *)
SerialDecisions == [][~overlapped' => StaysRejected /\ StaysDecided]_vars

(* The inductive invariant behind SerialPayments and SerialDecisions: a
   request that runs alone finds the rows as it read them. *)
SerialInv ==
    /\ ApprovalInv
    /\ IsFiniteSet(InFlight) /\ IsFiniteSet(Payments)
    /\ overlapped \in BOOLEAN
    /\ ~overlapped => /\ \A p, q \in InFlight : p = q
                      /\ \A r \in Req : Current(tx[r])
                      /\ NoOverpayment
=============================================================================
