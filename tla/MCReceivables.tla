--------------------------- MODULE MCReceivables ---------------------------
(* Small instances of the receivables for TLC. *)
EXTENDS Receivables, TLC

CONSTANTS r1, r2, r3, r4, b1, b2

FourRequests == {r1, r2, r3, r4}

(* A receipt of the total is 20 mills; 14 rounds down to 10, 4 to nothing. *)
TwoCents == {20}
Receipts == {4, 14, 20}
TwoLines == (b1 :> 20) @@ (b2 :> -20)

RequestSymmetry == Permutations(Req)

(* History: whether two requests were ever in flight together. *)
VARIABLE overlapped

HistoryInit == Init /\ overlapped = FALSE
HistoryNext == Next /\ overlapped' = (overlapped \/ Cardinality(InFlight') > 1)
HistorySpec == HistoryInit /\ [][HistoryNext]_<<vars, overlapped>>

NoneCut == \A r \in Req : tx[r].pc # "cut"
Calm == ~overlapped /\ NoneCut

(* Receipts that come one at a time never collect more than the total, even
   when a connection is cut between a receipt and its status. *)
SerialNoOverpayment == ~overlapped => NoOverpayment

(* Unless its connection was cut, a receipt that is to be posted commits with
   its journal note or not at all, whatever times out in between.  Undisturbed
   requests also keep the status of an invoice in step with its receipts, over
   any sequence of partial receipts and bank lines, and use a bank line once:
   it is matched to one invoice, or ignored and settles none. *)
ReceiptsSettle ==
    /\ \A r \in Payments : payment[r].auto /\ tx[r].pc # "cut" => r \in note
    /\ Calm => StatusTracksReceipts /\ LineSettlesOnce

AutoPosted == \A r \in Payments : payment[r].auto /\ tx[r].pc # "cut" => r \in note

(* The inductive invariant behind SerialNoOverpayment and ReceiptsSettle. *)
SettlementInv ==
    /\ CoverInv
    /\ overlapped \in BOOLEAN
    /\ AutoPosted
    /\ ~overlapped => /\ \A p, q \in InFlight : p = q
                      /\ \A r \in Req : Current(tx[r])
                      /\ NoOverpayment
    /\ Calm => StatusTracksReceipts /\ LineSettlesOnce
=============================================================================
