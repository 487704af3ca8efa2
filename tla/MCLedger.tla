------------------------------ MODULE MCLedger ------------------------------
(* Small instances of the ledger for TLC. *)
EXTENDS Ledger, TLC

CONSTANTS r1, r2, r3, r4, q1

FourRequests == {r1, r2, r3, r4}

(* A plain note, and one whose totals agree only before the columns round. *)
PlainNote  == <<D(10), C(10)>>
RoundedOff == <<D(4), D(4), C(10)>>
TypedNotes == {PlainNote, RoundedOff}

(* The note of a client invoice of amounts with a fraction of a cent. *)
OneReceivableNote == {InvoiceLines(16, 4)}

(* Every note a receipt, a payment, a client invoice or its storno posts
   balances as stored, up to four cents in steps of a mill: what the theorem
   on posted notes assumes of the automatic postings. *)
ASSUME PostingsBalance ==
    \A a, b \in 0..40 :
        \A note \in {PaymentLines(a), InvoiceLines(a, b), InvoiceStornoLines(a, b)} :
            Balanced(Stored(note))

(* A supplier invoice's note need not: purchases.ts rounds the total alone. *)
ASSUME SupplierPostingDrifts == ~ Balanced(Stored(SupplierInvoiceLines(14, 4)))

RequestSymmetry == Permutations(Req)

(* History: whether two requests were ever in flight together. *)
VARIABLE overlapped

HistoryInit == Init /\ overlapped = FALSE
HistoryNext == Next /\ overlapped' = (overlapped \/ Cardinality(InFlight') > 1)
HistorySpec == HistoryInit /\ [][HistoryNext]_<<vars, overlapped>>

NoneCut == \A r \in Req : tx[r].pc # "cut"

(* A closed period holds only CLOSED notes when requests run one at a time
   and keep their connection (the draft count and the sweep of the close);
   an open period holds no CLOSED note however they interleave, since close
   and reopen exclude each other through the period row both write first. *)
PeriodsSettle ==
    NoneCut => /\ OpenPeriodUnsealed
               /\ ~overlapped => ClosedPeriodSettled

(* The inductive invariant behind PeriodsSettle. *)
PeriodInv ==
    /\ RegisterInv
    /\ IsFiniteSet(InFlight) /\ overlapped \in BOOLEAN
    /\ \A r \in Req : PeriodRead(tx[r])
    /\ PeriodsExclusive
    /\ ~overlapped => /\ \A p, q \in InFlight : p = q
                      /\ \A r \in Req : Current(tx[r])
    /\ PeriodsSettle
=============================================================================
