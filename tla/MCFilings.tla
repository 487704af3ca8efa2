----------------------------- MODULE MCFilings -----------------------------
(* A small instance of the filings for TLC. *)
EXTENDS Filings, TLC

CONSTANTS r1, r2, r3, r4, u1, u2, n1, i1, e1, e2

(* Somebody who left, and somebody hired later whose data blocks an export. *)
Staff == (e1 :> [hired |-> 0, active |-> FALSE, valid |-> TRUE])
         @@ (e2 :> [hired |-> 2, active |-> TRUE, valid |-> FALSE])

RequestSymmetry == Permutations(Req) \cup Permutations(Uit)

(* History: whether two requests were ever in flight together. *)
VARIABLE overlapped

HistoryInit == Init /\ overlapped = FALSE
HistoryNext == Next /\ overlapped' = (overlapped \/ Cardinality(InFlight') > 1)
HistorySpec == HistoryInit /\ [][HistoryNext]_<<vars, overlapped>>

(* Requests that come one at a time move transports along their life and leave
   a delivered Revisal export alone. *)
SerialFilingsFinal == [][overlapped' \/ FilingsFinal]_<<vars, overlapped>>

(* Requests that come one at a time leave status and upload index in
   agreement, also when a transaction ends while ANAF is being asked. *)
SerialStatusOfUpload == ~overlapped => StatusOfUpload

(* The signed file kept for an invoice is one ANAF issued for an upload of this
   invoice, and ANAF has accepted the invoice; when requests come one at a time
   it is the upload that was accepted. *)
ArchivedIsAccepted ==
    /\ ArchivedIsOwn
    /\ ~overlapped => \A i \in Invoice : efactura[i].signed # None =>
                          upload[efactura[i].signed].verdict = "ACCEPTED"

(* The inductive invariant behind the serial properties. *)
SerialFilingInv ==
    /\ FilingInv
    /\ overlapped \in BOOLEAN
    /\ ~overlapped =>
         /\ \A p, q \in InFlight : p = q
         /\ \A r \in Req : CurrentFiling(r) /\ CurrentEfactura(r)
         /\ \A i \in Invoice : Agree(efactura[i])
         /\ \A s \in Shipments :
              shipment[s].status \in {"IN_TRANSIT", "DELIVERED"} => shipment[s].departed
=============================================================================
