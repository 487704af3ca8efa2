---------------------------- MODULE DoubleEntry ----------------------------
(***************************************************************************)
(* The arithmetic of journal notes: what a handler may type or compute,    *)
(* what validateDoubleEntry accepts, and what the database keeps.          *)
(*                                                                         *)
(* Amounts are natural numbers of mills (tenths of a cent): the request    *)
(* schemas put no limit on decimals, while every money column is           *)
(* Decimal(18, 2), so a value is rounded once more when it is stored.      *)
(***************************************************************************)
EXTENDS Naturals, Sequences, Functions

Line == [debit : Nat, credit : Nat]

D(m) == [debit |-> m, credit |-> 0]
C(m) == [debit |-> 0, credit |-> m]

(* round2: to whole cents, half away from zero, expressed in mills. *)
Round2(m) == 10 * ((m + 5) \div 10)

DebitTotal(lines)  == SumFunction([i \in DOMAIN lines |-> lines[i].debit])
CreditTotal(lines) == SumFunction([i \in DOMAIN lines |-> lines[i].credit])

(* The totals agree to the cent. *)
Balanced(lines) == Round2(DebitTotal(lines)) = Round2(CreditTotal(lines))

ValidateDoubleEntry(lines) ==
    /\ Len(lines) >= 2
    /\ \A i \in DOMAIN lines : lines[i].debit > 0 \/ lines[i].credit > 0
    /\ Round2(DebitTotal(lines)) > 0
    /\ Round2(CreditTotal(lines)) > 0
    /\ Balanced(lines)

(* The Decimal(18, 2) columns round each line on its own. *)
Stored(lines) == [i \in DOMAIN lines |-> [debit  |-> Round2(lines[i].debit),
                                          credit |-> Round2(lines[i].credit)]]

(* The lines of a storno note: debit and credit change sides. *)
Reversed(lines) == [i \in DOMAIN lines |-> [debit  |-> lines[i].credit,
                                            credit |-> lines[i].debit]]

-----------------------------------------------------------------------------
(* The notes the handlers post on their own, from the amounts they receive. *)

(* Receipts, supplier payments, bank reconciliation: one rounded amount on
   each side. *)
PaymentLines(a) == <<D(Round2(a)), C(Round2(a))>>

(* A client invoice rounds subtotal and VAT before it adds them. *)
InvoiceLines(subtotal, vat) ==
    <<D(Round2(Round2(subtotal) + Round2(vat))), C(Round2(subtotal)), C(Round2(vat))>>

(* Its storno posts the same three amounts on the other sides. *)
InvoiceStornoLines(subtotal, vat) == Reversed(InvoiceLines(subtotal, vat))

(* A supplier invoice rounds only the total, and has no VAT line when the
   VAT is zero. *)
SupplierInvoiceLines(subtotal, vat) ==
    LET total == Round2(subtotal + vat)
    IN  IF vat > 0 THEN <<D(subtotal), D(vat), C(total)>>
                   ELSE <<D(subtotal), C(total)>>
=============================================================================
