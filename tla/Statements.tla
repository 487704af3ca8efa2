----------------------------- MODULE Statements -----------------------------
(***************************************************************************)
(* What the reports compute from the books: the financial statements, the  *)
(* dashboard and the ANAF declarations.                                    *)
(*                                                                         *)
(* The books are a set of documents.  A document stands for the rows one   *)
(* request commits together: an invoice or payment or payroll run and,     *)
(* with autoPost, its journal note (Ledger, Receivables, Payables and      *)
(* MonthEnd model how they are written).  Amounts are whole cents, the     *)
(* Decimal(18, 2) the columns hold, on which round2 has no effect.         *)
(***************************************************************************)
EXTENDS Integers, FiniteSets, FiniteSetsExt, SequencesExt, TLC

(* Client invoices, supplier invoices, receipts, supplier payments, bank
   matches, payroll runs (base: gross, tax: CAS, CASS and income tax, cam) and
   notes typed by hand on revenue account 707.  A receipt, match, payment or
   storno names its invoice in of; other documents have 0 there. *)
Kind == {"FISCAL", "STORNO", "PROFORMA", "SUPPLIER", "RECEIPT", "PAYMENT", "MATCH",
         "PAYROLL", "MANUAL"}

Document == [id : Nat, kind : Kind, month : Nat, base : Nat, tax : Nat, cam : Nat,
             auto : BOOLEAN, abroad : BOOLEAN, due : Nat, of : Nat]

Total(f(_), S) == SumFunction([x \in S |-> f(x)])
Of(S, kinds) == {d \in S : d.kind \in kinds}
NotNegative(x) == IF x < 0 THEN 0 ELSE x

-----------------------------------------------------------------------------
(* The journal lines of a document. *)

Account == {"4111", "5121", "4426", "401", "4427", "421", "43x", "1012", "707", "6xx"}

AccountType ==
    [a \in Account |-> CASE a \in {"4111", "5121", "4426"}       -> "ASSET"
                         [] a \in {"401", "4427", "421", "43x"} -> "LIABILITY"
                         [] a = "1012"                          -> "EQUITY"
                         [] a = "707"                           -> "REVENUE"
                         [] OTHER                               -> "EXPENSE"]

Dr(a, x) == [account |-> a, debit |-> x, credit |-> 0]
Cr(a, x) == [account |-> a, debit |-> 0, credit |-> x]

Lines(d) ==
    IF ~ d.auto \/ d.kind = "PROFORMA" THEN {}
    ELSE CASE d.kind = "FISCAL"   -> {Dr("4111", d.base + d.tax), Cr("707", d.base), Cr("4427", d.tax)}
           [] d.kind = "STORNO"   -> {Cr("4111", d.base + d.tax), Dr("707", d.base), Dr("4427", d.tax)}
           [] d.kind = "SUPPLIER" -> {Dr("6xx", d.base), Cr("401", d.base + d.tax)}
                                     \cup (IF d.tax > 0 THEN {Dr("4426", d.tax)} ELSE {})
           [] d.kind \in {"RECEIPT", "MATCH"} -> {Dr("5121", d.base), Cr("4111", d.base)}
           [] d.kind = "PAYMENT"  -> {Dr("401", d.base), Cr("5121", d.base)}
           [] d.kind = "PAYROLL"  -> {Dr("6xx", d.base + d.cam), Cr("421", d.base - d.tax),
                                      Cr("43x", d.tax + d.cam)}
           [] OTHER               -> {Dr("5121", d.base), Cr("707", d.base)}

DebitOf(S, a)  == Total(LAMBDA d : Total(LAMBDA l : l.debit, {l \in Lines(d) : l.account = a}), S)
CreditOf(S, a) == Total(LAMBDA d : Total(LAMBDA l : l.credit, {l \in Lines(d) : l.account = a}), S)

-----------------------------------------------------------------------------
(* The rows of the other tables. *)

(* A storno carries the amounts of its source with the sign changed. *)
Sign(d) == IF d.kind = "STORNO" THEN -1 ELSE 1
Net(d)  == Sign(d) * d.base
Vat(d)  == Sign(d) * d.tax
Gross(d) == Net(d) + Vat(d)

Invoices(S)  == Of(S, {"FISCAL", "STORNO", "PROFORMA"})
Purchases(S) == Of(S, {"SUPPLIER"})
Payrolls(S)  == Of(S, {"PAYROLL"})

ReceiptsOf(S, i) == {d \in Of(S, {"RECEIPT", "MATCH"}) : d.of = i.id}
Received(S, i)   == Total(LAMBDA d : d.base, ReceiptsOf(S, i))

Status(S, i) == IF i.kind = "PROFORMA"             THEN "DRAFT"
                ELSE IF ReceiptsOf(S, i) = {}      THEN "ISSUED"
                ELSE IF Received(S, i) >= Gross(i) THEN "PAID"
                ELSE "PARTIALLY_PAID"

-----------------------------------------------------------------------------
(* computeStatements: the trial balance, the profit and loss account, the
   balance sheet, the tax summary and the aging of receivables. *)

TrialBalance(S) == [a \in Account |-> [debit |-> DebitOf(S, a), credit |-> CreditOf(S, a)]]

TrialTotal(S, side) == LET rows == TrialBalance(S)
                       IN  Total(LAMBDA a : rows[a][side], Account)

(* The debit balance of the accounts of type t. *)
BalanceOf(S, t) == Total(LAMBDA a : DebitOf(S, a) - CreditOf(S, a),
                         {a \in Account : AccountType[a] = t})

(* Fault: the expenses are added to the result. *)
FaultyNetProfit(S) == BalanceOf(S, "EXPENSE") - BalanceOf(S, "REVENUE")

Revenues(S)  == -BalanceOf(S, "REVENUE")
Expenses(S)  == BalanceOf(S, "EXPENSE")
NetProfit(S) == Revenues(S) - Expenses(S)

BalanceSheet(S) == [assets |-> BalanceOf(S, "ASSET"), liabilities |-> -BalanceOf(S, "LIABILITY"),
                    equity |-> -BalanceOf(S, "EQUITY")]

(* 16% of a profit, in cents. *)
ProfitTax(profit) == (16 * NotNegative(profit) + 50) \div 100

(* The invoices that are not cancelled, drafts included, the payroll runs and
   the profit: what the company owes the state. *)
TaxSummary(S, lines) ==
    LET vat     == Total(Vat, Invoices(S))
        payroll == Total(LAMBDA d : d.tax + d.cam, Payrolls(S))
    IN  [sales |-> Total(Net, Invoices(S)), vat |-> vat, payroll |-> payroll,
         liabilities |-> vat + payroll + ProfitTax(NetProfit(lines))]

(* What is still to be received of an invoice. *)
OpenAmount(S, i) == NotNegative(Gross(i) - Received(S, i))

OpenInvoices(S) == {i \in Invoices(S) : Status(S, i) \in {"ISSUED", "PARTIALLY_PAID"}}

Bucket(days) == CASE days <= 0       -> "current"
                  [] days \in 1..30  -> "d1_30"
                  [] days \in 31..60 -> "d31_60"
                  [] days \in 61..90 -> "d61_90"
                  [] OTHER           -> "d90_plus"

Buckets == {"current", "d1_30", "d31_60", "d61_90", "d90_plus"}

Aging(S, today) ==
    [b \in Buckets |-> Total(LAMBDA i : OpenAmount(S, i),
                             {i \in OpenInvoices(S) : Bucket(today - i.due) = b})]

-----------------------------------------------------------------------------
(* The dashboard: open documents, cash, the forecast and the alerts. *)

CashPosition(lines) == DebitOf(lines, "5121") - CreditOf(lines, "5121")

OpenReceivables(S) == {i \in OpenInvoices(S) : OpenAmount(S, i) > 0}

(* Supplier payments name the supplier invoice they pay in of. *)
OpenPayable(S, p) == NotNegative(Gross(p) - Total(LAMBDA d : d.base,
                                                  {d \in Of(S, {"PAYMENT"}) : d.of = p.id}))

OpenPayables(S) == {p \in Purchases(S) : OpenPayable(S, p) > 0}

NetOpenPosition(S) == Total(LAMBDA i : OpenAmount(S, i), OpenReceivables(S))
                      - Total(LAMBDA p : OpenPayable(S, p), OpenPayables(S))

(* The balance expected once everything due within days is settled. *)
Forecast(lines, S, today, days) ==
    CashPosition(lines)
    + Total(LAMBDA i : OpenAmount(S, i), {i \in OpenReceivables(S) : i.due <= today + days})
    - Total(LAMBDA p : OpenPayable(S, p), {p \in OpenPayables(S) : p.due <= today + days})

(* What an open document is to the dashboard. *)
Item(d, source, open, today) ==
    [doc |-> d.id, source |-> source, amount |-> open, late |-> today - d.due]

OpenItems(S, today) ==
    {Item(i, "RECEIVABLE", OpenAmount(S, i), today) : i \in OpenReceivables(S)}
    \cup {Item(p, "PAYABLE", OpenPayable(S, p), today) : p \in OpenPayables(S)}

SeverityRank(x) ==
    IF x.late > (IF x.source = "RECEIVABLE" THEN 30 ELSE 15) THEN 3
    ELSE IF x.late > 0 \/ x.late >= -2 THEN 2
    ELSE 1

(* The most severe first, then the one that is due first, then the largest. *)
SortAlerts(x, y) ==
    LET Key(a) == <<-SeverityRank(a), -a.late, -a.amount, a.doc>>
    IN  \E n \in 1..4 : Key(x)[n] < Key(y)[n] /\ \A k \in 1..(n - 1) : Key(x)[k] = Key(y)[k]

First(s, n) == SubSeq(s, 1, IF Len(s) < n THEN Len(s) ELSE n)

(* computeAlerts: documents overdue by more than the days of grace, or due soon. *)
Alerts(S, today, o) ==
    First(SetToSortSeq({x \in OpenItems(S, today) :
                           /\ x.amount >= o.minAmount
                           /\ x.late > o.grace \/ x.late \in (-o.dueSoon)..0}, SortAlerts),
          o.maxAlerts)

(* What is owed to suppliers: by age, and as the purchases dashboard sums it. *)
PayablesAging(S, today) ==
    [b \in Buckets |-> Total(LAMBDA p : OpenPayable(S, p),
                             {p \in OpenPayables(S) : Bucket(today - p.due) = b})]

PurchasesDashboard(S, today) ==
    LET Sum(P) == Total(LAMBDA p : OpenPayable(S, p), P)
    IN  [open     |-> Sum(OpenPayables(S)),
         overdue  |-> Sum({p \in OpenPayables(S) : p.due < today}),
         dueNext7 |-> Sum({p \in OpenPayables(S) : p.due \in today..(today + 7)})]

(* How well a bank line, whose reference quotes the number of document ref and
   whose description names the partners of the documents in named, fits an
   open document.  A hundredth of a point is a cent. *)
ScoreSuggestion(line, x) ==
    LET amount == IF line.amount < 0 THEN -line.amount ELSE line.amount
        diff == IF amount > x.amount THEN amount - x.amount ELSE x.amount - amount
    IN  NotNegative(10000 - diff)
        + (IF x.doc = line.ref THEN 4000 ELSE 0)
        + (IF x.doc \in line.named THEN 1500 ELSE 0)
        + (CASE diff <= 1 -> 3000 [] diff \in 2..500 -> 1000 [] OTHER -> 0)

(* Client invoices are suggested for money received, supplier invoices for
   money paid; among equals the one due first. *)
Suggestions(S, line, take) ==
    LET source == IF line.amount > 0 THEN "RECEIVABLE" ELSE "PAYABLE"
        Better(x, y) == \/ ScoreSuggestion(line, x) > ScoreSuggestion(line, y)
                        \/ ScoreSuggestion(line, x) = ScoreSuggestion(line, y) /\ x.late > y.late
    IN  First(SetToSortSeq({x \in OpenItems(S, 0) : x.source = source}, Better), take)

-----------------------------------------------------------------------------
(* The ANAF declarations of month m; the annual ones take all months. *)

InMonth(S, m) == {d \in S : d.month = m}

(* Math.round of an amount in cents to whole lei. *)
Lei(cents) == (cents + 50) \div 100

UnsignedLei(cents) == NotNegative(Lei(cents))

Taxed(S, m) == {i \in Invoices(InMonth(S, m)) : Status(S, i) # "DRAFT"}

(* Whether the journal of the month touches account a. *)
Moved(S, a) == \E d \in S : \E l \in Lines(d) : l.account = a

(* Fault: deducted VAT is read on the wrong side. *)
FaultyVatDeductible(S, m) == CreditOf(InMonth(S, m), "4426") - DebitOf(InMonth(S, m), "4426")

(* The journal decides once it has a line on the account, and only then. *)
VatCollected(S, m) ==
    IF Moved(InMonth(S, m), "4427")
    THEN CreditOf(InMonth(S, m), "4427") - DebitOf(InMonth(S, m), "4427")
    ELSE Total(Vat, Taxed(S, m))

VatDeductible(S, m) ==
    IF Moved(InMonth(S, m), "4426")
    THEN DebitOf(InMonth(S, m), "4426") - CreditOf(InMonth(S, m), "4426")
    ELSE Total(Vat, Purchases(InMonth(S, m)))

D300(S, m) == Lei(VatCollected(S, m) - VatDeductible(S, m))

D394(S, m) == LET is == Invoices(InMonth(S, m))
              IN  [vat |-> Lei(Total(Vat, is)), total |-> Lei(Total(Gross, is)),
                   invoices |-> Cardinality(is)]

D112(S, m) == LET runs == Payrolls(InMonth(S, m))
              IN  [owed  |-> UnsignedLei(Total(LAMBDA d : d.tax + d.cam, runs)),
                   gross |-> UnsignedLei(Total(LAMBDA d : d.base, runs))]

(* Revenue is the credit turnover and expense the debit turnover. *)
D101(S) == LET profit == CreditOf(S, "707") - DebitOf(S, "6xx")
           IN  [profit |-> Lei(profit), tax |-> Lei(ProfitTax(profit))]

(* Micro-enterprise tax at 1% and 3% of the invoiced total. *)
D100(S, m) == LET base == Total(Gross, Invoices(InMonth(S, m)))
              IN  [base |-> Lei(base), micro1 |-> Lei((base + 50) \div 100),
                   micro3 |-> Lei((3 * base + 50) \div 100)]

D205(S) == Lei(Total(LAMBDA d : d.base, Of(S, {"PAYMENT"})))

(* Acquisitions from and deliveries to partners with a foreign tax number. *)
D392(S)    == LET p == {d \in Purchases(S) : d.abroad}
              IN  [count |-> Cardinality(p), value |-> Lei(Total(Gross, p)),
                   under |-> Total(Gross, p) < 1000000]
D393(S, m) == LET i == {d \in Invoices(InMonth(S, m)) : d.abroad}
              IN  [count |-> Cardinality(i), value |-> Lei(Total(Gross, i)), vat |-> Lei(Total(Vat, i))]

(* The SAF-T file: the general ledger, the sales and the purchases. *)
GeneralLedgerEntries(in) ==
    LET noted == {d \in in : Lines(d) # {}}
    IN  [entries |-> Cardinality(noted),
         debit   |-> TrialTotal(noted, "debit"), credit |-> TrialTotal(noted, "credit")]
SalesInvoices(in) == [entries |-> Cardinality(Invoices(in)), tax |-> Total(Vat, Invoices(in)),
                      gross |-> Total(Gross, Invoices(in))]
PurchaseInvoices(in) == [entries |-> Cardinality(Purchases(in)), tax |-> Total(Vat, Purchases(in)),
                         gross |-> Total(Gross, Purchases(in))]

D406(S, m) ==
    LET in == InMonth(S, m)
    IN  [ledger |-> GeneralLedgerEntries(in), sales |-> SalesInvoices(in),
         purchases |-> PurchaseInvoices(in)]
=============================================================================
