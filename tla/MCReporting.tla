---------------------------- MODULE MCReporting ----------------------------
(* Small instances of the reports and notifications for TLC. *)
EXTENDS Reporting

CONSTANTS a1, a2

TwoReaders == {a1, a2}
ReaderSymmetry == Permutations(Readers)

Paper(kind, base, tax) == [id |-> 0, kind |-> kind, month |-> 1, base |-> base, tax |-> tax,
                           cam |-> 0, auto |-> TRUE, abroad |-> FALSE, due |-> 0, of |-> 0]

(* For the caches: an invoice, whose handler clears them all. *)
CachePapers == {Paper("FISCAL", 900, 100)}

(* For the amounts: every kind, at home or abroad, posted or not. *)
LedgerPapers ==
    {[Paper("FISCAL", 930, 140) EXCEPT !.abroad = TRUE],
     [Paper("FISCAL", 500, 95) EXCEPT !.auto = FALSE, !.due = 40],
     Paper("PROFORMA", 300, 57), [Paper("STORNO", 930, 140) EXCEPT !.of = 1],
     [Paper("SUPPLIER", 460, 90) EXCEPT !.due = 20, !.abroad = TRUE], [Paper("RECEIPT", 1070, 0) EXCEPT !.of = 1],
     [Paper("MATCH", 500, 0) EXCEPT !.of = 1], [Paper("PAYMENT", 550, 0) EXCEPT !.of = 1, !.month = 2],
     [Paper("PAYROLL", 4000, 1650) EXCEPT !.cam = 90], [Paper("MANUAL", 700, 0) EXCEPT !.month = 2]}

(* History: the documents a computation was under way for between the moment
   their handler cleared the caches and their commit. *)
VARIABLE raced

HistoryInit == Init /\ raced = {}
HistoryNext == /\ Next
               /\ raced' = raced \cup {w \in Writers : tx'[w].pc = "answered" /\ Computing' # {}}
HistorySpec == HistoryInit /\ [][HistoryNext]_<<vars, raced>>
HistoryFairSpec == HistorySpec /\ WF_vars(TickWorker) /\ WF_vars(Dispatch)

Answered == {r \in Readers : tx[r].pc = "answered"}

Shown(r) == Shows(tx[r].op, tx[r].value)

(* How old a report may be.  The dashboard is computed from statements that
   may themselves come from the cache. *)
Horizon(op) == CASE op = "DASHBOARD" -> 2 * (Ttl + Limit)
                 [] op = "SNAPSHOT"  -> Ttl + 2 * Limit
                 [] OTHER            -> Ttl + Limit

(* However readers, writers, clears and failing computations interleave, a
   report misses a document only for so long after its commit: the lifetime
   of the entries it was made from and the limit of the transactions that
   computed them. *)
BoundedStaleness ==
    \A r \in Answered, w \in Committed :
        w \notin Shown(r) => tx[r].at - since[w] < Horizon(tx[r].op)

(* A report asked for after a document was committed shows it, provided no
   computation ran between the clearing of the caches and the commit; a bank
   match may be missing from the invoice list, which its handler does not
   clear. *)
CalmReportsFresh ==
    \A r \in Answered : \A w \in tx[r].known \ raced :
        ~ (tx[r].op = "LIST" /\ "list" \notin Clears(book[w].kind)) => w \in Shown(r)

-----------------------------------------------------------------------------
(* The inductive invariant behind both. *)

ReadOf(k) == CASE k = "list" -> "LIST" [] k = "statements" -> "STATEMENTS" [] OTHER -> "DASHBOARD"
KeyOf(op) == IF op = "LIST" THEN "list" ELSE "statements"

(* A document that is missing where k is needed was committed at t or later,
   and either a computation ran between its clearing and its commit, or its
   handler leaves k alone. *)
Raced(k, w)   == w \in raced \/ k \notin Clears(book[w].kind)
Sees(k, S, t) == \A w \in Committed \ S : since[w] >= t /\ Raced(k, w)

(* While a document waits for its commit undisturbed, nothing is computed and
   the entries it cleared stay empty. *)
Quiet(w) ==
    tx[w].pc = "answered" /\ w \notin raced =>
        /\ Computing = {}
        /\ \A k \in Clears(tx[w].doc.kind) : cache[k] = None

(* No document missing from a report of r was committed before this. *)
Floor(r) == CASE tx[r].op = "DASHBOARD" -> clock - Ttl - 2 * Limit + 1
              [] tx[r].op = "SNAPSHOT"  -> tx[r].start - Ttl - Limit + 1
              [] OTHER                  -> clock - Limit

EntryFloor(k) == IF k = "dashboard" THEN cache[k].expires - 2 * (Ttl + Limit) + 1
                 ELSE cache[k].expires - Ttl - Limit

(* What a request that computes, or waits for others to, has read so far. *)
Reads(r) ==
    LET t == tx[r]
        v == t.value
    IN  /\ "statements" \in t.own =>
             /\ t.pc \in {"open", "rows"} => Sees("statements", v.lines, t.start)
             /\ t.pc = "rows" /\ Composed(r) => Sees("statements", v.open, t.start)
        /\ "statements" \notin t.own /\ Composed(r) =>
             /\ t.pc = "open" /\ t.waits = None =>
                  Sees("statements", v.lines \cap v.rows, t.start - Ttl - Limit + 1)
             /\ t.pc = "wait" /\ t.waits.key = "statements" => Sees("statements", v.open, t.start)
        /\ t.pc = "resume" => Sees(KeyOf(t.op), Shown(r), Floor(r))

(* What a request that has its report may miss. *)
Has(r) ==
    LET t == tx[r]
        missing == Committed \ Shown(r)
    IN  /\ t.pc = "store" => \A w \in missing : since[w] >= Floor(r)
        /\ t.pc = "answered" => \A w \in missing : t.at - since[w] < Horizon(t.op)
        /\ t.pc \in {"store", "answered"} => \A w \in t.known \ Shown(r) : Raced(KeyOf(t.op), w)

Kept(k) ==
    cache[k] # None =>
        /\ cache[k].expires <= clock + Ttl
        /\ Sees(k, Shows(ReadOf(k), cache[k].value), EntryFloor(k))

ReadInv ==
    /\ TypeOK /\ raced \subseteq Writers /\ Owned
    /\ \A w \in Writers : WriterFormed(w) /\ Quiet(w)
    /\ \A r \in Readers : ReaderFormed(r) /\ WaitFormed(r) /\ Reads(r) /\ Has(r)
    /\ \A k \in Key : Kept(k)

-----------------------------------------------------------------------------
(* The days on which the books are looked at. *)
Days == {20, 45}

Ages(aging, buckets) == Total(LAMBDA b : aging[b], buckets)

(* The trial balance balances and the balance sheet differs from zero by
   exactly the profit. *)
BooksBalance(S) ==
    LET sheet == BalanceSheet(S)
    IN  /\ TrialTotal(S, "debit") = TrialTotal(S, "credit")
        /\ sheet.assets - sheet.liabilities - sheet.equity = NetProfit(S)

(* The agings split what is open by age: overdue is what is not current, and
   nothing is due twice. *)
AgingsAddUp(S, today) ==
    LET aging     == PayablesAging(S, today)
        purchases == PurchasesDashboard(S, today)
    IN  /\ Ages(aging, Buckets) = purchases.open
        /\ Ages(aging, Buckets \ {"current"}) = purchases.overdue
        /\ purchases.overdue + purchases.dueNext7 <= purchases.open
        /\ NetOpenPosition(S) = Ages(Aging(S, today), Buckets) - purchases.open

(* Unless something is unposted or reversed, what is open and its aging are
   accounts 4111 and 401. *)
OpenItemsAgree(S, today) ==
    LET receivable == DebitOf(S, "4111") - CreditOf(S, "4111")
        payable    == CreditOf(S, "401") - DebitOf(S, "401")
    IN  /\ AgingsAddUp(S, today)
        /\ (\A d \in S : d.auto /\ d.kind # "STORNO") =>
              /\ Ages(Aging(S, today), Buckets) = receivable
              /\ PurchasesDashboard(S, today).open = payable
              /\ NetOpenPosition(S) = receivable - payable
              /\ Forecast(S, S, today, 90) = CashPosition(S) + NetOpenPosition(S)

AlertOptions == [dueSoon |-> 7, grace |-> 0, minAmount |-> 0, maxAlerts |-> 2]

(* Without days of grace an overdue document is left out of the alerts only
   for alerts that are as severe. *)
OverdueAlerted(S, today) ==
    LET shown == Alerts(S, today, AlertOptions)
    IN  \A x \in OpenItems(S, today) : x.late > 0 =>
          \/ x \in ToSet(shown)
          \/ /\ Len(shown) = AlertOptions.maxAlerts
             /\ \A y \in ToSet(shown) : SeverityRank(y) >= SeverityRank(x)

(* The document whose open amount a bank line pays and whose number it quotes
   is suggested first, whichever other partners the line names. *)
QuotedFirst(S) ==
    \A x \in OpenItems(S, 0) :
        LET line == [amount |-> IF x.source = "RECEIVABLE" THEN x.amount ELSE -x.amount,
                     ref |-> x.doc, named |-> Writers \ {x.doc}]
        IN  Head(Suggestions(S, line, 1)) = x

(* Whatever documents are committed when they are computed, statements,
   dashboards, aging, alerts and suggestions agree with the journal and with
   each other. *)
ReportsAgree ==
    LET S == Books(Committed)
    IN  /\ BooksBalance(S) /\ QuotedFirst(S)
        /\ \A today \in Days : OpenItemsAgree(S, today) /\ OverdueAlerted(S, today)

Posted(S) == \A d \in S : d.auto
Kinds(S)  == {d.kind : d \in S}

Months(S) == {d.month : d \in S}

(* SAF-T, D394 and D100 of a month say the same, D300 is the VAT of its
   invoices once all are posted and none is a proforma, D112 is account 43x,
   and what D393 declares is a part of D394 unless something was reversed. *)
MonthAgrees(S, m) ==
    LET saft == D406(S, m) d394 == D394(S, m)
    IN  /\ saft.ledger.debit = saft.ledger.credit
        /\ d394.total = Lei(saft.sales.gross) /\ d394.invoices = saft.sales.entries
        /\ D100(S, m).base = d394.total
        /\ "PROFORMA" \notin Kinds(S) /\ Posted(S) =>
              D300(S, m) = Lei(saft.sales.tax - saft.purchases.tax)
        /\ Posted(S) => D112(S, m).owed = Lei(CreditOf(InMonth(S, m), "43x"))
        /\ "STORNO" \notin Kinds(S) => D393(S, m).value <= d394.total

(* The profit tax return agrees with the profit unless something was reversed,
   the withholding return and the tax summary with their accounts, and D392 is
   a part of the purchases. *)
YearAgrees(S) ==
    /\ "STORNO" \notin Kinds(S) => D101(S).profit = Lei(NetProfit(S))
    /\ Posted(S) => D205(S) = Lei(DebitOf(S, "401"))
    /\ Posted(S) => TaxSummary(S, S).payroll = CreditOf(S, "43x")
    /\ "PROFORMA" \notin Kinds(S) /\ Posted(S) =>
          TaxSummary(S, S).sales = Revenues(S) - Total(LAMBDA d : d.base, Of(S, {"MANUAL"}))
    /\ D392(S).value <= Lei(PurchaseInvoices(S).gross)

(* The declarations agree with each other and with the journal on committed
   books, month by month and over the year, and the SAF-T files of the months
   have the turnover of the trial balance between them. *)
DeclarationsAgree ==
    LET S == Books(Committed)
    IN  /\ \A m \in Months(S) : MonthAgrees(S, m)
        /\ Total(LAMBDA m : D406(S, m).ledger.debit, Months(S)) = TrialTotal(S, "debit")
        /\ YearAgrees(S)

(* Events leave the queue in the order in which they were announced, none is
   dispatched twice, and none disappears unless the queue was full or the
   process stopped. *)
Pending == sent \o (IF sending = None THEN <<>> ELSE <<sending>>) \o queue
EventsInOrder ==
    /\ \A i, j \in DOMAIN Pending : i # j => Pending[i] # Pending[j]
    /\ \A w \in Committed : Announces(book[w].kind) =>
          w \in lost \/ \E i \in DOMAIN Pending : Pending[i] = w

(* The inductive invariant behind EventsInOrder: an event is queued by the
   answer of its request. *)
MailInv ==
    /\ EventsInOrder
    /\ \A i \in DOMAIN Pending : tx[Pending[i]].pc \notin {"idle", "write"}
    /\ \A w \in Writers : tx[w].pc = "answered" /\ Announces(tx[w].doc.kind) =>
          w \in lost \/ \E i \in DOMAIN Pending : Pending[i] = w

(* Every committed document that its handler announces is notified in the end,
   even after dispatches that fail, or was lost to a full queue or a restart. *)
Announced ==
    \A w \in Writers :
        w \in Committed /\ Announces(book[w].kind) ~> w \in lost \/ \E i \in DOMAIN sent : sent[i] = w
=============================================================================
