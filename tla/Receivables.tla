---------------------------- MODULE Receivables ----------------------------
(***************************************************************************)
(* Client invoices, the receipts that settle them and the bank statement   *)
(* lines that are reconciled with them.                                    *)
(*                                                                         *)
(* The transaction discipline is that of Ledger: one READ COMMITTED        *)
(* transaction per request, one step per awaited statement, writes visible *)
(* at commit, an update waits for the transaction that holds the row.      *)
(* Invoices and receipts are identified by the request that inserts them.  *)
(* Amounts are mills, as in DoubleEntry.                                   *)
(***************************************************************************)
EXTENDS DoubleEntry, Integers, FiniteSets

CONSTANTS
    Req,          \* requests
    BankLine,     \* bank statement lines
    LineAmount,   \* the amount of each bank line; negative when paid out
    Total,        \* totals a user may invoice
    Amount,       \* amounts a user may type for a receipt
    Concurrency,  \* bound: requests in flight at once
    Disconnects,  \* may clients drop the connection before the answer?
    None

Op == {"INVOICE", "STORNO", "PAY", "RECONCILE", "IGNORE", "IMPORT"}
Settling == {"PAY", "RECONCILE"}

Running  == {"source", "create", "line", "read", "pay", "status", "post", "match",
             "audit", "answered"}
Finished == {"committed", "cut", "rejected", "rolledback"}

Kind == {"FISCAL", "PROFORMA", "STORNO"}

Invoice == [kind : Kind, st : {"DRAFT", "ISSUED", "PARTIALLY_PAID", "PAID"},
            total : Int, of : Req \cup {None}]
Payment == [inv : Req, amount : Nat, line : BankLine \cup {None}, auto : BOOLEAN]

ASSUME ReceivablesConstants ==
    /\ None \notin Req \cup BankLine /\ None \notin Invoice /\ None \notin Payment
    /\ LineAmount \in [BankLine -> Int \ {0}]
    /\ Total \subseteq Nat \ {0} /\ Total # {}
    /\ Amount \subseteq Nat \ {0}
    /\ Concurrency \in Nat \ {0}
    /\ Disconnects \in BOOLEAN

VARIABLES
    invoice,  \* committed Invoice rows
    payment,  \* committed Payment rows
    note,     \* requests whose journal note is committed
    line,     \* committed status of the bank lines ("ABSENT": not imported)
    tx        \* the request transactions

vars == <<invoice, payment, note, line, tx>>

Transaction == [op : Op, pc : {"idle"} \cup Running \cup Finished, kind : Kind,
                total : Int, inv : Req \cup {None}, amount : Nat,
                line : BankLine \cup {None}, auto : BOOLEAN, paid : Nat]

TypeOK ==
    /\ invoice \in [Req -> Invoice \cup {None}]
    /\ payment \in [Req -> Payment \cup {None}]
    /\ note \in SUBSET Req
    /\ line \in [BankLine -> {"ABSENT", "UNMATCHED", "MATCHED", "IGNORED"}]
    /\ tx \in [Req -> Transaction]

-----------------------------------------------------------------------------
Invoices == {i \in Req : invoice[i] # None}
Payments == {r \in Req : payment[r] # None}
InFlight == {r \in Req : tx[r].pc \in Running}

(* The receipts of invoice i, added up. *)
Paid(i) == SumFunctionOnSet([r \in Payments |-> payment[r].amount],
                            {r \in Payments : payment[r].inv = i})

(* The uncommitted writes of r. *)
HasInvoice(r) == tx[r].op \in {"INVOICE", "STORNO"} /\ tx[r].pc \in {"post", "audit", "answered"}
(* Fault: the receipt is inserted after the status is updated. *)
FaultyHasPayment(r) == tx[r].op \in Settling /\ tx[r].pc \in {"match", "audit", "answered"}

HasPayment(r) == tx[r].op \in Settling
                 /\ tx[r].pc \in {"status", "post", "match", "audit", "answered"}
HasStatus(r)  == tx[r].op \in Settling /\ tx[r].pc \in {"post", "match", "audit", "answered"}
HasNote(r)    == /\ tx[r].auto
                 /\ tx[r].pc \in {"match", "audit", "answered"}
HasLine(r)    == /\ tx[r].op \in {"RECONCILE", "IGNORE", "IMPORT"}
                 /\ tx[r].pc \in {"audit", "answered"}

-----------------------------------------------------------------------------
Blank(label) == [op |-> "INVOICE", pc |-> label, kind |-> "FISCAL", total |-> 0,
                 inv |-> None, amount |-> 0, line |-> None, auto |-> FALSE, paid |-> 0]

Init ==
    /\ invoice = [i \in Req |-> None]
    /\ payment = [r \in Req |-> None]
    /\ note = {}
    /\ line = [b \in BankLine |-> "ABSENT"]
    /\ tx = [r \in Req |-> Blank("idle")]

Quiet == UNCHANGED <<invoice, payment, note, line>>
Goto(r, label) == tx' = [tx EXCEPT ![r].pc = label] /\ Quiet
End(r, label)  == tx' = [tx EXCEPT ![r] = Blank(label)]

(* An HttpError before the first write. *)
Reject(r) == End(r, "rejected") /\ Quiet

Start(r, t) ==
    /\ tx[r].pc = "idle"
    /\ Cardinality(InFlight) < Concurrency
    /\ tx' = [tx EXCEPT ![r] = t]
    /\ Quiet

(* A PROFORMA is never posted. *)
CreateInvoice(r) ==
    \E k \in {"FISCAL", "PROFORMA"}, m \in Total, auto \in BOOLEAN :
        Start(r, [Blank("create") EXCEPT !.kind = k, !.total = Round2(m),
                                         !.auto = auto /\ k # "PROFORMA"])

CreateStorno(r) ==
    \E i \in Invoices, auto \in BOOLEAN :
        Start(r, [Blank("source") EXCEPT !.op = "STORNO", !.kind = "STORNO",
                                         !.inv = i, !.auto = auto])

PayInvoice(r) ==
    \E i \in Invoices, m \in Amount, auto \in BOOLEAN :
        Start(r, [Blank("read") EXCEPT !.op = "PAY", !.inv = i,
                                       !.amount = Round2(m), !.auto = auto])

ReconcileLine(r) ==
    \E b \in BankLine, i \in Invoices, auto \in BOOLEAN :
        Start(r, [Blank("line") EXCEPT !.op = "RECONCILE", !.line = b, !.inv = i, !.auto = auto])

IgnoreLine(r) ==
    \E b \in BankLine : Start(r, [Blank("line") EXCEPT !.op = "IGNORE", !.line = b])

ImportStatement(r) ==
    \E b \in BankLine : /\ line[b] = "ABSENT"
                        /\ \A q \in Req : tx[q].op = "IMPORT" => tx[q].line # b
                        /\ Start(r, [Blank("match") EXCEPT !.op = "IMPORT", !.line = b])

-----------------------------------------------------------------------------
(* The statements of the handlers. *)

ReadStornoSource(r) ==
    /\ tx[r].pc = "source"
    /\ \/ /\ invoice[tx[r].inv].kind = "FISCAL"
          /\ tx' = [tx EXCEPT ![r].pc = "create", ![r].total = -invoice[tx[r].inv].total]
          /\ Quiet
       \/ Reject(r)

(* Creation stops before the insert when the period is closed or the partner
   or an account is missing, and at it when the number is taken. *)
InsertInvoice(r) ==
    /\ tx[r].pc = "create"
    /\ Goto(r, IF tx[r].auto THEN "post" ELSE "audit") \/ Reject(r)

ReadLine(r) ==
    /\ tx[r].pc = "line"
    /\ \/ /\ line[tx[r].line] = "UNMATCHED"
          /\ tx[r].op = "RECONCILE" => LineAmount[tx[r].line] > 0
          /\ IF tx[r].op = "IGNORE" THEN Goto(r, "match")
             ELSE /\ tx' = [tx EXCEPT ![r].pc = "read",
                                      ![r].amount = LineAmount[tx[r].line]]
                  /\ Quiet
       \/ Reject(r)

(* Fault: the amount is not compared with the open balance. *)
FaultyOpenAmount(i) == invoice[i].total

OpenAmount(i) == IF invoice[i].total > Paid(i) THEN invoice[i].total - Paid(i) ELSE 0

(* The receipt route checks the kind and the status of the invoice; the
   reconciliation route only its balance.  Both stop here when the period is
   closed or an account is missing. *)
ReadInvoice(r) ==
    /\ tx[r].pc = "read"
    /\ LET e == invoice[tx[r].inv]
       IN \/ /\ tx[r].op = "PAY" => e.kind = "FISCAL" /\ e.st \in {"ISSUED", "PARTIALLY_PAID"}
             /\ tx[r].amount <= OpenAmount(tx[r].inv)
             /\ tx' = [tx EXCEPT ![r].pc = "pay", ![r].paid = Paid(tx[r].inv)]
             /\ Quiet
          \/ Reject(r)

InsertPayment(r) == tx[r].pc = "pay" /\ Goto(r, "status")

AfterPosting(r) == IF tx[r].op = "RECONCILE" THEN "match" ELSE "audit"

(* Fault: the update of the status excludes the inserts of receipts too. *)
ExclusiveUpdateStatus(r) ==
    /\ tx[r].pc = "status"
    /\ \A q \in Req \ {r} : ~(HasPayment(q) /\ tx[q].inv = tx[r].inv)
    /\ Goto(r, IF tx[r].auto THEN "post" ELSE AfterPosting(r))

UpdateStatus(r) ==
    /\ tx[r].pc = "status"
    /\ \A q \in Req \ {r} : ~(HasStatus(q) /\ tx[q].inv = tx[r].inv)
    /\ Goto(r, IF tx[r].auto THEN "post" ELSE AfterPosting(r))

(* nextJournalEntryNumber and the insert of the note.  A number read while
   another note is uncommitted is that note's number too: the insert waits
   for the other transaction and fails with P2002 when it commits. *)
PostNote(r) ==
    /\ tx[r].pc = "post"
    /\ \/ (\A q \in Req \ {r} : ~HasNote(q)) /\ Goto(r, AfterPosting(r))
       \/ (\E q \in Req \ {r} : HasNote(q)) /\ End(r, "rolledback") /\ Quiet

UpdateLine(r) ==
    /\ tx[r].pc = "match"
    /\ \A q \in Req \ {r} : ~(HasLine(q) /\ tx[q].line = tx[r].line)
    /\ Goto(r, "audit")

(* writeAudit, then res.json. *)
Answer(r) == tx[r].pc = "audit" /\ Goto(r, "answered")

-----------------------------------------------------------------------------
(* Fault: the new status forgets what was paid before. *)
FaultyNextStatus(r) ==
    IF tx[r].amount >= invoice[tx[r].inv].total THEN "PAID" ELSE "PARTIALLY_PAID"

(* From what was read before the update waited for the row. *)
NextStatus(r) ==
    IF tx[r].paid + tx[r].amount >= invoice[tx[r].inv].total THEN "PAID" ELSE "PARTIALLY_PAID"

NewInvoice(r) == [kind |-> tx[r].kind, st |-> IF tx[r].kind = "PROFORMA" THEN "DRAFT" ELSE "ISSUED",
                  total |-> tx[r].total,
                  of |-> IF tx[r].op = "STORNO" THEN tx[r].inv ELSE None]

NewPayment(r) == [inv |-> tx[r].inv, amount |-> tx[r].amount, line |-> tx[r].line,
                  auto |-> tx[r].auto]

(* COMMIT of whatever r has written so far. *)
Persist(r) ==
    /\ invoice' = [i \in Req |->
                     IF i = r /\ HasInvoice(r) THEN NewInvoice(r)
                     ELSE IF HasStatus(r) /\ i = tx[r].inv
                     THEN [invoice[i] EXCEPT !.st = NextStatus(r)]
                     ELSE invoice[i]]
    /\ payment' = IF HasPayment(r) THEN [payment EXCEPT ![r] = NewPayment(r)] ELSE payment
    /\ note' = IF HasNote(r) THEN note \cup {r} ELSE note
    /\ line' = IF HasLine(r)
               THEN [line EXCEPT ![tx[r].line] = CASE tx[r].op = "IMPORT" -> "UNMATCHED"
                                                   [] tx[r].op = "IGNORE" -> "IGNORED"
                                                   [] OTHER -> "MATCHED"]
               ELSE line

Commit(r) == tx[r].pc = "answered" /\ Persist(r) /\ End(r, "committed")

(* The connection closes before the answer: see Ledger. *)
Disconnect(r) ==
    /\ Disconnects
    /\ r \in InFlight /\ tx[r].pc # "answered"
    /\ Persist(r)
    /\ End(r, "cut")

Timeout(r) == r \in InFlight /\ End(r, "rolledback") /\ Quiet

-----------------------------------------------------------------------------
Arrive(r) == \/ CreateInvoice(r) \/ CreateStorno(r) \/ PayInvoice(r)
             \/ ReconcileLine(r) \/ IgnoreLine(r) \/ ImportStatement(r)

Advance(r) == \/ ReadStornoSource(r) \/ InsertInvoice(r) \/ ReadLine(r) \/ ReadInvoice(r)
              \/ InsertPayment(r) \/ UpdateStatus(r) \/ PostNote(r) \/ UpdateLine(r)
              \/ Answer(r) \/ Commit(r)

Fail(r) == Disconnect(r) \/ Timeout(r)

(* Every request has been served. *)
Quiescent == (\A r \in Req : tx[r].pc \in Finished) /\ UNCHANGED vars

Next == (\E r \in Req : Arrive(r) \/ Advance(r) \/ Fail(r)) \/ Quiescent

Spec == Init /\ [][Next]_vars

-----------------------------------------------------------------------------
(* Properties. *)

(* An invoice marked PAID is covered by committed receipts: the status and
   the receipt it counts commit together, even when the connection is cut
   between them, and the receipts read before are never taken back. *)
PaidIsCovered == \A i \in Invoices : invoice[i].st = "PAID" => Paid(i) >= invoice[i].total

(* No invoice collects more than its total. *)
NoOverpayment == \A i \in Invoices : invoice[i].kind = "FISCAL" => Paid(i) <= invoice[i].total

(* The status of an invoice says how much of it is paid. *)
StatusTracksReceipts ==
    \A i \in Invoices :
        /\ Paid(i) > 0 => invoice[i].st \in {"PARTIALLY_PAID", "PAID"}
        /\ invoice[i].st = "PARTIALLY_PAID" => Paid(i) < invoice[i].total

(* A bank line settles one invoice at most, and none when it is ignored. *)
LineSettlesOnce ==
    /\ \A r, q \in Payments : payment[r].line # None /\ payment[r].line = payment[q].line => r = q
    /\ \A r \in Payments : payment[r].line # None => line[payment[r].line] = "MATCHED"

(* What the handler of r has checked, from the guards it has passed.  A request
   that still runs has committed nothing. *)
WellFormed(r, t) ==
    /\ t.pc \in {"idle"} \cup Running => invoice[r] = None /\ payment[r] = None
    /\ t.op \in Settling /\ t.pc \in Running => t.inv \in Invoices
    /\ t.pc \in {"read", "pay", "status"} => t.op \in Settling
    /\ t.pc = "source" => t.op = "STORNO" /\ t.inv \in Invoices
    /\ t.pc = "create" => t.op \in {"INVOICE", "STORNO"}
    /\ t.pc = "line" => t.op \in {"RECONCILE", "IGNORE"}
    /\ t.pc = "post" => t.op \in {"INVOICE", "STORNO"} \cup Settling
    /\ t.pc = "match" => t.op \in {"RECONCILE", "IGNORE", "IMPORT"}
    /\ t.op = "PAY" => t.line = None
    /\ t.op \in {"RECONCILE", "IGNORE", "IMPORT"} => t.line \in BankLine
    /\ t.op = "STORNO" => t.kind = "STORNO"
    /\ t.kind # "STORNO" => t.total \in Nat
    /\ t.pc \in Finished => t.op = "INVOICE"

HasRead(t) == t.op \in Settling /\ t.pc \in Running \ {"line", "read"}

(* The receipts counted before the insert are still there at the commit. *)
Informed(t) == HasRead(t) => t.paid <= Paid(t.inv)

(* What a request has read is still so, as long as it runs alone. *)
Current(t) ==
    /\ HasRead(t) => t.paid = Paid(t.inv) /\ t.amount <= OpenAmount(t.inv)
    /\ t.op \in {"RECONCILE", "IGNORE"} /\ t.pc \in Running \ {"line"}
         => line[t.line] = "UNMATCHED"
    /\ t.op = "IMPORT" /\ t.pc \in Running => line[t.line] = "ABSENT"

(* The inductive invariant behind PaidIsCovered. *)
CoverInv ==
    /\ TypeOK
    /\ IsFiniteSet(Payments) /\ IsFiniteSet(InFlight)
    /\ \A p \in Payments : payment[p].inv \in Invoices
    /\ \A r \in Req : WellFormed(r, tx[r]) /\ Informed(tx[r])
    /\ PaidIsCovered

(* Requests never wait for each other in a circle: invoice row, journal number
   and bank line are always taken in that order, so while any request is in
   flight some request can run its next statement. *)
NoStandstill == InFlight # {} => \E r \in Req : ENABLED Advance(r)
=============================================================================
