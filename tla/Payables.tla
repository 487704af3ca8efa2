------------------------------ MODULE Payables ------------------------------
(***************************************************************************)
(* Supplier invoices: their approval level by level, the delegations that  *)
(* let somebody else approve, and the payments that settle them, from the  *)
(* payment route and from bank reconciliation.                             *)
(*                                                                         *)
(* The transaction discipline is that of Ledger.  Bills, decisions and     *)
(* payments are identified by the request that inserts them; the statement *)
(* writeAudit, the answer and COMMIT are one step, since nothing read here *)
(* depends on the audit rows.                                              *)
(***************************************************************************)
EXTENDS DoubleEntry, Integers, FiniteSets

CONSTANTS
    Req,          \* requests
    User,         \* the users of the company
    RoleOf,       \* the role of each user in the company
    BankLine,     \* imported bank lines with a negative amount
    LineAmount,   \* the absolute amount of each bank line
    Total,        \* totals of the supplier invoices
    Amount,       \* amounts a user may type for a payment
    Threshold,    \* LEVEL_4_APPROVAL_THRESHOLD_RON
    Concurrency,  \* bound: requests in flight at once
    Disconnects,  \* may clients drop the connection before the answer?
    None

Role == {"ADMIN", "CHIEF_ACCOUNTANT", "ACCOUNTANT", "MANAGER", "CASHIER", "AUDITOR"}
Level == 1 .. 4

Op == {"CREATE", "APPROVE", "REJECT", "PAY", "RECONCILE", "DELEGATE"}
Deciding == {"APPROVE", "REJECT"}
Settling == {"PAY", "RECONCILE"}

Running  == {"create", "delegate", "line", "read", "decide", "update",
             "pay", "status", "post", "match", "answer"}
Finished == {"committed", "cut", "rejected", "rolledback"}

Bill     == [st : {"RECEIVED", "PARTIALLY_PAID", "PAID"},
             appr : {"PENDING", "APPROVED", "REJECTED"},
             level : Level, required : {3, 4}, total : Nat]
Decision == [bill : Req, level : Level, action : Deciding,
             by : User, from : User \cup {None}]
Payment  == [bill : Req, amount : Nat, op : Settling, line : BankLine \cup {None}]

ASSUME PayablesConstants ==
    /\ None \notin Req \cup BankLine \cup User
    /\ None \notin Bill /\ None \notin Decision /\ None \notin Payment
    /\ User # {} /\ RoleOf \in [User -> Role]
    /\ LineAmount \in [BankLine -> Nat \ {0}]
    /\ Total \subseteq Nat \ {0} /\ Amount \subseteq Nat \ {0}
    /\ Threshold \in Nat \ {0}
    /\ Concurrency \in Nat \ {0}
    /\ Disconnects \in BOOLEAN

VARIABLES
    bill,      \* committed SupplierInvoice rows
    decision,  \* committed SupplierInvoiceApproval rows
    payment,   \* committed SupplierPayment rows
    granted,   \* committed ApprovalDelegation rows, as <<from, to>>
    line,      \* committed status of the bank lines
    tx         \* the request transactions

vars == <<bill, decision, payment, granted, line, tx>>

Transaction == [op : Op, pc : {"idle"} \cup Running \cup Finished,
                user : User, from : User \cup {None}, to : User \cup {None},
                bill : Req \cup {None}, level : Level, required : {3, 4}, total : Nat,
                amount : Nat, line : BankLine \cup {None}, auto : BOOLEAN, seen : SUBSET Req]

TypeOK ==
    /\ bill \in [Req -> Bill \cup {None}]
    /\ decision \in [Req -> Decision \cup {None}]
    /\ payment \in [Req -> Payment \cup {None}]
    /\ granted \in SUBSET (User \X User)
    /\ line \in [BankLine -> {"UNMATCHED", "MATCHED"}]
    /\ tx \in [Req -> Transaction]

-----------------------------------------------------------------------------
(* Approval rules. *)

requiredRolesByLevel ==
    <<{"ADMIN", "CHIEF_ACCOUNTANT", "ACCOUNTANT"}, {"ADMIN", "CHIEF_ACCOUNTANT", "MANAGER"},
      {"ADMIN", "CHIEF_ACCOUNTANT"}, {"ADMIN", "CHIEF_ACCOUNTANT"}>>

resolveRequiredApprovalLevel(total) == IF total >= Threshold THEN 4 ELSE 3

isRoleAllowedForLevel(u, level) == RoleOf[u] \in requiredRolesByLevel[level]

ClampLevel(n) == IF n < 1 THEN 1 ELSE IF n > 4 THEN 4 ELSE n

(* Whom user u may act for: nobody when the own role suffices, otherwise the
   user of the latest delegation that is active now.  Which of the granted
   ones that is depends on the clock, so it may be any of them or none. *)
resolveApprovalActor(u, level) ==
    IF isRoleAllowedForLevel(u, level) THEN {None}
    ELSE {f \in User : <<f, u>> \in granted /\ isRoleAllowedForLevel(f, level)}

-----------------------------------------------------------------------------
Bills    == {b \in Req : bill[b] # None}
Payments == {r \in Req : payment[r] # None}
InFlight == {r \in Req : tx[r].pc \in Running}

PaymentsOf(b) == {r \in Payments : payment[r].bill = b}

SumOf(S) == SumFunctionOnSet([r \in Payments |-> payment[r].amount], S)

Paid(b) == SumOf(PaymentsOf(b))

(* Fault: earlier payments are not taken off. *)
FaultyOpenAmount(b) == bill[b].total

OpenAmount(b) == IF bill[b].total > Paid(b) THEN bill[b].total - Paid(b) ELSE 0

(* The uncommitted writes of r. *)
HasBill(r)     == tx[r].op = "CREATE" /\ tx[r].pc \in {"post", "answer"}
HasDecision(r) == tx[r].op \in Deciding /\ tx[r].pc \in {"update", "answer"}
HasPayment(r)  == tx[r].op \in Settling /\ tx[r].pc \in {"status", "post", "match", "answer"}
HasGrant(r)    == tx[r].op = "DELEGATE" /\ tx[r].pc = "answer"
HasLine(r)     == tx[r].op = "RECONCILE" /\ tx[r].pc = "answer"
HoldsBill(r, b) ==
    /\ tx[r].bill = b
    /\ \/ tx[r].op \in Deciding /\ tx[r].pc = "answer"
       \/ tx[r].op \in Settling /\ tx[r].pc \in {"post", "match", "answer"}

-----------------------------------------------------------------------------
Blank(label) == [op |-> "CREATE", pc |-> label, user |-> CHOOSE u \in User : TRUE,
                 from |-> None, to |-> None, bill |-> None, level |-> 1, required |-> 3,
                 total |-> 0, amount |-> 0, line |-> None, auto |-> FALSE, seen |-> {}]

Init ==
    /\ bill = [b \in Req |-> None]
    /\ decision = [r \in Req |-> None]
    /\ payment = [r \in Req |-> None]
    /\ granted = {}
    /\ line = [b \in BankLine |-> "UNMATCHED"]
    /\ tx = [r \in Req |-> Blank("idle")]

Quiet == UNCHANGED <<bill, decision, payment, granted, line>>
Goto(r, label) == tx' = [tx EXCEPT ![r].pc = label] /\ Quiet
End(r, label)  == tx' = [tx EXCEPT ![r] = Blank(label)]

(* An HttpError before the first write. *)
Reject(r) == End(r, "rejected") /\ Quiet

Start(r, t) ==
    /\ tx[r].pc = "idle"
    /\ Cardinality(InFlight) < Concurrency
    /\ tx' = [tx EXCEPT ![r] = t]
    /\ Quiet

CreateBill(r) ==
    \E m \in Total, auto \in BOOLEAN :
        Start(r, [Blank("create") EXCEPT !.total = Round2(m), !.auto = auto])

(* requirePermissions(PURCHASE_APPROVE). *)
Approvers == {u \in User : RoleOf[u] \in {"ADMIN", "CHIEF_ACCOUNTANT", "ACCOUNTANT", "MANAGER"}}

ApproveBill(r) ==
    \E b \in Bills, u \in Approvers :
        Start(r, [Blank("read") EXCEPT !.op = "APPROVE", !.bill = b, !.user = u])

RejectBill(r) ==
    \E b \in Bills, u \in Approvers :
        Start(r, [Blank("read") EXCEPT !.op = "REJECT", !.bill = b, !.user = u])

Delegate(r) ==
    \E a \in Approvers, f, t \in User :
        /\ f # t
        /\ f = a \/ RoleOf[a] = "ADMIN"
        /\ Start(r, [Blank("delegate") EXCEPT !.op = "DELEGATE", !.user = a, !.from = f, !.to = t])

PayBill(r) ==
    \E b \in Bills, m \in Amount, auto \in BOOLEAN :
        Start(r, [Blank("read") EXCEPT !.op = "PAY", !.bill = b,
                                       !.amount = Round2(m), !.auto = auto])

ReconcileBill(r) ==
    \E n \in BankLine, b \in Bills, auto \in BOOLEAN :
        Start(r, [Blank("line") EXCEPT !.op = "RECONCILE", !.line = n, !.bill = b,
                                       !.amount = LineAmount[n], !.auto = auto])

-----------------------------------------------------------------------------
(* The statements of the handlers. *)

(* Creation stops before the insert when the period is closed or the
   supplier or an account is missing, and at it when the number is taken. *)
InsertBill(r) ==
    /\ tx[r].pc = "create"
    /\ Goto(r, IF tx[r].auto THEN "post" ELSE "answer") \/ Reject(r)

(* Both users are members of the company and the delegator may approve. *)
InsertDelegation(r) ==
    /\ tx[r].pc = "delegate"
    /\ IF \E l \in Level : isRoleAllowedForLevel(tx[r].from, l)
       THEN Goto(r, "answer") ELSE Reject(r)

(* Fault: the state of the approval is not looked at. *)
FaultyReadForApproval(r) ==
    /\ tx[r].pc = "read" /\ tx[r].op = "APPROVE"
    /\ LET b == bill[tx[r].bill]
       IN  tx' = [tx EXCEPT ![r].pc = "decide", ![r].level = ClampLevel(b.level),
                            ![r].required = ClampLevel(b.required)]
    /\ Quiet

ReadForApproval(r) ==
    /\ tx[r].pc = "read" /\ tx[r].op = "APPROVE"
    /\ LET b == bill[tx[r].bill]
       IN  IF b.st # "PAID" /\ b.appr = "PENDING"
           THEN /\ tx' = [tx EXCEPT ![r].pc = "decide", ![r].level = ClampLevel(b.level),
                                    ![r].required = ClampLevel(b.required)]
                /\ Quiet
           ELSE Reject(r)

ReadForRejection(r) ==
    /\ tx[r].pc = "read" /\ tx[r].op = "REJECT"
    /\ LET b == bill[tx[r].bill]
       IN  IF /\ b.st # "PAID" /\ b.appr # "REJECTED"
              /\ b.appr = "APPROVED" => PaymentsOf(tx[r].bill) = {}
           THEN tx' = [tx EXCEPT ![r].pc = "decide", ![r].level = ClampLevel(b.level)] /\ Quiet
           ELSE Reject(r)

(* resolveApprovalActor, then the insert of the decision. *)
Decide(r) ==
    /\ tx[r].pc = "decide"
    /\ \/ \E f \in resolveApprovalActor(tx[r].user, tx[r].level) :
             tx' = [tx EXCEPT ![r].pc = "update", ![r].from = f] /\ Quiet
       \/ ~isRoleAllowedForLevel(tx[r].user, tx[r].level) /\ Reject(r)

RowFree(r) == \A q \in Req \ {r} : ~HoldsBill(q, tx[r].bill)

UpdateApproval(r) == tx[r].pc = "update" /\ RowFree(r) /\ Goto(r, "answer")

ReadLine(r) ==
    /\ tx[r].pc = "line"
    /\ \/ line[tx[r].line] = "UNMATCHED" /\ Goto(r, "read")
       \/ Reject(r)

(* Fault: the payment route does not ask for the approval. *)
FaultyReadForPayment(r) ==
    /\ tx[r].pc = "read" /\ tx[r].op \in Settling
    /\ \/ /\ tx[r].op = "PAY" => bill[tx[r].bill].st # "PAID"
          /\ tx[r].amount <= OpenAmount(tx[r].bill)
          /\ tx' = [tx EXCEPT ![r].pc = "pay", ![r].seen = PaymentsOf(tx[r].bill)] /\ Quiet
       \/ Reject(r)

(* The payment route asks for a status and the approval, reconciliation for
   the open balance only; both may also miss an open period or an account. *)
ReadForPayment(r) ==
    /\ tx[r].pc = "read" /\ tx[r].op \in Settling
    /\ \/ /\ tx[r].op = "PAY" => bill[tx[r].bill].st # "PAID" /\ bill[tx[r].bill].appr = "APPROVED"
          /\ tx[r].amount <= OpenAmount(tx[r].bill)
          /\ tx' = [tx EXCEPT ![r].pc = "pay", ![r].seen = PaymentsOf(tx[r].bill)] /\ Quiet
       \/ Reject(r)

InsertPayment(r) == tx[r].pc = "pay" /\ Goto(r, "status")

AfterPosting(r) == IF tx[r].op = "RECONCILE" THEN "match" ELSE "answer"

UpdateStatus(r) ==
    /\ tx[r].pc = "status" /\ RowFree(r)
    /\ Goto(r, IF tx[r].auto THEN "post" ELSE AfterPosting(r))

(* The insert of the note fails when its number is taken (see Ledger). *)
PostNote(r) ==
    /\ tx[r].pc = "post"
    /\ \/ Goto(r, AfterPosting(r))
       \/ End(r, "rolledback") /\ Quiet

UpdateLine(r) ==
    /\ tx[r].pc = "match"
    /\ \A q \in Req \ {r} : ~(HasLine(q) /\ tx[q].line = tx[r].line)
    /\ Goto(r, "answer")

-----------------------------------------------------------------------------
NewBill(r) == [st |-> "RECEIVED", appr |-> "PENDING", level |-> 1,
               required |-> resolveRequiredApprovalLevel(tx[r].total), total |-> tx[r].total]

NewDecision(r) == [bill |-> tx[r].bill, level |-> tx[r].level, action |-> tx[r].op,
                   by |-> tx[r].user, from |-> tx[r].from]

NewPayment(r) == [bill |-> tx[r].bill, amount |-> tx[r].amount, op |-> tx[r].op,
                  line |-> tx[r].line]

(* From the payments that were read, before the update waited for the row. *)
NextStatus(r) ==
    IF SumOf(tx[r].seen) + tx[r].amount >= bill[tx[r].bill].total THEN "PAID" ELSE "PARTIALLY_PAID"

(* Fault: the last level is skipped. *)
FaultyApproved(r, b) ==
    IF tx[r].level + 1 >= tx[r].required
    THEN [b EXCEPT !.appr = "APPROVED", !.level = tx[r].required, !.required = tx[r].required]
    ELSE [b EXCEPT !.appr = "PENDING", !.level = ClampLevel(tx[r].level + 1),
                   !.required = tx[r].required]

(* From the level that was read; PENDING stands for PENDING_LEVEL_<level>. *)
Approved(r, b) ==
    IF tx[r].level >= tx[r].required
    THEN [b EXCEPT !.appr = "APPROVED", !.level = tx[r].required, !.required = tx[r].required]
    ELSE [b EXCEPT !.appr = "PENDING", !.level = ClampLevel(tx[r].level + 1),
                   !.required = tx[r].required]

Updated(r, b) ==
    CASE tx[r].op = "APPROVE" -> Approved(r, b)
      [] tx[r].op = "REJECT"  -> [b EXCEPT !.appr = "REJECTED"]
      [] OTHER                -> [b EXCEPT !.st = NextStatus(r)]

(* COMMIT of whatever r has written so far. *)
Persist(r) ==
    /\ bill' = [b \in Req |-> IF b = r /\ HasBill(r) THEN NewBill(r)
                              ELSE IF HoldsBill(r, b) THEN Updated(r, bill[b]) ELSE bill[b]]
    /\ decision' = IF HasDecision(r) THEN [decision EXCEPT ![r] = NewDecision(r)] ELSE decision
    /\ payment' = IF HasPayment(r) THEN [payment EXCEPT ![r] = NewPayment(r)] ELSE payment
    /\ granted' = IF HasGrant(r) THEN granted \cup {<<tx[r].from, tx[r].to>>} ELSE granted
    /\ line' = IF HasLine(r) THEN [line EXCEPT ![tx[r].line] = "MATCHED"] ELSE line

Commit(r) == tx[r].pc = "answer" /\ Persist(r) /\ End(r, "committed")

(* The connection closes before the answer: see Ledger. *)
Disconnect(r) == Disconnects /\ r \in InFlight /\ Persist(r) /\ End(r, "cut")

Timeout(r) == r \in InFlight /\ End(r, "rolledback") /\ Quiet

-----------------------------------------------------------------------------
Arrive(r) == \/ CreateBill(r) \/ ApproveBill(r) \/ RejectBill(r)
             \/ Delegate(r) \/ PayBill(r) \/ ReconcileBill(r)

Advance(r) == \/ InsertBill(r) \/ InsertDelegation(r) \/ ReadForApproval(r)
              \/ ReadForRejection(r) \/ Decide(r) \/ UpdateApproval(r) \/ ReadLine(r)
              \/ ReadForPayment(r) \/ InsertPayment(r) \/ UpdateStatus(r) \/ PostNote(r)
              \/ UpdateLine(r) \/ Commit(r)

Fail(r) == Disconnect(r) \/ Timeout(r)

(* Every request has been served. *)
Quiescent == (\A r \in Req : tx[r].pc \in Finished) /\ UNCHANGED vars

Next == (\E r \in Req : Arrive(r) \/ Advance(r) \/ Fail(r)) \/ Quiescent

Spec == Init /\ [][Next]_vars

-----------------------------------------------------------------------------
(* Properties. *)

(* Somebody entitled to level l, or acting for somebody who is, approved b
   at that level. *)
ApprovedAt(b, l) ==
    \E d \in Req : /\ decision[d] # None
                   /\ decision[d].bill = b /\ decision[d].level = l
                   /\ decision[d].action = "APPROVE"
                   /\ \E u \in {decision[d].by, decision[d].from} \cap User :
                          isRoleAllowedForLevel(u, l)

FullyBacked(b) == \A l \in 1 .. resolveRequiredApprovalLevel(bill[b].total) : ApprovedAt(b, l)

(* An APPROVED invoice has an approval of every level its total asks for, by
   entitled users, although concurrent approvals overwrite each other's level
   and a cut connection may keep a decision without its level. *)
ApprovedIsBacked == \A b \in Bills : bill[b].appr = "APPROVED" => FullyBacked(b)

(* The payment route never pays what was not approved at every level,
   whatever happens between its check and its commit. *)
PaidIsBacked == \A r \in Payments : payment[r].op = "PAY" => FullyBacked(payment[r].bill)

(* No supplier invoice is paid beyond its total. *)
NoOverpayment == \A b \in Bills : Paid(b) <= bill[b].total

(* A rejected invoice does not come back into the approval flow. *)
StaysRejected ==
    \A b \in Bills : bill[b].appr = "REJECTED" => bill'[b].appr = "REJECTED"

(* An invoice approved in full is not approved again from a lower level. *)
StaysDecided ==
    \A b \in Bills : bill[b].appr = "APPROVED" => bill'[b].appr \in {"APPROVED", "REJECTED"}

(* What a handler concluded from its reads is still true of the committed
   rows: the invoice it approves is undecided, the amount it pays is open.
   Other requests may spoil it. *)
Current(t) ==
    /\ t.op = "APPROVE" /\ t.pc \in {"decide", "update", "answer"} =>
          bill[t.bill].appr = "PENDING"
    /\ t.op \in Settling /\ t.pc \in {"pay", "status", "post", "match", "answer"} =>
          t.amount <= OpenAmount(t.bill)

-----------------------------------------------------------------------------
(* The inductive invariant behind ApprovedIsBacked and PaidIsBacked. *)

(* The step a handler is at tells which handler it is; it works on a
   committed invoice, and has committed nothing itself. *)
WellFormed(r, t) ==
    /\ t.pc = "create" => t.op = "CREATE"
    /\ t.pc = "delegate" => t.op = "DELEGATE"
    /\ t.pc \in {"line", "match"} => t.op = "RECONCILE"
    /\ t.pc = "read" => t.op \in Deciding \cup Settling
    /\ t.pc \in {"decide", "update"} => t.op \in Deciding
    /\ t.pc \in {"pay", "status"} => t.op \in Settling
    /\ t.pc = "post" => t.op \in {"CREATE"} \cup Settling
    /\ t.pc \in Running /\ t.op \in Deciding \cup Settling => t.bill \in Bills
    /\ t.pc \in Running /\ t.op = "DELEGATE" => t.from \in User /\ t.to \in User
    /\ t.pc \in Running \cup {"idle"} =>
          bill[r] = None /\ decision[r] = None /\ payment[r] = None

(* What a handler concluded from its reads stays true while it runs: the
   levels below the one it decides were approved, its user is entitled to
   that level, and what it pays was approved in full. *)
Informed(t) ==
    /\ t.op = "APPROVE" /\ t.pc \in {"decide", "update", "answer"} =>
          /\ t.required = bill[t.bill].required /\ t.level <= t.required
          /\ \A l \in 1 .. (t.level - 1) : ApprovedAt(t.bill, l)
    /\ t.op = "APPROVE" /\ t.pc \in {"update", "answer"} =>
          \E u \in {t.user, t.from} \cap User : isRoleAllowedForLevel(u, t.level)
    /\ t.op = "PAY" /\ t.pc \in {"pay", "status", "post", "answer"} => FullyBacked(t.bill)

(* Every level below the current one was approved. *)
LevelsBacked ==
    \A b \in Bills :
        /\ bill[b].required = resolveRequiredApprovalLevel(bill[b].total)
        /\ bill[b].level <= bill[b].required
        /\ \A l \in 1 .. (bill[b].level - 1) : ApprovedAt(b, l)
        /\ bill[b].appr = "APPROVED" =>
              bill[b].level = bill[b].required /\ ApprovedAt(b, bill[b].level)

ApprovalInv ==
    /\ TypeOK
    /\ \A r \in Req : WellFormed(r, tx[r]) /\ Informed(tx[r])
    /\ LevelsBacked
    /\ \A r \in Payments : payment[r].bill \in Bills
    /\ PaidIsBacked
=============================================================================
