--------------------------- MODULE PayablesProofs ---------------------------
(***************************************************************************)
(* Proofs about the approval and the payment of supplier invoices, for any *)
(* set of requests, users, roles, amounts and bank lines, with or without  *)
(* disconnecting clients.                                                  *)
(***************************************************************************)
EXTENDS MCPayables, SumProofs, FiniteSetTheorems, TLAPS

USE DEF Op, Deciding, Settling, Running, Finished

-----------------------------------------------------------------------------
(* Operators. *)

(* Levels, required levels and rounded amounts have the types the rows need
   (resolveRequiredApprovalLevel, round2). *)
LEMMA OperatorTypes ==
    /\ \A n \in Nat : ClampLevel(n) \in Level
    /\ \A n \in Level : ClampLevel(n) = n
    /\ \A n \in Level : ClampLevel(n + 1) \in Level /\ ClampLevel(n + 1) <= n + 1
    /\ \A n \in {3, 4} : ClampLevel(n) = n
    /\ \A n \in Nat : resolveRequiredApprovalLevel(n) \in {3, 4}
    /\ \A n \in Nat : Round2(n) \in Nat
<1>1. \A n \in Nat : Round2(n) \in Nat
  BY DEF Round2
<1>2. \A n \in Nat : resolveRequiredApprovalLevel(n) \in {3, 4}
  BY DEF resolveRequiredApprovalLevel
<1> QED BY <1>1, <1>2 DEF ClampLevel, Level

(* A transaction that holds nothing is well typed. *)
LEMMA BlankType ==
    ASSUME NEW label \in {"idle"} \cup Running \cup Finished
    PROVE  /\ Blank(label) \in Transaction
           /\ Blank(label).op = "CREATE" /\ Blank(label).pc = label
<1>1. (CHOOSE u \in User : TRUE) \in User
  BY PayablesConstants
<1>2. 1 \in Level /\ 3 \in {3, 4} /\ 0 \in Nat
  BY DEF Level
<1> QED BY <1>1, <1>2 DEF Blank, Transaction

-----------------------------------------------------------------------------
(* Decisions, and what they back, are never taken back. *)

(* Committed rows stay: an invoice keeps its total and its required level,
   a decision and a payment stay what they are. *)
RowsStay ==
    /\ \A b \in Bills : /\ b \in Bills'
                        /\ bill'[b].total = bill[b].total
                        /\ bill'[b].required = bill[b].required
    /\ \A d \in Req : decision[d] # None => decision'[d] = decision[d]
    /\ \A r \in Payments : payment'[r] = payment[r]

(* What was approved stays approved. *)
LEMMA BackingStays ==
    ASSUME RowsStay
    PROVE  /\ \A b, l : ApprovedAt(b, l) => ApprovedAt(b, l)'
           /\ \A b \in Bills : FullyBacked(b) => FullyBacked(b)'
<1>1. ASSUME NEW b, NEW l, ApprovedAt(b, l) PROVE ApprovedAt(b, l)'
  <2>1. PICK d \in Req : /\ decision[d] # None
                         /\ decision[d].bill = b /\ decision[d].level = l
                         /\ decision[d].action = "APPROVE"
                         /\ \E u \in {decision[d].by, decision[d].from} \cap User :
                                isRoleAllowedForLevel(u, l)
    BY <1>1 DEF ApprovedAt
  <2>2. decision'[d] = decision[d]
    BY <2>1 DEF RowsStay
  <2> QED BY <2>1, <2>2 DEF ApprovedAt, isRoleAllowedForLevel
<1>2. ASSUME NEW b \in Bills, FullyBacked(b) PROVE FullyBacked(b)'
  <2>1. bill'[b].total = bill[b].total
    BY DEF RowsStay
  <2>2. \A l \in 1 .. resolveRequiredApprovalLevel(bill[b].total) : ApprovedAt(b, l)'
    BY <1>1, <1>2 DEF FullyBacked
  <2> QED BY <2>1, <2>2 DEF FullyBacked, resolveRequiredApprovalLevel
<1> QED BY <1>1, <1>2

(* What is known of a transaction stays true while others commit. *)
LEMMA LocalStays ==
    ASSUME ApprovalInv, RowsStay, NEW r \in Req, tx'[r] = tx[r],
           bill[r] = None => bill'[r] = None,
           decision[r] = None => decision'[r] = None,
           payment[r] = None => payment'[r] = None
    PROVE  WellFormed(r, tx[r])' /\ Informed(tx[r])'
<1>1. WellFormed(r, tx[r]) /\ Informed(tx[r])
  BY DEF ApprovalInv
<1>2. \A b \in Bills : b \in Bills' /\ bill'[b].required = bill[b].required
  BY DEF RowsStay
<1>3. WellFormed(r, tx[r])'
  BY <1>1, <1>2 DEF WellFormed
<1>4. tx[r].op \in {"APPROVE", "PAY"} /\ tx[r].pc \in Running => tx[r].bill \in Bills
  BY <1>1 DEF WellFormed
<1>5. Informed(tx[r])'
  BY <1>1, <1>2, <1>4, BackingStays DEF Informed, isRoleAllowedForLevel
<1> QED BY <1>3, <1>5

-----------------------------------------------------------------------------
(* Steps that commit nothing. *)

(* Only the transaction of r changes. *)
Alone(r) == tx' = [tx EXCEPT ![r] = tx'[r]] /\ Quiet

(* A step of r that commits nothing and leaves r with a sound transaction:
   what r has read is as current as it was. *)
Sound(r) ==
    /\ Alone(r) /\ tx[r].pc \in {"idle"} \cup Running
    /\ tx'[r] \in Transaction /\ tx'[r].pc # "cut"
    /\ WellFormed(r, tx'[r]) /\ Informed(tx'[r])
    /\ Current(tx[r]) => Current(tx'[r])

(* A sound step keeps the invariant. *)
LEMMA QuietStep ==
    ASSUME ApprovalInv, NEW r \in Req, Sound(r)
    PROVE  ApprovalInv'
<1>0. Alone(r) /\ tx'[r] \in Transaction /\ WellFormed(r, tx'[r]) /\ Informed(tx'[r])
  BY DEF Sound
<1>1. /\ bill' = bill /\ decision' = decision /\ payment' = payment
      /\ granted' = granted /\ line' = line
  BY <1>0 DEF Alone, Quiet
<1>2. tx \in [Req -> Transaction] /\ tx' = [tx EXCEPT ![r] = tx'[r]]
  BY <1>0 DEF ApprovalInv, TypeOK, Alone
<1>3. tx' \in [Req -> Transaction] /\ \A q \in Req \ {r} : tx'[q] = tx[q]
  BY <1>0, <1>2
<1>4. TypeOK'
  BY <1>1, <1>3 DEF ApprovalInv, TypeOK
<1>5. /\ Bills' = Bills /\ Payments' = Payments
      /\ \A b, l : ApprovedAt(b, l)' <=> ApprovedAt(b, l)
      /\ \A b : FullyBacked(b)' <=> FullyBacked(b)
  BY <1>1 DEF Bills, Payments, ApprovedAt, FullyBacked
<1>6. /\ LevelsBacked' /\ PaidIsBacked'
      /\ \A p \in Payments' : payment'[p].bill \in Bills'
  BY <1>1, <1>5 DEF ApprovalInv, LevelsBacked, PaidIsBacked
<1>7. RowsStay
  BY <1>1, <1>5 DEF RowsStay
<1>8. ASSUME NEW q \in Req PROVE WellFormed(q, tx[q])' /\ Informed(tx[q])'
  <2>1. CASE q = r
    BY <1>0, <1>1, <1>5, <2>1 DEF WellFormed, Informed
  <2>2. CASE q # r
    BY <1>1, <1>3, <1>7, <2>2, LocalStays
  <2> QED BY <2>1, <2>2
<1> QED BY <1>4, <1>6, <1>8 DEF ApprovalInv

(* A request that ends without a commit leaves nothing behind. *)
LEMMA EndSound ==
    ASSUME ApprovalInv, NEW r \in Req, NEW label \in Finished \ {"cut"},
           tx[r].pc \in Running, End(r, label), Quiet
    PROVE  Sound(r)
<1>1. tx \in [Req -> Transaction]
  BY DEF ApprovalInv, TypeOK
<1>2. Blank(label) \in Transaction /\ Blank(label).op = "CREATE" /\ Blank(label).pc = label
  BY BlankType
<1>3. Alone(r) /\ tx'[r] = Blank(label)
  BY <1>1, <1>2 DEF End, Alone
<1>4. WellFormed(r, tx'[r]) /\ Informed(tx'[r])
  BY <1>2, <1>3 DEF WellFormed, Informed
<1> QED BY <1>2, <1>3, <1>4 DEF Sound, Current

(* A handler that goes on keeps everything but the step it is at. *)
LEMMA GotoLocal ==
    ASSUME ApprovalInv, NEW r \in Req, NEW label \in Running, Goto(r, label)
    PROVE  /\ Alone(r) /\ tx'[r] \in Transaction /\ tx'[r].pc = label
           /\ tx'[r].op = tx[r].op /\ tx'[r].bill = tx[r].bill
           /\ tx'[r].user = tx[r].user /\ tx'[r].from = tx[r].from /\ tx'[r].to = tx[r].to
           /\ tx'[r].level = tx[r].level /\ tx'[r].required = tx[r].required
           /\ tx'[r].amount = tx[r].amount
<1>1. tx \in [Req -> Transaction] /\ tx[r] \in Transaction
  BY DEF ApprovalInv, TypeOK
<1>2. tx'[r] = [tx[r] EXCEPT !.pc = label] /\ Alone(r)
  BY <1>1 DEF Goto, Alone
<1> QED BY <1>1, <1>2 DEF Transaction

(* How the transaction of a request begins. *)
FirstStep(t) ==
    \/ t.pc = "create" /\ t.op = "CREATE"
    \/ t.pc = "delegate" /\ t.op = "DELEGATE" /\ t.from \in User /\ t.to \in User
    \/ t.pc = "line" /\ t.op = "RECONCILE" /\ t.bill \in Bills
    \/ t.pc = "read" /\ t.op \in Deciding \cup Settling /\ t.bill \in Bills

(* An arriving request is sound: it has read nothing yet. *)
LEMMA ArriveSound ==
    ASSUME ApprovalInv, NEW r \in Req, Arrive(r)
    PROVE  Sound(r)
<1>1. tx \in [Req -> Transaction]
  BY DEF ApprovalInv, TypeOK
<1>2. tx[r].pc = "idle"
  BY DEF Arrive, CreateBill, ApproveBill, RejectBill, Delegate, PayBill, ReconcileBill, Start
<1>3. bill[r] = None /\ decision[r] = None /\ payment[r] = None
  BY <1>2 DEF ApprovalInv, WellFormed
<1>4. ASSUME NEW t \in Transaction, Start(r, t), FirstStep(t) PROVE Sound(r)
  <2>1. Alone(r) /\ tx'[r] = t
    BY <1>1, <1>4 DEF Start, Alone
  <2>2. WellFormed(r, t) /\ Informed(t)
    BY <1>3, <1>4 DEF FirstStep, WellFormed, Informed
  <2>3. Current(t) /\ t.pc # "cut"
    BY <1>4 DEF FirstStep, Current
  <2> QED BY <1>2, <1>4, <2>1, <2>2, <2>3 DEF Sound
<1>5. /\ (CHOOSE u \in User : TRUE) \in User
      /\ 1 \in Level /\ 3 \in {3, 4} /\ 0 \in Nat /\ Bills \subseteq Req /\ Approvers \subseteq User
  BY PayablesConstants DEF Level, Bills, Approvers
<1>6. \A m \in Total \cup Amount : Round2(m) \in Nat
  BY OperatorTypes, PayablesConstants
<1>7. CASE CreateBill(r)
  <2>1. PICK m \in Total, auto \in BOOLEAN :
            Start(r, [Blank("create") EXCEPT !.total = Round2(m), !.auto = auto])
    BY <1>7 DEF CreateBill
  <2> DEFINE t == [Blank("create") EXCEPT !.total = Round2(m), !.auto = auto]
  <2>2. t \in Transaction /\ FirstStep(t)
    BY <1>5, <1>6 DEF Blank, Transaction, FirstStep
  <2>3. Start(r, t)
    BY <2>1
  <2> HIDE DEF t
  <2> QED BY <1>4, <2>2, <2>3
<1>8. CASE ApproveBill(r)
  <2>1. PICK b \in Bills, u \in Approvers :
            Start(r, [Blank("read") EXCEPT !.op = "APPROVE", !.bill = b, !.user = u])
    BY <1>8 DEF ApproveBill
  <2> DEFINE t == [Blank("read") EXCEPT !.op = "APPROVE", !.bill = b, !.user = u]
  <2>2. t \in Transaction /\ FirstStep(t)
    BY <1>5 DEF Blank, Transaction, FirstStep
  <2>3. Start(r, t)
    BY <2>1
  <2> HIDE DEF t
  <2> QED BY <1>4, <2>2, <2>3
<1>9. CASE RejectBill(r)
  <2>1. PICK b \in Bills, u \in Approvers :
            Start(r, [Blank("read") EXCEPT !.op = "REJECT", !.bill = b, !.user = u])
    BY <1>9 DEF RejectBill
  <2> DEFINE t == [Blank("read") EXCEPT !.op = "REJECT", !.bill = b, !.user = u]
  <2>2. t \in Transaction /\ FirstStep(t)
    BY <1>5 DEF Blank, Transaction, FirstStep
  <2>3. Start(r, t)
    BY <2>1
  <2> HIDE DEF t
  <2> QED BY <1>4, <2>2, <2>3
<1>10. CASE Delegate(r)
  <2>1. PICK a \in Approvers, f \in User, g \in User :
            Start(r, [Blank("delegate") EXCEPT !.op = "DELEGATE", !.user = a,
                                               !.from = f, !.to = g])
    BY <1>10 DEF Delegate
  <2> DEFINE t == [Blank("delegate") EXCEPT !.op = "DELEGATE", !.user = a,
                                            !.from = f, !.to = g]
  <2>2. t \in Transaction /\ FirstStep(t)
    BY <1>5 DEF Blank, Transaction, FirstStep
  <2>3. Start(r, t)
    BY <2>1
  <2> HIDE DEF t
  <2> QED BY <1>4, <2>2, <2>3
<1>11. CASE PayBill(r)
  <2>1. PICK b \in Bills, m \in Amount, auto \in BOOLEAN :
            Start(r, [Blank("read") EXCEPT !.op = "PAY", !.bill = b,
                                           !.amount = Round2(m), !.auto = auto])
    BY <1>11 DEF PayBill
  <2> DEFINE t == [Blank("read") EXCEPT !.op = "PAY", !.bill = b,
                                        !.amount = Round2(m), !.auto = auto]
  <2>2. t \in Transaction /\ FirstStep(t)
    BY <1>5, <1>6 DEF Blank, Transaction, FirstStep
  <2>3. Start(r, t)
    BY <2>1
  <2> HIDE DEF t
  <2> QED BY <1>4, <2>2, <2>3
<1>12. CASE ReconcileBill(r)
  <2>1. PICK n \in BankLine, b \in Bills, auto \in BOOLEAN :
            Start(r, [Blank("line") EXCEPT !.op = "RECONCILE", !.line = n, !.bill = b,
                                           !.amount = LineAmount[n], !.auto = auto])
    BY <1>12 DEF ReconcileBill
  <2> DEFINE t == [Blank("line") EXCEPT !.op = "RECONCILE", !.line = n, !.bill = b,
                                        !.amount = LineAmount[n], !.auto = auto]
  <2>2. LineAmount[n] \in Nat
    BY PayablesConstants
  <2>3. t \in Transaction /\ FirstStep(t)
    BY <1>5, <2>2 DEF Blank, Transaction, FirstStep
  <2>4. Start(r, t)
    BY <2>1
  <2> HIDE DEF t
  <2> QED BY <1>4, <2>3, <2>4
<1> QED BY <1>7, <1>8, <1>9, <1>10, <1>11, <1>12 DEF Arrive

(* Every statement before the commit keeps the invariant: what a read finds is
   what LevelsBacked says of the row. *)
LEMMA AdvanceSound ==
    ASSUME ApprovalInv, NEW r \in Req, Advance(r), ~Commit(r)
    PROVE  Sound(r)
<1> DEFINE t == tx[r]
<1>1. /\ tx \in [Req -> Transaction] /\ t \in Transaction
      /\ WellFormed(r, t) /\ Informed(t)
  BY DEF ApprovalInv, TypeOK
<1>3. \A b \in Bills : b \in Req /\ bill[b] \in Bill
  BY DEF ApprovalInv, TypeOK, Bills
<1>2. t.pc \in Running
  BY DEF Advance, InsertBill, InsertDelegation, ReadForApproval, ReadForRejection, Decide,
         UpdateApproval, ReadLine, ReadForPayment, InsertPayment, UpdateStatus, PostNote,
         UpdateLine, Commit
<1>4. CASE Reject(r)
  BY <1>2, <1>4, EndSound DEF Reject
<1>5. CASE InsertBill(r)
  <2>1. ASSUME NEW label \in {"post", "answer"}, Goto(r, label) PROVE Sound(r)
    BY <1>1, <1>5, <2>1, GotoLocal DEF Sound, Current, InsertBill, WellFormed, Informed
  <2> QED BY <1>4, <1>5, <2>1 DEF InsertBill
<1>6. CASE InsertDelegation(r)
  <2>1. CASE Goto(r, "answer")
    BY <1>1, <1>6, <2>1, GotoLocal DEF Sound, Current, InsertDelegation, WellFormed, Informed
  <2> QED BY <1>4, <1>6, <2>1 DEF InsertDelegation
<1>7. CASE ReadForApproval(r)
  <2> DEFINE b == bill[t.bill]
  <2>1. CASE /\ tx' = [tx EXCEPT ![r].pc = "decide", ![r].level = ClampLevel(b.level),
                                 ![r].required = ClampLevel(b.required)]
             /\ Quiet /\ b.appr = "PENDING"
    <3>1. t.bill \in Bills /\ t.op = "APPROVE"
      BY <1>1, <1>7 DEF ReadForApproval, WellFormed
    <3>2. b \in Bill
      BY <1>3, <3>1
    <3>3. ClampLevel(b.level) = b.level /\ ClampLevel(b.required) = b.required
      BY <3>2, OperatorTypes DEF Bill
    <3>4. /\ tx'[r] = [t EXCEPT !.pc = "decide", !.level = b.level, !.required = b.required]
          /\ Alone(r)
      BY <1>1, <2>1, <3>3 DEF Alone
    <3>5. /\ b.level <= b.required
          /\ \A l \in 1 .. (b.level - 1) : ApprovedAt(t.bill, l)
      BY <3>1 DEF ApprovalInv, LevelsBacked
    <3>6. /\ tx'[r] \in Transaction /\ tx'[r].pc = "decide" /\ tx'[r].op = t.op
          /\ tx'[r].bill = t.bill /\ tx'[r].level = b.level /\ tx'[r].required = b.required
      BY <1>1, <3>2, <3>4 DEF Transaction, Bill
    <3>7. WellFormed(r, tx'[r])
      BY <1>1, <1>7, <3>1, <3>6 DEF WellFormed, ReadForApproval
    <3>8. Informed(tx'[r])
      BY <3>1, <3>5, <3>6 DEF Informed
    <3>9. Current(tx'[r])
      BY <2>1, <3>1, <3>6 DEF Current
    <3> QED BY <1>2, <3>4, <3>6, <3>7, <3>8, <3>9 DEF Sound
  <2> QED BY <1>4, <1>7, <2>1 DEF ReadForApproval
<1>8. CASE ReadForRejection(r)
  <2> DEFINE b == bill[t.bill]
  <2>1. CASE tx' = [tx EXCEPT ![r].pc = "decide", ![r].level = ClampLevel(b.level)] /\ Quiet
    <3>1. t.bill \in Bills /\ t.op = "REJECT"
      BY <1>1, <1>8 DEF ReadForRejection, WellFormed
    <3>2. ClampLevel(b.level) \in Level
      BY <1>3, <3>1, OperatorTypes DEF Bill
    <3>3. tx'[r] = [t EXCEPT !.pc = "decide", !.level = ClampLevel(b.level)] /\ Alone(r)
      BY <1>1, <2>1 DEF Alone
    <3>4. /\ tx'[r] \in Transaction /\ tx'[r].pc = "decide" /\ tx'[r].op = t.op
          /\ tx'[r].bill = t.bill
      BY <1>1, <3>2, <3>3 DEF Transaction
    <3>5. WellFormed(r, tx'[r]) /\ Informed(tx'[r])
      BY <1>1, <1>8, <3>1, <3>4 DEF WellFormed, Informed, ReadForRejection
    <3>6. Current(tx'[r])
      BY <3>1, <3>4 DEF Current
    <3> QED BY <1>2, <3>3, <3>4, <3>5, <3>6 DEF Sound
  <2> QED BY <1>4, <1>8, <2>1 DEF ReadForRejection
<1>9. CASE Decide(r)
  <2>1. ASSUME NEW f \in resolveApprovalActor(t.user, t.level),
               tx' = [tx EXCEPT ![r].pc = "update", ![r].from = f], Quiet
        PROVE  Sound(r)
    <3>1. t.user \in User /\ t.level \in Level
      BY <1>1 DEF Transaction
    <3>2. /\ f \in User \cup {None}
          /\ \E u \in {t.user, f} \cap User : isRoleAllowedForLevel(u, t.level)
      BY <2>1, <3>1 DEF resolveApprovalActor
    <3>3. tx'[r] = [t EXCEPT !.pc = "update", !.from = f] /\ Alone(r)
      BY <1>1, <2>1 DEF Alone
    <3>4. /\ tx'[r] \in Transaction /\ tx'[r].pc = "update" /\ tx'[r].op = t.op
          /\ tx'[r].bill = t.bill /\ tx'[r].level = t.level /\ tx'[r].required = t.required
          /\ tx'[r].user = t.user /\ tx'[r].from = f
      BY <1>1, <3>2, <3>3 DEF Transaction
    <3>5. WellFormed(r, tx'[r])
      BY <1>1, <1>9, <3>4 DEF WellFormed, Decide
    <3>6. Informed(tx'[r])
      BY <1>1, <1>9, <3>2, <3>4 DEF Informed, Decide, WellFormed
    <3>7. Current(t) => Current(tx'[r])
      BY <1>9, <3>4 DEF Current, Decide
    <3> QED BY <1>2, <3>3, <3>4, <3>5, <3>6, <3>7 DEF Sound
  <2> QED BY <1>4, <1>9, <2>1 DEF Decide
<1>10. CASE UpdateApproval(r)
  <2>1. Goto(r, "answer") /\ t.pc = "update"
    BY <1>10 DEF UpdateApproval
  <2>2. /\ WellFormed(r, tx'[r])
        /\ Alone(r) /\ tx'[r] \in Transaction
    BY <1>1, <2>1, GotoLocal DEF WellFormed
  <2>3. Informed(tx'[r])
    BY <1>1, <2>1, GotoLocal DEF Informed, WellFormed
  <2>4. Current(t) => Current(tx'[r])
    BY <1>1, <2>1, GotoLocal DEF Current, WellFormed
  <2>5. tx'[r].pc # "cut"
    BY <2>1, GotoLocal
  <2> QED BY <1>2, <2>2, <2>3, <2>4, <2>5 DEF Sound
<1>11. CASE ReadLine(r)
  <2>1. CASE Goto(r, "read")
    BY <1>1, <1>11, <2>1, GotoLocal DEF Sound, Current, ReadLine, WellFormed, Informed
  <2> QED BY <1>4, <1>11, <2>1 DEF ReadLine
<1>12. CASE ReadForPayment(r)
  <2>1. CASE /\ t.op = "PAY" => bill[t.bill].st # "PAID" /\ bill[t.bill].appr = "APPROVED"
             /\ t.amount <= OpenAmount(t.bill)
             /\ tx' = [tx EXCEPT ![r].pc = "pay", ![r].seen = PaymentsOf(t.bill)] /\ Quiet
    <3>1. t.bill \in Bills /\ t.op \in Settling /\ t.pc = "read"
      BY <1>1, <1>12 DEF ReadForPayment, WellFormed
    <3>2. PaymentsOf(t.bill) \in SUBSET Req
      BY DEF PaymentsOf, Payments
    <3>3. tx'[r] = [t EXCEPT !.pc = "pay", !.seen = PaymentsOf(t.bill)] /\ Alone(r)
      BY <1>1, <2>1 DEF Alone
    <3>4. /\ tx'[r] \in Transaction /\ tx'[r].pc = "pay" /\ tx'[r].op = t.op
          /\ tx'[r].bill = t.bill /\ tx'[r].amount = t.amount
      BY <1>1, <3>2, <3>3 DEF Transaction
    <3>5. t.op = "PAY" => FullyBacked(t.bill)
      <4> SUFFICES ASSUME t.op = "PAY" PROVE FullyBacked(t.bill)
        OBVIOUS
      <4> DEFINE b == bill[t.bill]
      <4>1. /\ b.appr = "APPROVED" /\ b.required = resolveRequiredApprovalLevel(b.total)
            /\ b.level = b.required /\ ApprovedAt(t.bill, b.level)
            /\ \A l \in 1 .. (b.level - 1) : ApprovedAt(t.bill, l)
        BY <2>1, <3>1 DEF ApprovalInv, LevelsBacked
      <4>2. b.level \in Level
        BY <1>3, <3>1 DEF Bill
      <4>3. \A l \in 1 .. b.level : l = b.level \/ l \in 1 .. (b.level - 1)
        BY <4>2 DEF Level
      <4> QED BY <4>1, <4>3 DEF FullyBacked
    <3>6. WellFormed(r, tx'[r]) /\ Informed(tx'[r])
      BY <1>1, <3>1, <3>4, <3>5 DEF WellFormed, Informed
    <3>7. Current(tx'[r])
      BY <2>1, <3>1, <3>4 DEF Current
    <3> QED BY <1>2, <3>3, <3>4, <3>6, <3>7 DEF Sound
  <2> QED BY <1>4, <1>12, <2>1 DEF ReadForPayment
<1>13. CASE InsertPayment(r)
  BY <1>1, <1>13, GotoLocal DEF Sound, Current, InsertPayment, WellFormed, Informed
<1>14. CASE UpdateStatus(r)
  <2>1. ASSUME NEW label \in {"post", "match", "answer"}, Goto(r, label),
               label = "match" => t.op = "RECONCILE"
        PROVE Sound(r)
    BY <1>1, <1>14, <2>1, GotoLocal DEF Sound, Current, UpdateStatus, WellFormed, Informed
  <2> QED BY <1>14, <2>1 DEF UpdateStatus, AfterPosting
<1>15. CASE PostNote(r)
  <2>1. ASSUME NEW label \in {"match", "answer"}, Goto(r, label),
               label = "match" => t.op = "RECONCILE"
        PROVE Sound(r)
    BY <1>1, <1>15, <2>1, GotoLocal DEF Sound, Current, PostNote, WellFormed, Informed
  <2>2. CASE End(r, "rolledback") /\ Quiet
    BY <1>2, <2>2, EndSound
  <2> QED BY <1>15, <2>1, <2>2 DEF PostNote, AfterPosting
<1>16. CASE UpdateLine(r)
  <2>1. t.op = "RECONCILE"
    BY <1>1, <1>16 DEF UpdateLine, WellFormed
  <2> QED BY <1>1, <1>16, <2>1, GotoLocal DEF Sound, Current, UpdateLine, WellFormed, Informed
<1> QED BY <1>5, <1>6, <1>7, <1>8, <1>9, <1>10, <1>11, <1>12, <1>13, <1>14, <1>15, <1>16
        DEF Advance

-----------------------------------------------------------------------------
(* The commit. *)

(* Committing keeps the rows well formed and takes no committed row back. *)
LEMMA PersistEffect ==
    ASSUME ApprovalInv, NEW r \in Req, tx[r].pc \in Running, Persist(r)
    PROVE  /\ bill' \in [Req -> Bill \cup {None}]
           /\ decision' \in [Req -> Decision \cup {None}]
           /\ payment' \in [Req -> Payment \cup {None}]
           /\ granted' \in SUBSET (User \X User)
           /\ line' \in [BankLine -> {"UNMATCHED", "MATCHED"}]
           /\ RowsStay
           /\ \A b \in Bills : bill'[b] = IF HoldsBill(r, b) THEN Updated(r, bill[b]) ELSE bill[b]
           /\ \A b \in Bills' \ Bills : b = r /\ HasBill(r) /\ bill'[b] = NewBill(r)
           /\ HasDecision(r) => decision'[r] = NewDecision(r) /\ NewDecision(r) # None
           /\ \A p \in Payments' \ Payments : p = r /\ HasPayment(r) /\ payment'[p] = NewPayment(r)
           /\ \A q \in Req \ {r} : /\ bill[q] = None => bill'[q] = None
                                   /\ decision'[q] = decision[q] /\ payment'[q] = payment[q]
           /\ payment'[r] = IF HasPayment(r) THEN NewPayment(r) ELSE None
           /\ Payments' = IF HasPayment(r) THEN Payments \union {r} ELSE Payments
           /\ r \notin Payments
<1> DEFINE t == tx[r]
<1>1. /\ t \in Transaction /\ WellFormed(r, t) /\ Informed(t)
      /\ bill \in [Req -> Bill \cup {None}] /\ decision \in [Req -> Decision \cup {None}]
      /\ payment \in [Req -> Payment \cup {None}] /\ granted \in SUBSET (User \X User)
      /\ line \in [BankLine -> {"UNMATCHED", "MATCHED"}]
  BY DEF ApprovalInv, TypeOK
<1>2. bill[r] = None /\ decision[r] = None /\ payment[r] = None
  BY <1>1 DEF WellFormed
<1>3. \A b \in Bills : b \in Req /\ b # r /\ bill[b] \in Bill
  BY <1>1, <1>2 DEF Bills
<1>4. \A b \in Req : HoldsBill(r, b) => b \in Bills
  BY <1>1 DEF HoldsBill, WellFormed
<1>5. HasBill(r) => NewBill(r) \in Bill
  <2>1. t.total \in Nat /\ 1 \in Level
    BY <1>1 DEF Transaction, Level
  <2>2. resolveRequiredApprovalLevel(t.total) \in {3, 4}
    BY <2>1, OperatorTypes
  <2> QED BY <2>1, <2>2 DEF NewBill, Bill
<1>6. ASSUME NEW b \in Bills, HoldsBill(r, b)
      PROVE  /\ Updated(r, bill[b]) \in Bill
             /\ Updated(r, bill[b]).total = bill[b].total
             /\ Updated(r, bill[b]).required = bill[b].required
  <2>1. bill[b] \in Bill
    BY <1>3
  <2>2. CASE t.op = "APPROVE"
    <3>1. t.level \in Level /\ t.required \in {3, 4} /\ t.required \in Level
      BY <1>1 DEF Transaction, Level
    <3>2. t.required = bill[b].required
      BY <1>1, <1>6, <2>2 DEF Informed, HoldsBill
    <3>3. ClampLevel(t.level + 1) \in Level
      BY <3>1, OperatorTypes
    <3>4. Updated(r, bill[b]) = Approved(r, bill[b])
      BY <2>2 DEF Updated
    <3> QED BY <2>1, <3>1, <3>2, <3>3, <3>4 DEF Approved, Bill
  <2>3. CASE t.op = "REJECT"
    <3>1. Updated(r, bill[b]) = [bill[b] EXCEPT !.appr = "REJECTED"]
      BY <2>3 DEF Updated
    <3> QED BY <2>1, <3>1 DEF Bill
  <2>4. CASE t.op \notin Deciding
    <3>1. Updated(r, bill[b]) = [bill[b] EXCEPT !.st = NextStatus(r)]
      BY <2>4 DEF Updated
    <3>2. NextStatus(r) \in {"PAID", "PARTIALLY_PAID"}
      BY DEF NextStatus
    <3> QED BY <2>1, <3>1, <3>2 DEF Bill
  <2> QED BY <2>2, <2>3, <2>4
<1> DEFINE f(b) == IF b = r /\ HasBill(r) THEN NewBill(r)
                   ELSE IF HoldsBill(r, b) THEN Updated(r, bill[b]) ELSE bill[b]
<1>7. bill' = [b \in Req |-> f(b)]
  BY DEF Persist
<1>8. \A b \in Req : f(b) \in Bill \cup {None}
  <2>1. TAKE b \in Req
  <2>2. CASE b = r /\ HasBill(r)
    BY <1>5, <2>2
  <2>3. CASE ~(b = r /\ HasBill(r)) /\ HoldsBill(r, b)
    BY <1>4, <1>6, <2>3
  <2>4. CASE ~(b = r /\ HasBill(r)) /\ ~HoldsBill(r, b)
    BY <1>1, <2>4
  <2> QED BY <2>2, <2>3, <2>4
<1>9. \A b \in Bills : f(b) = IF HoldsBill(r, b) THEN Updated(r, bill[b]) ELSE bill[b]
  BY <1>3
<1>10. \A b \in Req \ Bills : ~(b = r /\ HasBill(r)) => f(b) = None
  BY <1>4 DEF Bills
<1> HIDE DEF f
<1>11. bill' \in [Req -> Bill \cup {None}] /\ \A b \in Req : bill'[b] = f(b)
  BY <1>7, <1>8
<1>12. \A b \in Bills : /\ bill'[b] = IF HoldsBill(r, b) THEN Updated(r, bill[b]) ELSE bill[b]
                        /\ b \in Req /\ bill'[b] \in Bill
                        /\ bill'[b].total = bill[b].total
                        /\ bill'[b].required = bill[b].required
  BY <1>3, <1>6, <1>9, <1>11
<1>13. \A b \in Bills : b \in Bills'
  BY <1>12, PayablesConstants DEF Bills
<1>14. \A b \in Bills' \ Bills : b = r /\ HasBill(r) /\ bill'[b] = NewBill(r)
  <2> SUFFICES ASSUME NEW b \in Bills', b \notin Bills
               PROVE  b = r /\ HasBill(r) /\ bill'[b] = NewBill(r)
    OBVIOUS
  <2>1. b \in Req /\ bill'[b] # None
    BY DEF Bills
  <2>2. b = r /\ HasBill(r)
    BY <1>10, <1>11, <2>1
  <2> QED BY <1>11, <2>2 DEF f
<1>15. HasDecision(r) => NewDecision(r) \in Decision
  <2>1. HasDecision(r) => t.bill \in Req /\ t.op \in Deciding
    BY <1>1 DEF HasDecision, WellFormed, Bills
  <2> QED BY <1>1, <2>1 DEF NewDecision, Decision, Transaction
<1>16. HasPayment(r) => NewPayment(r) \in Payment
  <2>1. HasPayment(r) => t.bill \in Req /\ t.op \in Settling
    BY <1>1 DEF HasPayment, WellFormed, Bills
  <2> QED BY <1>1, <2>1 DEF NewPayment, Payment, Transaction
<1>17. /\ decision' \in [Req -> Decision \cup {None}]
       /\ \A q \in Req \ {r} : decision'[q] = decision[q]
       /\ HasDecision(r) => decision'[r] = NewDecision(r) /\ NewDecision(r) # None
  BY <1>1, <1>15, PayablesConstants DEF Persist
<1>18. /\ payment' \in [Req -> Payment \cup {None}]
       /\ \A q \in Req \ {r} : payment'[q] = payment[q]
       /\ payment'[r] = IF HasPayment(r) THEN NewPayment(r) ELSE payment[r]
  BY <1>1, <1>16 DEF Persist
<1>19. \A p \in Payments' \ Payments : p = r /\ HasPayment(r) /\ payment'[p] = NewPayment(r)
  BY <1>2, <1>18 DEF Payments
<1>20. granted' \in SUBSET (User \X User)
  <2>1. HasGrant(r) => t.from \in User /\ t.to \in User
    BY <1>1 DEF HasGrant, WellFormed
  <2> QED BY <1>1, <2>1 DEF Persist
<1>21. line' \in [BankLine -> {"UNMATCHED", "MATCHED"}]
  BY <1>1 DEF Persist
<1>22. RowsStay
  BY <1>2, <1>12, <1>13, <1>17, <1>18 DEF RowsStay, Payments
<1>23. \A q \in Req \ {r} : bill[q] = None => bill'[q] = None
  BY <1>10, <1>11 DEF Bills
<1>24. /\ payment'[r] = IF HasPayment(r) THEN NewPayment(r) ELSE None
       /\ Payments' = IF HasPayment(r) THEN Payments \union {r} ELSE Payments
       /\ r \notin Payments
  BY <1>2, <1>16, <1>18, PayablesConstants DEF Payments
<1> QED BY <1>11, <1>12, <1>14, <1>17, <1>18, <1>19, <1>20, <1>21, <1>22, <1>23, <1>24

(* Committing keeps the invariant: a level is only left together with the
   decision that approves it. *)
LEMMA PersistStep ==
    ASSUME ApprovalInv, NEW r \in Req, NEW label \in Finished,
           tx[r].pc \in Running, Persist(r), End(r, label)
    PROVE  ApprovalInv'
<1> DEFINE t == tx[r]
<1>1. /\ t \in Transaction /\ WellFormed(r, t) /\ Informed(t)
      /\ tx \in [Req -> Transaction]
  BY DEF ApprovalInv, TypeOK
<1>2. /\ \A b \in Bills : b \in Req /\ bill[b] \in Bill
      /\ \A b \in Bills : bill'[b] = IF HoldsBill(r, b) THEN Updated(r, bill[b]) ELSE bill[b]
      /\ \A b \in Bills' \ Bills : b = r /\ HasBill(r) /\ bill'[b] = NewBill(r)
      /\ HasDecision(r) => decision'[r] = NewDecision(r) /\ NewDecision(r) # None
      /\ \A p \in Payments' \ Payments : p = r /\ HasPayment(r) /\ payment'[p] = NewPayment(r)
      /\ RowsStay
  BY PersistEffect DEF ApprovalInv, TypeOK, Bills
<1>3. /\ Blank(label) \in Transaction /\ Blank(label).op = "CREATE" /\ Blank(label).pc = label
      /\ tx' = [tx EXCEPT ![r] = Blank(label)]
  BY BlankType DEF End
<1>4. tx' \in [Req -> Transaction] /\ tx'[r] = Blank(label) /\ \A q \in Req \ {r} : tx'[q] = tx[q]
  BY <1>1, <1>3
<1>5. TypeOK'
  BY <1>4, PersistEffect DEF TypeOK
<1>6. ASSUME NEW q \in Req PROVE WellFormed(q, tx[q])' /\ Informed(tx[q])'
  <2>1. CASE q = r
    BY <1>3, <1>4, <2>1 DEF WellFormed, Informed
  <2>2. CASE q # r
    <3>1. /\ bill[q] = None => bill'[q] = None
          /\ decision'[q] = decision[q] /\ payment'[q] = payment[q]
      BY <2>2, PersistEffect
    <3> QED BY <1>2, <1>4, <2>2, <3>1, LocalStays
  <2> QED BY <2>1, <2>2
<1>7. \A b, l : ApprovedAt(b, l) => ApprovedAt(b, l)'
  BY <1>2, BackingStays
<1>8. LevelsBacked'
  <2> SUFFICES ASSUME NEW b \in Bills'
               PROVE  /\ bill'[b].required = resolveRequiredApprovalLevel(bill'[b].total)
                      /\ bill'[b].level <= bill'[b].required
                      /\ \A l \in 1 .. (bill'[b].level - 1) : ApprovedAt(b, l)'
                      /\ bill'[b].appr = "APPROVED" =>
                            /\ bill'[b].level = bill'[b].required
                            /\ ApprovedAt(b, bill[b].level)'
    BY DEF LevelsBacked, resolveRequiredApprovalLevel
  <2>1. CASE b \notin Bills
    <3>1. bill'[b] = NewBill(r)
      BY <1>2, <2>1
    <3>2. resolveRequiredApprovalLevel(t.total) \in {3, 4}
      BY <1>1, OperatorTypes DEF Transaction
    <3> QED BY <3>1, <3>2 DEF NewBill
  <2>2. CASE b \in Bills
    <3>1. /\ bill[b].required = resolveRequiredApprovalLevel(bill[b].total)
          /\ bill[b].level <= bill[b].required
          /\ \A l \in 1 .. (bill[b].level - 1) : ApprovedAt(b, l)
          /\ bill[b].appr = "APPROVED" =>
                bill[b].level = bill[b].required /\ ApprovedAt(b, bill[b].level)
          /\ bill[b] \in Bill
      BY <1>2, <2>2 DEF ApprovalInv, LevelsBacked
    <3>2. CASE HoldsBill(r, b) /\ t.op = "APPROVE"
      <4>1. /\ t.pc = "answer" /\ t.bill = b
            /\ t.required = bill[b].required /\ t.level <= t.required
            /\ \A l \in 1 .. (t.level - 1) : ApprovedAt(b, l)
            /\ \E u \in {t.user, t.from} \cap User : isRoleAllowedForLevel(u, t.level)
        BY <1>1, <3>2 DEF HoldsBill, Informed
      <4>2. t.level \in Level /\ t.required \in {3, 4}
        BY <1>1 DEF Transaction
      <4>3. ASSUME NEW n, n = t.level PROVE ApprovedAt(b, n)'
        <5>1. decision'[r] = NewDecision(r) /\ NewDecision(r) # None
          BY <1>2, <3>2, <4>1 DEF HasDecision
        <5>2. /\ NewDecision(r).bill = b /\ NewDecision(r).level = n
              /\ NewDecision(r).action = "APPROVE"
              /\ NewDecision(r).by = t.user /\ NewDecision(r).from = t.from
          BY <3>2, <4>1, <4>3 DEF NewDecision
        <5> QED BY <4>1, <4>3, <5>1, <5>2 DEF ApprovedAt, isRoleAllowedForLevel
      <4>4. \A l \in 1 .. t.level : ApprovedAt(b, l)'
        <5>1. \A l \in 1 .. t.level : l = t.level \/ l \in 1 .. (t.level - 1)
          BY <4>2 DEF Level
        <5> QED BY <1>7, <4>1, <4>3, <5>1
      <4>5. bill'[b] = Approved(r, bill[b])
        BY <1>2, <2>2, <3>2 DEF Updated
      <4>6. CASE t.level >= t.required
        <5>1. t.level = t.required
          BY <4>1, <4>2, <4>6 DEF Level
        <5>2. /\ bill'[b].appr = "APPROVED" /\ bill'[b].level = t.required
              /\ bill'[b].required = t.required /\ bill'[b].total = bill[b].total
          BY <3>1, <4>5, <4>6 DEF Approved, Bill
        <5> QED BY <3>1, <4>1, <4>2, <4>4, <5>1, <5>2 DEF Level
      <4>7. CASE ~(t.level >= t.required)
        <5>1. ClampLevel(t.level + 1) = t.level + 1 /\ t.level + 1 <= t.required
          BY <4>2, <4>7 DEF ClampLevel, Level
        <5>2. /\ bill'[b].appr = "PENDING" /\ bill'[b].level = t.level + 1
              /\ bill'[b].required = t.required /\ bill'[b].total = bill[b].total
          BY <3>1, <4>5, <4>7, <5>1 DEF Approved, Bill
        <5>3. 1 .. (bill'[b].level - 1) = 1 .. t.level
          BY <4>2, <5>2 DEF Level
        <5> QED BY <3>1, <4>1, <4>4, <5>1, <5>2, <5>3
      <4> QED BY <4>6, <4>7
    <3>3. CASE ~(HoldsBill(r, b) /\ t.op = "APPROVE")
      <4>1. /\ bill'[b].total = bill[b].total /\ bill'[b].required = bill[b].required
            /\ bill'[b].level = bill[b].level
            /\ bill'[b].appr = "APPROVED" => bill[b].appr = "APPROVED"
        <5>1. CASE ~HoldsBill(r, b)
          BY <1>2, <2>2, <5>1
        <5>2. CASE HoldsBill(r, b) /\ t.op = "REJECT"
          <6>1. bill'[b] = [bill[b] EXCEPT !.appr = "REJECTED"]
            BY <1>2, <2>2, <5>2 DEF Updated
          <6> QED BY <3>1, <6>1 DEF Bill
        <5>3. CASE HoldsBill(r, b) /\ t.op \notin Deciding
          <6>1. bill'[b] = [bill[b] EXCEPT !.st = NextStatus(r)]
            BY <1>2, <2>2, <5>3 DEF Updated
          <6> QED BY <3>1, <6>1 DEF Bill
        <5> QED BY <3>3, <5>1, <5>2, <5>3
      <4> QED BY <1>7, <3>1, <4>1
    <3> QED BY <3>2, <3>3
  <2> QED BY <2>1, <2>2
<1>9. /\ \A p \in Payments' : payment'[p].bill \in Bills'
      /\ PaidIsBacked'
  <2> SUFFICES ASSUME NEW p \in Payments'
               PROVE  /\ payment'[p].bill \in Bills'
                      /\ payment'[p].op = "PAY" => FullyBacked(payment[p].bill)'
    BY DEF PaidIsBacked
  <2>1. CASE p \in Payments
    <3>1. payment'[p] = payment[p] /\ payment[p].bill \in Bills
      BY <1>2, <2>1 DEF RowsStay, ApprovalInv
    <3>2. payment[p].op = "PAY" => FullyBacked(payment[p].bill)
      BY <2>1 DEF ApprovalInv, PaidIsBacked
    <3>3. \A b \in Bills : b \in Bills' /\ (FullyBacked(b) => FullyBacked(b)')
      BY <1>2, BackingStays DEF RowsStay
    <3>4. payment[p].op = "PAY" => FullyBacked(payment[p].bill)'
      <4>1. ASSUME NEW b \in Bills, FullyBacked(b)', payment'[p].bill = b
            PROVE  FullyBacked(payment[p].bill)'
        BY <4>1 DEF FullyBacked, ApprovedAt
      <4> QED BY <3>1, <3>2, <3>3, <4>1
    <3> QED BY <3>1, <3>3, <3>4
  <2>2. CASE p \notin Payments
    <3>1. HasPayment(r) /\ payment'[p] = NewPayment(r) /\ t.op \in Settling
      BY <1>2, <2>2 DEF HasPayment
    <3>2. NewPayment(r).bill = t.bill /\ NewPayment(r).op = t.op
      BY DEF NewPayment
    <3>3. t.bill \in Bills /\ t.bill \in Bills'
      BY <1>1, <1>2, <3>1 DEF WellFormed, RowsStay
    <3>4. t.op = "PAY" => FullyBacked(t.bill)
      BY <1>1, <3>1 DEF Informed, HasPayment, WellFormed
    <3>5. t.op = "PAY" => FullyBacked(payment[p].bill)'
      <4>1. ASSUME NEW b \in Bills, FullyBacked(b), payment'[p].bill = b
            PROVE  FullyBacked(payment[p].bill)'
        <5>1. FullyBacked(b)'
          BY <1>2, <4>1, BackingStays
        <5> QED BY <4>1, <5>1 DEF FullyBacked, ApprovedAt
      <4> QED BY <3>1, <3>2, <3>3, <3>4, <4>1
    <3> QED BY <3>1, <3>2, <3>3, <3>5
  <2> QED BY <2>1, <2>2
<1> QED BY <1>5, <1>6, <1>8, <1>9 DEF ApprovalInv

-----------------------------------------------------------------------------
(* A request commits at the end of its handler, or where it was cut. *)
Commits(r) ==
    /\ tx[r].pc \in Running /\ Persist(r)
    /\ End(r, "committed") \/ End(r, "cut")

(* Every step is sound, commits or changes nothing. *)
LEMMA StepKinds ==
    ASSUME ApprovalInv, [Next]_vars
    PROVE  (\E r \in Req : Sound(r) \/ Commits(r)) \/ UNCHANGED vars
<1>1. ASSUME NEW r \in Req, Arrive(r) PROVE Sound(r)
  BY <1>1, ArriveSound
<1>2. ASSUME NEW r \in Req, Advance(r) PROVE Sound(r) \/ Commits(r)
  <2>1. CASE Commit(r)
    BY <2>1 DEF Commit, Commits
  <2> QED BY <1>2, <2>1, AdvanceSound
<1>3. ASSUME NEW r \in Req, Disconnect(r) PROVE Commits(r)
  BY <1>3 DEF Disconnect, InFlight, Commits
<1>4. ASSUME NEW r \in Req, Timeout(r) PROVE Sound(r)
  BY <1>4, EndSound DEF Timeout, InFlight
<1> QED BY <1>1, <1>2, <1>3, <1>4 DEF Next, Fail, Quiescent

(* Every step of every handler keeps the invariant. *)
LEMMA ApprovalInvStep == ApprovalInv /\ [Next]_vars => ApprovalInv'
<1> SUFFICES ASSUME ApprovalInv, [Next]_vars PROVE ApprovalInv'
  OBVIOUS
<1>1. ASSUME NEW r \in Req, Sound(r) PROVE ApprovalInv'
  BY <1>1, QuietStep
<1>2. ASSUME NEW r \in Req, Commits(r) PROVE ApprovalInv'
  BY <1>2, PersistStep DEF Commits
<1>5. CASE UNCHANGED vars
  <2>1. /\ bill' = bill /\ decision' = decision /\ payment' = payment
        /\ granted' = granted /\ line' = line /\ tx' = tx
    BY <1>5 DEF vars
  <2>2. /\ Bills' = Bills /\ Payments' = Payments
        /\ \A b, l : ApprovedAt(b, l)' <=> ApprovedAt(b, l)
        /\ \A b : FullyBacked(b)' <=> FullyBacked(b)
    BY <2>1 DEF Bills, Payments, ApprovedAt, FullyBacked
  <2>3. TypeOK' /\ LevelsBacked' /\ PaidIsBacked'
    BY <2>1, <2>2 DEF ApprovalInv, TypeOK, LevelsBacked, PaidIsBacked
  <2>4. \A r \in Req : WellFormed(r, tx[r])' /\ Informed(tx[r])'
    BY <2>1, <2>2 DEF ApprovalInv, WellFormed, Informed
  <2> QED BY <2>1, <2>2, <2>3, <2>4 DEF ApprovalInv
<1> QED BY <1>1, <1>2, <1>5, StepKinds

(* The invariant holds when the company has no supplier invoice yet. *)
LEMMA ApprovalInvInit == Init => ApprovalInv
<1> SUFFICES ASSUME Init PROVE ApprovalInv
  OBVIOUS
<1>1. Blank("idle") \in Transaction /\ Blank("idle").op = "CREATE" /\ Blank("idle").pc = "idle"
  BY BlankType
<1>2. Bills = {} /\ Payments = {}
  BY DEF Init, Bills, Payments
<1>3. TypeOK
  BY <1>1 DEF Init, TypeOK
<1>4. \A r \in Req : WellFormed(r, tx[r]) /\ Informed(tx[r])
  BY <1>1 DEF Init, WellFormed, Informed
<1> QED BY <1>2, <1>3, <1>4 DEF ApprovalInv, LevelsBacked, PaidIsBacked

(* Every reachable state satisfies the inductive invariant of the approval
   and payment handlers of purchases.ts and bank-reconciliation.ts. *)
THEOREM ApprovalInvariance == Spec => []ApprovalInv
<1>1. Init => ApprovalInv
  BY ApprovalInvInit
<1>2. ApprovalInv /\ [Next]_vars => ApprovalInv'
  BY ApprovalInvStep
<1> QED BY <1>1, <1>2, PTL DEF Spec

(* Rows and transactions of the payables always have their types. *)
THEOREM PayablesTypeCorrect == Spec => []TypeOK
<1>1. ApprovalInv => TypeOK
  BY DEF ApprovalInv
<1> QED BY <1>1, ApprovalInvariance, PTL

(* approveSupplierInvoice never reaches APPROVED without an approval of every
   required level by an entitled user, for any number of concurrent, cut or
   timed-out requests. *)
THEOREM ApprovalsAreBacked == Spec => []ApprovedIsBacked
<1>1. ApprovalInv => ApprovedIsBacked
  <2> SUFFICES ASSUME ApprovalInv, NEW b \in Bills, bill[b].appr = "APPROVED"
               PROVE  FullyBacked(b)
    BY DEF ApprovedIsBacked
  <2>1. /\ bill[b].required = resolveRequiredApprovalLevel(bill[b].total)
        /\ bill[b].level = bill[b].required /\ ApprovedAt(b, bill[b].level)
        /\ \A l \in 1 .. (bill[b].level - 1) : ApprovedAt(b, l)
        /\ bill[b].level \in Level
    BY DEF ApprovalInv, TypeOK, LevelsBacked, Bills, Bill
  <2>2. \A l \in 1 .. bill[b].level : l = bill[b].level \/ l \in 1 .. (bill[b].level - 1)
    BY <2>1 DEF Level
  <2> QED BY <2>1, <2>2 DEF FullyBacked
<1> QED BY <1>1, ApprovalInvariance, PTL

(* The payment route of purchases.ts pays only what was approved in full, even
   when the approval it read is reopened or rejected before it commits. *)
THEOREM PaymentsAreBacked == Spec => []PaidIsBacked
<1>1. ApprovalInv => PaidIsBacked
  BY DEF ApprovalInv
<1> QED BY <1>1, ApprovalInvariance, PTL
-----------------------------------------------------------------------------
(* Requests that come one at a time. *)

(* What an invoice has been paid is a natural number. *)
LEMMA PaidNat ==
    ASSUME SerialInv, NEW b
    PROVE  Paid(b) \in Nat
<1> DEFINE f == [p \in Payments |-> payment[p].amount]
           S == PaymentsOf(b)
<1>1. \A p \in Payments : payment[p] \in Payment
  BY DEF SerialInv, ApprovalInv, TypeOK, Payments
<1>2. \A p \in S : f[p] \in Nat
  BY <1>1 DEF Payment, PaymentsOf
<1>3. IsFiniteSet(S)
  BY FS_Subset DEF SerialInv, PaymentsOf
<1> HIDE DEF f, S
<1>4. SumFunctionOnSet(f, S) \in Nat
  BY <1>2, <1>3, SumNat
<1> QED BY <1>4 DEF Paid, SumOf, f, S

(* A commit adds its payment, if it has one, to what its invoice was paid. *)
LEMMA PaidEffect ==
    ASSUME SerialInv, NEW r \in Req, tx[r].pc \in Running, Persist(r), NEW b
    PROVE  Paid(b)' = IF HasPayment(r) /\ b = tx[r].bill THEN tx[r].amount + Paid(b) ELSE Paid(b)
<1> DEFINE f == [p \in Payments |-> payment[p].amount]
           S == {p \in Payments : payment[p].bill = b}
           g == [p \in Payments' |-> payment'[p].amount]
           T == {p \in Payments' : payment'[p].bill = b}
<1>1. /\ \A q \in Req \ {r} : payment'[q] = payment[q]
      /\ payment'[r] = IF HasPayment(r) THEN NewPayment(r) ELSE None
      /\ Payments' = IF HasPayment(r) THEN Payments \union {r} ELSE Payments
      /\ r \notin Payments /\ payment' \in [Req -> Payment \cup {None}]
  BY PersistEffect DEF SerialInv
<1>2. NewPayment(r).bill = tx[r].bill /\ NewPayment(r).amount = tx[r].amount
  BY DEF NewPayment
<1>3. Payments \subseteq Req /\ \A p \in Payments : payment'[p] = payment[p]
  BY <1>1 DEF Payments
<1>4. \A p \in Payments' : payment'[p] \in Payment
  BY <1>1 DEF Payments
<1>5. \A p \in Payments' : g[p] \in Int
  BY <1>4 DEF Payment
<1>6. IsFiniteSet(S)
  BY FS_Subset DEF SerialInv
<1>7. S \subseteq Payments' /\ r \notin S
  BY <1>1
<1>8. \A p \in S : f[p] = g[p]
  BY <1>3, <1>7
<1>9. T = IF HasPayment(r) /\ b = tx[r].bill THEN S \union {r} ELSE S
  BY <1>1, <1>2, <1>3
<1>10. HasPayment(r) => r \in Payments' /\ g[r] = tx[r].amount
  BY <1>1, <1>2
<1>11. SumFunctionOnSet(f, S) = Paid(b)
  BY DEF Paid, SumOf, PaymentsOf
<1>12. SumFunctionOnSet(g, T) = Paid(b)'
  BY DEF Paid, SumOf, PaymentsOf
<1> HIDE DEF f, g, S, T
<1>13. SumFunctionOnSet(g, S) = SumFunctionOnSet(f, S)
  BY <1>6, <1>8, SumSame
<1>14. CASE HasPayment(r) /\ b = tx[r].bill
  <2>1. \A y \in S \union {r} : g[y] \in Int
    BY <1>5, <1>7, <1>10, <1>14
  <2>2. SumFunctionOnSet(g, S \union {r}) = g[r] + SumFunctionOnSet(g, S)
    BY <1>6, <1>7, <2>1, SumAdd
  <2> QED BY <1>9, <1>10, <1>11, <1>12, <1>13, <1>14, <2>2
<1>15. CASE ~(HasPayment(r) /\ b = tx[r].bill)
  BY <1>9, <1>11, <1>12, <1>13, <1>15
<1> QED BY <1>14, <1>15

(* A step of the history: overlapping is remembered. *)
Remembers == overlapped' = (overlapped \/ Cardinality(InFlight') > 1)

(* After a step of one request the requests in flight are finitely many. *)
LEMMA InFlightFinite ==
    ASSUME SerialInv, NEW r \in Req, \A q \in Req \ {r} : tx'[q] = tx[q]
    PROVE  IsFiniteSet(InFlight')
<1>1. InFlight' \in SUBSET (InFlight \union {r})
  BY DEF InFlight
<1>2. IsFiniteSet(InFlight \union {r})
  BY FS_AddElement DEF SerialInv
<1> QED BY <1>1, <1>2, FS_Subset

(* A history without overlap has at most one request in flight. *)
LEMMA SerialAfter ==
    ASSUME Remembers, IsFiniteSet(InFlight'), ~overlapped'
    PROVE  ~overlapped /\ \A p, q \in InFlight' : p = q
<1>1. ~overlapped /\ ~(Cardinality(InFlight') > 1)
  BY DEF Remembers
<1> QED BY <1>1, AtMostOne

(* A sound step keeps the serial guarantees. *)
LEMMA QuietSerial ==
    ASSUME SerialInv, NEW r \in Req, Sound(r), Remembers
    PROVE  SerialInv'
<1>1. ApprovalInv /\ ApprovalInv'
  BY QuietStep DEF SerialInv
<1>2. bill' = bill /\ payment' = payment
  BY DEF Sound, Alone, Quiet
<1>3. tx' = [tx EXCEPT ![r] = tx'[r]] /\ tx \in [Req -> Transaction]
  BY <1>1 DEF ApprovalInv, TypeOK, Sound, Alone
<1>4. \A q \in Req \ {r} : tx'[q] = tx[q]
  BY <1>3
<1>5. Bills' = Bills /\ Payments' = Payments /\ \A b : Paid(b)' = Paid(b)
  BY <1>2 DEF Bills, Payments, Paid, SumOf, PaymentsOf
<1>6. overlapped' \in BOOLEAN
  BY DEF Remembers, SerialInv
<1>7. IsFiniteSet(InFlight')
  BY <1>4, InFlightFinite
<1>8. ASSUME ~overlapped'
      PROVE  /\ \A p, q \in InFlight' : p = q
             /\ \A q \in Req : Current(tx[q])'
             /\ NoOverpayment'
  <2>1. ~overlapped /\ \A p, q \in InFlight' : p = q
    BY <1>7, <1>8, SerialAfter
  <2>2. ASSUME NEW q \in Req PROVE Current(tx[q])'
    <3>1. Current(tx'[q])
      BY <1>4, <2>1 DEF SerialInv, Sound
    <3>2. OpenAmount(tx[q].bill)' = OpenAmount(tx'[q].bill)
      BY <1>2 DEF Paid, SumOf, PaymentsOf, Payments, OpenAmount
    <3> QED BY <1>2, <3>1, <3>2 DEF Current
  <2>3. NoOverpayment'
    BY <1>2, <1>5, <2>1 DEF SerialInv, NoOverpayment
  <2> QED BY <2>1, <2>2, <2>3
<1> QED BY <1>1, <1>5, <1>6, <1>7, <1>8 DEF SerialInv

(* A commit keeps the serial guarantees: what the request read has not changed
   since, because nobody else was in flight. *)
LEMMA CommitSerial ==
    ASSUME SerialInv, NEW r \in Req, Commits(r), Remembers
    PROVE  SerialInv'
<1> DEFINE t == tx[r]
<1>1. ApprovalInv /\ ApprovalInv' /\ t.pc \in Running /\ Persist(r)
  BY PersistStep DEF SerialInv, Commits
<1>2. PICK label \in {"committed", "cut"} : End(r, label)
  BY DEF Commits
<1>3. /\ tx' = [tx EXCEPT ![r] = Blank(label)] /\ tx \in [Req -> Transaction]
      /\ Blank(label).pc = label /\ t \in Transaction /\ WellFormed(r, t)
  BY <1>1, <1>2, BlankType DEF End, ApprovalInv, TypeOK
<1>4. tx'[r] = Blank(label) /\ \A q \in Req \ {r} : tx'[q] = tx[q]
  BY <1>3
<1>5. /\ \A b \in Bills' \ Bills : b = r /\ HasBill(r) /\ bill'[b] = NewBill(r)
      /\ Payments' = IF HasPayment(r) THEN Payments \union {r} ELSE Payments
      /\ \A b \in Bills : bill'[b].total = bill[b].total
  BY <1>1, PersistEffect DEF RowsStay
<1>6. \A b : /\ Paid(b)' = IF HasPayment(r) /\ b = t.bill THEN t.amount + Paid(b) ELSE Paid(b)
             /\ Paid(b) \in Nat
  BY <1>1, PaidEffect, PaidNat
<1>7. t.amount \in Nat /\ t.total \in Nat /\ \A b \in Bills : bill[b].total \in Nat
  BY <1>1, <1>3 DEF Transaction, ApprovalInv, TypeOK, Bills, Bill
<1>8. overlapped' \in BOOLEAN
  BY DEF Remembers, SerialInv
<1>9. IsFiniteSet(InFlight') /\ IsFiniteSet(Payments')
  BY <1>4, <1>5, InFlightFinite, FS_AddElement DEF SerialInv
<1>10. ASSUME ~overlapped'
       PROVE  /\ \A p, q \in InFlight' : p = q
              /\ \A q \in Req : Current(tx[q])'
              /\ NoOverpayment'
  <2>1. ~overlapped /\ \A p, q \in InFlight' : p = q
    BY <1>9, <1>10, SerialAfter
  <2>2. Current(t) /\ NoOverpayment /\ \A p, q \in InFlight : p = q
    BY <2>1 DEF SerialInv
  <2>3. ASSUME NEW q \in Req PROVE Current(tx[q])'
    <3>1. tx'[q].pc \notin Running
      <4>1. CASE q = r
        BY <1>3, <1>4, <4>1
      <4>2. CASE q # r
        <5>1. q \notin InFlight /\ tx'[q] = tx[q]
          BY <1>1, <1>4, <2>2, <4>2 DEF InFlight
        <5> QED BY <5>1 DEF InFlight
      <4> QED BY <4>1, <4>2
    <3> QED BY <3>1 DEF Current
  <2>4. NoOverpayment'
    <3> SUFFICES ASSUME NEW b \in Bills' PROVE Paid(b)' <= bill'[b].total
      BY DEF NoOverpayment
    <3>1. CASE b \notin Bills
      <4>1. bill'[b].total = t.total /\ ~HasPayment(r)
        BY <1>5, <3>1 DEF NewBill, HasBill, HasPayment
      <4>2. PaymentsOf(b) = {}
        BY <1>1, <3>1 DEF ApprovalInv, PaymentsOf
      <4>3. Paid(b) = 0
        BY <4>2, SumEmpty DEF Paid, SumOf
      <4> QED BY <1>6, <1>7, <4>1, <4>3
    <3>2. CASE b \in Bills
      <4>1. Paid(b) <= bill[b].total /\ bill'[b].total = bill[b].total
        BY <1>5, <2>2, <3>2 DEF NoOverpayment
      <4>2. CASE HasPayment(r) /\ b = t.bill
        <5>1. t.amount <= OpenAmount(b)
          BY <2>2, <4>2 DEF Current, HasPayment
        <5>2. t.amount + Paid(b) <= bill[b].total
          BY <1>6, <1>7, <3>2, <4>1, <5>1 DEF OpenAmount
        <5>3. Paid(b)' = t.amount + Paid(b)
          BY <1>6, <4>2
        <5> QED BY <4>1, <5>2, <5>3
      <4>3. CASE ~(HasPayment(r) /\ b = t.bill)
        <5>1. Paid(b)' = Paid(b)
          BY <1>6, <4>3
        <5> QED BY <4>1, <5>1
      <4> QED BY <4>2, <4>3
    <3> QED BY <3>1, <3>2
  <2> QED BY <2>1, <2>2, <2>3, <2>4
<1> QED BY <1>1, <1>8, <1>9, <1>10 DEF SerialInv

(* Every step keeps the invariant of requests that come one at a time. *)
LEMMA SerialStep ==
    SerialInv /\ [HistoryNext]_<<vars, overlapped, banked>> => SerialInv'
<1> SUFFICES ASSUME SerialInv, [HistoryNext]_<<vars, overlapped, banked>> PROVE SerialInv'
  OBVIOUS
<1>1. ApprovalInv /\ [Next]_vars
  BY DEF SerialInv, HistoryNext
<1>2. CASE UNCHANGED vars
  <2>1. ApprovalInv' /\ bill' = bill /\ payment' = payment /\ tx' = tx
    BY <1>1, <1>2, ApprovalInvStep DEF vars
  <2>2. overlapped' \in BOOLEAN /\ (~overlapped' => ~overlapped)
    BY DEF SerialInv, HistoryNext
  <2>3. /\ Bills' = Bills /\ Payments' = Payments /\ InFlight' = InFlight
        /\ \A b : Paid(b)' = Paid(b)
    BY <2>1 DEF Bills, Payments, InFlight, Paid, SumOf, PaymentsOf
  <2>4. \A r \in Req : Current(tx[r]) => Current(tx[r])'
    <3>1. \A r \in Req : OpenAmount(tx[r].bill)' = OpenAmount(tx[r].bill)
      BY <2>1 DEF Paid, SumOf, PaymentsOf, Payments, OpenAmount
    <3> QED BY <2>1, <3>1 DEF Current
  <2>5. NoOverpayment => NoOverpayment'
    BY <2>1, <2>3 DEF NoOverpayment
  <2> QED BY <2>1, <2>2, <2>3, <2>4, <2>5 DEF SerialInv
<1>3. CASE HistoryNext /\ ~UNCHANGED vars
  <2>1. Remembers
    BY <1>3 DEF HistoryNext, Remembers
  <2>2. PICK r \in Req : Sound(r) \/ Commits(r)
    BY <1>1, <1>3, StepKinds
  <2> QED BY <2>1, <2>2, QuietSerial, CommitSerial
<1> QED BY <1>2, <1>3

(* The invariant holds when the company has no supplier invoice yet. *)
LEMMA SerialInit == HistoryInit => SerialInv
<1> SUFFICES ASSUME HistoryInit PROVE SerialInv
  OBVIOUS
<1>1. ApprovalInv /\ overlapped = FALSE
  BY ApprovalInvInit DEF HistoryInit
<1>2. Bills = {} /\ Payments = {} /\ InFlight = {}
  BY DEF HistoryInit, Init, Bills, Payments, InFlight, Blank
<1>3. \A r \in Req : tx[r].pc = "idle"
  BY DEF HistoryInit, Init, Blank
<1>4. \A r \in Req : Current(tx[r])
  BY <1>3 DEF Current
<1> QED BY <1>1, <1>2, <1>4, FS_EmptySet DEF SerialInv, NoOverpayment

(* Every reachable state satisfies the invariant of requests that come one at
   a time. *)
THEOREM SerialInvariance == HistorySpec => []SerialInv
<1> QED BY SerialInit, SerialStep, PTL DEF HistorySpec

(* As long as no two requests ever overlap, the payment route and
   reconciliation pay no supplier invoice beyond its total, wherever a
   connection is cut and however many requests there are. *)
THEOREM SerialPaymentsNeverOverpay == HistorySpec => []SerialPayments
<1>1. SerialInv => SerialPayments
  BY DEF SerialInv, SerialPayments
<1> QED BY <1>1, SerialInvariance, PTL

(* Nor do they let an approval reopen what was decided: the handler commits
   on the row it read. *)
LEMMA DecisionStep ==
    SerialInv /\ [HistoryNext]_<<vars, overlapped, banked>> =>
        [~overlapped' => StaysRejected /\ StaysDecided]_vars
<1> SUFFICES ASSUME SerialInv, HistoryNext, ~overlapped', ~UNCHANGED vars
             PROVE  StaysRejected /\ StaysDecided
  OBVIOUS
<1>1. ApprovalInv /\ [Next]_vars /\ ~overlapped
  BY DEF SerialInv, HistoryNext
<1>2. PICK r \in Req : Sound(r) \/ Commits(r)
  BY <1>1, StepKinds
<1>3. CASE Sound(r)
  <2>1. bill' = bill
    BY <1>3 DEF Sound, Alone, Quiet
  <2> QED BY <2>1 DEF StaysRejected, StaysDecided
<1>4. CASE Commits(r)
  <2> DEFINE t == tx[r]
  <2>1. \A b \in Bills : bill'[b] = IF HoldsBill(r, b) THEN Updated(r, bill[b]) ELSE bill[b]
    BY <1>1, <1>4, PersistEffect DEF Commits
  <2>2. Current(t)
    BY <1>1 DEF SerialInv
  <2>3. \A b \in Bills : bill[b] \in Bill
    BY <1>1 DEF ApprovalInv, TypeOK, Bills
  <2>4. ASSUME NEW b \in Bills, bill[b].appr \in {"APPROVED", "REJECTED"}
        PROVE  bill'[b].appr \in {bill[b].appr, "REJECTED"}
    <3>1. CASE ~HoldsBill(r, b)
      BY <2>1, <3>1
    <3>2. CASE HoldsBill(r, b) /\ t.op = "APPROVE"
      BY <2>2, <2>4, <3>2 DEF HoldsBill, Current
    <3>3. CASE HoldsBill(r, b) /\ t.op = "REJECT"
      <4>1. bill'[b] = [bill[b] EXCEPT !.appr = "REJECTED"]
        BY <2>1, <3>3 DEF Updated
      <4> QED BY <2>3, <4>1 DEF Bill
    <3>4. CASE HoldsBill(r, b) /\ t.op \notin Deciding
      <4>1. bill'[b] = [bill[b] EXCEPT !.st = NextStatus(r)]
        BY <2>1, <3>4 DEF Updated
      <4> QED BY <2>3, <4>1 DEF Bill
    <3> QED BY <3>1, <3>2, <3>3, <3>4
  <2> QED BY <2>4 DEF StaysRejected, StaysDecided
<1> QED BY <1>2, <1>3, <1>4

(* As long as no two requests ever overlap, a rejected supplier invoice stays
   rejected and an approved one is not approved again from a lower level, for
   any sequence of approvals, rejections, payments and cut connections. *)
THEOREM SerialDecisionsAreFinal == HistorySpec => SerialDecisions
<1> QED BY SerialInvariance, DecisionStep, PTL DEF HistorySpec, SerialDecisions
=============================================================================
