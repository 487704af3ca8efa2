------------------------- MODULE ReceivablesProofs -------------------------
(***************************************************************************)
(* Proofs about the receipts of client invoices, for any set of requests,  *)
(* bank lines, totals and amounts, with or without disconnecting clients.  *)
(***************************************************************************)
EXTENDS MCReceivables, SumProofs

USE DEF Op, Settling, Running, Finished

-----------------------------------------------------------------------------
(* Operators. *)

(* Rounded amounts are amounts, and a transaction that holds nothing is well
   typed and has read nothing. *)
LEMMA BlankType ==
    /\ \A n \in Nat : Round2(n) \in Nat
    /\ \A label \in {"idle"} \cup Running \cup Finished :
          /\ Blank(label) \in Transaction
          /\ Blank(label).op = "INVOICE" /\ Blank(label).pc = label
          /\ Blank(label).total \in Nat
<1>1. \A n \in Nat : Round2(n) \in Nat
  BY DEF Round2
<1>2. 0 \in Nat /\ 0 \in Int
  OBVIOUS
<1> QED BY <1>1, <1>2 DEF Blank, Transaction, Kind

-----------------------------------------------------------------------------
(* Steps that commit nothing. *)

Alone(r) == tx' = [tx EXCEPT ![r] = tx'[r]] /\ Quiet

(* A step that only moves the transaction of r, from one that knows what the
   tables hold to another that does. *)
Sound(r) ==
    /\ Alone(r) /\ tx'[r] \in Transaction
    /\ tx[r].pc \notin Finished /\ tx'[r].pc \notin {"idle", "committed", "cut"}
    /\ WellFormed(r, tx'[r]) /\ Informed(tx'[r])
    /\ Current(tx[r]) => Current(tx'[r])

(* A request that ends without a commit leaves nothing behind. *)
LEMMA EndSound ==
    ASSUME CoverInv, NEW r \in Req, NEW label \in {"rejected", "rolledback"},
           tx[r].pc \in Running, End(r, label), Quiet
    PROVE  Sound(r)
<1>1. tx \in [Req -> Transaction]
  BY DEF CoverInv, TypeOK
<1>2. /\ Blank(label) \in Transaction /\ Blank(label).op = "INVOICE" /\ Blank(label).pc = label
      /\ Blank(label).total \in Nat
  BY BlankType
<1>3. Alone(r) /\ tx'[r] = Blank(label)
  BY <1>1, <1>2 DEF End, Alone
<1>4. WellFormed(r, tx'[r]) /\ Informed(tx'[r]) /\ Current(tx'[r])
  BY <1>2, <1>3 DEF WellFormed, Informed, Current, HasRead
<1> QED BY <1>2, <1>3, <1>4 DEF Sound

(* A handler that goes on keeps everything but the step it is at. *)
LEMMA GotoLocal ==
    ASSUME CoverInv, NEW r \in Req, NEW label \in Running, Goto(r, label)
    PROVE  /\ Alone(r) /\ tx'[r] \in Transaction /\ tx'[r].pc = label
           /\ tx'[r].op = tx[r].op /\ tx'[r].inv = tx[r].inv /\ tx'[r].line = tx[r].line
           /\ tx'[r].amount = tx[r].amount /\ tx'[r].paid = tx[r].paid
           /\ tx'[r].kind = tx[r].kind /\ tx'[r].total = tx[r].total
<1>1. tx \in [Req -> Transaction] /\ tx[r] \in Transaction
  BY DEF CoverInv, TypeOK
<1>2. tx'[r] = [tx[r] EXCEPT !.pc = label] /\ Alone(r)
  BY <1>1 DEF Goto, Alone
<1> QED BY <1>1, <1>2 DEF Transaction

(* How the transaction of a request begins. *)
FirstStep(t) ==
    /\ t.total \in Nat
    /\ t.op = "STORNO" => t.kind = "STORNO"
    /\ \/ t.pc = "create" /\ t.op = "INVOICE"
       \/ t.pc = "source" /\ t.op = "STORNO" /\ t.inv \in Invoices
       \/ t.pc = "read" /\ t.op = "PAY" /\ t.inv \in Invoices /\ t.line = None
       \/ t.pc = "line" /\ t.op = "RECONCILE" /\ t.inv \in Invoices /\ t.line \in BankLine
       \/ t.pc = "line" /\ t.op = "IGNORE" /\ t.line \in BankLine
       \/ t.pc = "match" /\ t.op = "IMPORT" /\ t.line \in BankLine /\ line[t.line] = "ABSENT"

(* An arriving request is sound: it has read nothing yet. *)
LEMMA ArriveSound ==
    ASSUME CoverInv, NEW r \in Req, Arrive(r)
    PROVE  Sound(r)
<1>1. tx \in [Req -> Transaction]
  BY DEF CoverInv, TypeOK
<1>2. tx[r].pc = "idle"
  BY DEF Arrive, CreateInvoice, CreateStorno, PayInvoice, ReconcileLine, IgnoreLine,
         ImportStatement, Start
<1>3. invoice[r] = None /\ payment[r] = None
  BY <1>2 DEF CoverInv, WellFormed
<1>4. ASSUME NEW t \in Transaction, Start(r, t), FirstStep(t) PROVE Sound(r)
  <2>1. Alone(r) /\ tx'[r] = t
    BY <1>1, <1>4 DEF Start, Alone
  <2>2. WellFormed(r, t) /\ Informed(t) /\ Current(t)
    BY <1>3, <1>4 DEF FirstStep, WellFormed, Informed, Current, HasRead
  <2>3. t.pc \notin {"idle", "committed", "cut"}
    BY <1>4 DEF FirstStep
  <2> QED BY <1>2, <1>4, <2>1, <2>2, <2>3 DEF Sound
<1>5. /\ 0 \in Nat /\ 0 \in Int /\ Invoices \subseteq Req
      /\ \A m \in Total \cup Amount : Round2(m) \in Nat /\ Round2(m) \in Int
  <2>1. Total \cup Amount \subseteq Nat
    BY ReceivablesConstants
  <2>2. \A m \in Nat : Round2(m) \in Nat /\ Round2(m) \in Int
    BY BlankType
  <2> QED BY <2>1, <2>2 DEF Invoices
<1>6. CASE CreateInvoice(r)
  <2>1. PICK k \in {"FISCAL", "PROFORMA"}, m \in Total, auto \in BOOLEAN :
            Start(r, [Blank("create") EXCEPT !.kind = k, !.total = Round2(m),
                                             !.auto = auto /\ k # "PROFORMA"])
    BY <1>6 DEF CreateInvoice
  <2> DEFINE t == [Blank("create") EXCEPT !.kind = k, !.total = Round2(m),
                                          !.auto = auto /\ k # "PROFORMA"]
  <2>2. t \in Transaction /\ FirstStep(t)
    <3>1. (auto /\ k # "PROFORMA") \in BOOLEAN
      OBVIOUS
    <3> DEFINE a == auto /\ k # "PROFORMA"
    <3> HIDE DEF a
    <3>2. [Blank("create") EXCEPT !.kind = k, !.total = Round2(m), !.auto = a]
            \in Transaction
      BY <1>5, <3>1 DEF Blank, Transaction, Kind, a
    <3> QED BY <1>5, <3>2 DEF Blank, FirstStep, a
  <2>3. Start(r, t)
    BY <2>1
  <2> HIDE DEF t
  <2> QED BY <1>4, <2>2, <2>3
<1>7. CASE CreateStorno(r)
  <2>1. PICK i \in Invoices, auto \in BOOLEAN :
            Start(r, [Blank("source") EXCEPT !.op = "STORNO", !.kind = "STORNO",
                                             !.inv = i, !.auto = auto])
    BY <1>7 DEF CreateStorno
  <2> DEFINE t == [Blank("source") EXCEPT !.op = "STORNO", !.kind = "STORNO",
                                          !.inv = i, !.auto = auto]
  <2>2. t \in Transaction /\ FirstStep(t)
    BY <1>5 DEF Blank, Transaction, FirstStep, Kind
  <2>3. Start(r, t)
    BY <2>1
  <2> HIDE DEF t
  <2> QED BY <1>4, <2>2, <2>3
<1>8. CASE PayInvoice(r)
  <2>1. PICK i \in Invoices, m \in Amount, auto \in BOOLEAN :
            Start(r, [Blank("read") EXCEPT !.op = "PAY", !.inv = i,
                                           !.amount = Round2(m), !.auto = auto])
    BY <1>8 DEF PayInvoice
  <2> DEFINE t == [Blank("read") EXCEPT !.op = "PAY", !.inv = i,
                                        !.amount = Round2(m), !.auto = auto]
  <2>2. t \in Transaction /\ FirstStep(t)
    BY <1>5 DEF Blank, Transaction, FirstStep, Kind
  <2>3. Start(r, t)
    BY <2>1
  <2> HIDE DEF t
  <2> QED BY <1>4, <2>2, <2>3
<1>9. CASE ReconcileLine(r)
  <2>1. PICK b \in BankLine, i \in Invoices, auto \in BOOLEAN :
            Start(r, [Blank("line") EXCEPT !.op = "RECONCILE", !.line = b, !.inv = i,
                                           !.auto = auto])
    BY <1>9 DEF ReconcileLine
  <2> DEFINE t == [Blank("line") EXCEPT !.op = "RECONCILE", !.line = b, !.inv = i,
                                        !.auto = auto]
  <2>2. t \in Transaction /\ FirstStep(t)
    BY <1>5 DEF Blank, Transaction, FirstStep, Kind
  <2>3. Start(r, t)
    BY <2>1
  <2> HIDE DEF t
  <2> QED BY <1>4, <2>2, <2>3
<1>10. CASE IgnoreLine(r)
  <2>1. PICK b \in BankLine : Start(r, [Blank("line") EXCEPT !.op = "IGNORE", !.line = b])
    BY <1>10 DEF IgnoreLine
  <2> DEFINE t == [Blank("line") EXCEPT !.op = "IGNORE", !.line = b]
  <2>2. t \in Transaction /\ FirstStep(t)
    BY <1>5 DEF Blank, Transaction, FirstStep, Kind
  <2>3. Start(r, t)
    BY <2>1
  <2> HIDE DEF t
  <2> QED BY <1>4, <2>2, <2>3
<1>11. CASE ImportStatement(r)
  <2>1. PICK b \in BankLine : /\ line[b] = "ABSENT"
                              /\ Start(r, [Blank("match") EXCEPT !.op = "IMPORT", !.line = b])
    BY <1>11 DEF ImportStatement
  <2> DEFINE t == [Blank("match") EXCEPT !.op = "IMPORT", !.line = b]
  <2>2. t \in Transaction /\ FirstStep(t)
    BY <1>5, <2>1 DEF Blank, Transaction, FirstStep, Kind
  <2>3. Start(r, t)
    BY <2>1
  <2> HIDE DEF t
  <2> QED BY <1>4, <2>2, <2>3
<1> QED BY <1>6, <1>7, <1>8, <1>9, <1>10, <1>11 DEF Arrive

(* The receipts of an invoice add up to a natural number. *)
LEMMA PaidNat ==
    ASSUME CoverInv, NEW i
    PROVE  Paid(i) \in Nat
<1> DEFINE f == [p \in Payments |-> payment[p].amount]
           S == {p \in Payments : payment[p].inv = i}
<1>1. \A p \in Payments : payment[p] \in Payment
  BY DEF CoverInv, TypeOK, Payments
<1>2. \A p \in S : f[p] \in Nat
  BY <1>1 DEF Payment
<1>3. IsFiniteSet(S)
  BY FS_Subset DEF CoverInv
<1> HIDE DEF f, S
<1>4. SumFunctionOnSet(f, S) \in Nat
  BY <1>2, <1>3, SumNat
<1> QED BY <1>4 DEF Paid, f, S

(* Every statement before the commit is sound: what a read finds is what the
   tables hold. *)
LEMMA AdvanceSound ==
    ASSUME CoverInv, NEW r \in Req, Advance(r), ~Commit(r)
    PROVE  Sound(r)
<1> DEFINE t == tx[r]
<1>1. /\ tx \in [Req -> Transaction] /\ t \in Transaction
      /\ WellFormed(r, t) /\ Informed(t)
  BY DEF CoverInv, TypeOK
<1>2. t.pc \in Running
  BY DEF Advance, ReadStornoSource, InsertInvoice, ReadLine, ReadInvoice, InsertPayment,
         UpdateStatus, PostNote, UpdateLine, Answer, Commit
<1>3. CASE Reject(r)
  BY <1>2, <1>3, EndSound DEF Reject
<1>4. ASSUME NEW label \in Running \ {"source", "create", "line", "read"}, Goto(r, label),
             HasRead(t) \/ t.op \notin Settling,
             t.op \in {"RECONCILE", "IGNORE"} => t.pc # "line" \/ line[t.line] = "UNMATCHED",
             label \in {"pay", "status"} => t.op \in Settling,
             label = "post" => t.op \in {"INVOICE", "STORNO"} \cup Settling,
             label = "match" => t.op \in {"RECONCILE", "IGNORE", "IMPORT"}
      PROVE  Sound(r)
  <2> DEFINE u == tx'[r]
  <2>1. /\ Alone(r) /\ u \in Transaction /\ u.pc = label
        /\ u.op = t.op /\ u.inv = t.inv /\ u.line = t.line
        /\ u.amount = t.amount /\ u.paid = t.paid
        /\ u.kind = t.kind /\ u.total = t.total
    BY <1>4, GotoLocal
  <2> HIDE DEF u
  <2>2. WellFormed(r, u)
    BY <1>1, <1>2, <1>4, <2>1 DEF WellFormed
  <2>3. HasRead(u) => HasRead(t)
    BY <1>4, <2>1 DEF HasRead
  <2>4. Informed(u)
    BY <1>1, <2>1, <2>3 DEF Informed
  <2>5. Current(t) => Current(u)
    BY <1>2, <1>4, <2>1, <2>3 DEF Current
  <2> QED BY <1>2, <1>4, <2>1, <2>2, <2>4, <2>5 DEF Sound, u
<1>5. CASE ReadStornoSource(r)
  <2>1. CASE /\ tx' = [tx EXCEPT ![r].pc = "create", ![r].total = -invoice[t.inv].total]
             /\ Quiet
    <3>1. t.inv \in Invoices /\ t.op = "STORNO" /\ invoice[t.inv] \in Invoice
      BY <1>1, <1>5 DEF ReadStornoSource, WellFormed, CoverInv, TypeOK, Invoices
    <3>2. -invoice[t.inv].total \in Int
      BY <3>1 DEF Invoice
    <3>3. tx'[r] = [t EXCEPT !.pc = "create", !.total = -invoice[t.inv].total] /\ Alone(r)
      BY <1>1, <2>1 DEF Alone
    <3>4. /\ tx'[r] \in Transaction /\ tx'[r].pc = "create" /\ tx'[r].op = t.op
          /\ tx'[r].inv = t.inv /\ tx'[r].line = t.line /\ tx'[r].kind = t.kind
      BY <1>1, <3>2, <3>3 DEF Transaction
    <3>5. WellFormed(r, tx'[r]) /\ Informed(tx'[r]) /\ Current(tx'[r])
      BY <1>1, <1>2, <3>1, <3>4 DEF WellFormed, Informed, Current, HasRead
    <3> QED BY <1>2, <3>3, <3>4, <3>5 DEF Sound
  <2> QED BY <1>3, <1>5, <2>1 DEF ReadStornoSource
<1>6. CASE InsertInvoice(r)
  <2>1. t.op \in {"INVOICE", "STORNO"}
    BY <1>1, <1>6 DEF InsertInvoice, WellFormed
  <2> QED BY <1>3, <1>4, <1>6, <2>1 DEF InsertInvoice
<1>7. CASE ReadLine(r)
  <2>1. t.op \in {"RECONCILE", "IGNORE"} /\ t.pc = "line" /\ t.line \in BankLine
    BY <1>1, <1>7 DEF ReadLine, WellFormed
  <2>2. CASE line[t.line] = "UNMATCHED" /\ t.op = "IGNORE" /\ Goto(r, "match")
    BY <1>4, <2>1, <2>2
  <2>3. CASE /\ line[t.line] = "UNMATCHED" /\ t.op = "RECONCILE" /\ LineAmount[t.line] > 0
             /\ tx' = [tx EXCEPT ![r].pc = "read", ![r].amount = LineAmount[t.line]]
             /\ Quiet
    <3>1. LineAmount[t.line] \in Nat
      BY <2>1, <2>3, ReceivablesConstants
    <3>2. tx'[r] = [t EXCEPT !.pc = "read", !.amount = LineAmount[t.line]] /\ Alone(r)
      BY <1>1, <2>3 DEF Alone
    <3>3. /\ tx'[r] \in Transaction /\ tx'[r].pc = "read" /\ tx'[r].op = t.op
          /\ tx'[r].inv = t.inv /\ tx'[r].line = t.line
          /\ tx'[r].kind = t.kind /\ tx'[r].total = t.total
      BY <1>1, <3>1, <3>2 DEF Transaction
    <3>4. WellFormed(r, tx'[r]) /\ Informed(tx'[r]) /\ Current(tx'[r])
      BY <1>1, <1>2, <2>1, <2>3, <3>3 DEF WellFormed, Informed, Current, HasRead
    <3> QED BY <1>2, <3>2, <3>3, <3>4 DEF Sound
  <2> QED BY <1>3, <1>7, <2>1, <2>2, <2>3 DEF ReadLine
<1>8. CASE ReadInvoice(r)
  <2>1. CASE /\ t.amount <= OpenAmount(t.inv)
             /\ tx' = [tx EXCEPT ![r].pc = "pay", ![r].paid = Paid(t.inv)]
             /\ Quiet
    <3>1. Paid(t.inv) \in Nat
      BY PaidNat
    <3>2. tx'[r] = [t EXCEPT !.pc = "pay", !.paid = Paid(t.inv)] /\ Alone(r)
      BY <1>1, <2>1 DEF Alone
    <3>3. /\ tx'[r] \in Transaction /\ tx'[r].pc = "pay" /\ tx'[r].op = t.op
          /\ tx'[r].inv = t.inv /\ tx'[r].line = t.line
          /\ tx'[r].kind = t.kind /\ tx'[r].total = t.total
          /\ tx'[r].amount = t.amount /\ tx'[r].paid = Paid(t.inv)
      BY <1>1, <3>1, <3>2 DEF Transaction
    <3>4. t.op \in Settling /\ t.pc = "read"
      BY <1>1, <1>8 DEF ReadInvoice, WellFormed
    <3>5. WellFormed(r, tx'[r]) /\ Informed(tx'[r])
      BY <1>1, <3>1, <3>3, <3>4 DEF WellFormed, Informed
    <3>6. Current(t) => Current(tx'[r])
      BY <2>1, <3>3, <3>4 DEF Current
    <3> QED BY <1>2, <3>2, <3>3, <3>5, <3>6 DEF Sound
  <2> QED BY <1>3, <1>8, <2>1 DEF ReadInvoice
<1>9. CASE InsertPayment(r)
  <2>1. t.op \in Settling /\ HasRead(t) /\ Goto(r, "status")
    BY <1>1, <1>9 DEF InsertPayment, WellFormed, HasRead
  <2> QED BY <1>4, <1>9, <2>1 DEF InsertPayment
<1>10. CASE UpdateStatus(r)
  <2>1. t.op \in Settling /\ HasRead(t) /\ t.pc = "status"
    BY <1>1, <1>10 DEF UpdateStatus, WellFormed, HasRead
  <2> QED BY <1>4, <1>10, <2>1 DEF UpdateStatus, AfterPosting
<1>11. CASE PostNote(r)
  <2>1. CASE Goto(r, AfterPosting(r))
    <3>1. (HasRead(t) \/ t.op \notin Settling) /\ t.pc = "post"
      BY <1>11 DEF PostNote, HasRead
    <3> QED BY <1>4, <2>1, <3>1 DEF AfterPosting
  <2>2. CASE End(r, "rolledback") /\ Quiet
    BY <1>2, <2>2, EndSound
  <2> QED BY <1>11, <2>1, <2>2 DEF PostNote
<1>12. CASE UpdateLine(r)
  BY <1>4, <1>12 DEF UpdateLine, HasRead
<1>13. CASE Answer(r)
  BY <1>4, <1>13 DEF Answer, HasRead
<1> QED BY <1>5, <1>6, <1>7, <1>8, <1>9, <1>10, <1>11, <1>12, <1>13 DEF Advance

(* Only one request more can be in flight after a step. *)
LEMMA InFlightFinite ==
    ASSUME CoverInv, NEW r \in Req, \A q \in Req \ {r} : tx'[q] = tx[q]
    PROVE  IsFiniteSet(InFlight')
<1>1. InFlight' \in SUBSET (InFlight \union {r})
  BY DEF InFlight
<1>2. IsFiniteSet(InFlight \union {r})
  BY FS_AddElement DEF CoverInv
<1> QED BY <1>1, <1>2, FS_Subset

(* A sound step keeps the invariant. *)
LEMMA QuietCover ==
    ASSUME CoverInv, NEW r \in Req, Sound(r)
    PROVE  CoverInv'
<1>1. invoice' = invoice /\ payment' = payment /\ note' = note /\ line' = line
  BY DEF Sound, Alone, Quiet
<1>2. tx \in [Req -> Transaction] /\ tx' = [tx EXCEPT ![r] = tx'[r]] /\ tx'[r] \in Transaction
  BY DEF CoverInv, TypeOK, Sound, Alone
<1>3. tx' \in [Req -> Transaction] /\ \A q \in Req \ {r} : tx'[q] = tx[q]
  BY <1>2
<1>4. TypeOK'
  BY <1>1, <1>3 DEF CoverInv, TypeOK
<1>5. Invoices' = Invoices /\ Payments' = Payments /\ \A i : Paid(i)' = Paid(i)
  BY <1>1 DEF Invoices, Payments, Paid
<1>6. /\ PaidIsCovered' /\ IsFiniteSet(Payments')
      /\ \A p \in Payments' : payment'[p].inv \in Invoices'
  BY <1>1, <1>5 DEF CoverInv, PaidIsCovered
<1>7. ASSUME NEW q \in Req PROVE WellFormed(q, tx[q])' /\ Informed(tx[q])'
  <2>1. WellFormed(q, tx'[q]) /\ Informed(tx'[q])
    BY <1>3 DEF CoverInv, Sound
  <2>2. Paid(tx[q].inv)' = Paid(tx'[q].inv)
    BY <1>1 DEF Paid, Payments
  <2> QED BY <1>1, <1>5, <2>1, <2>2 DEF WellFormed, Informed, HasRead
<1>8. IsFiniteSet(InFlight')
  BY <1>3, InFlightFinite
<1> QED BY <1>4, <1>6, <1>7, <1>8 DEF CoverInv

-----------------------------------------------------------------------------
(* Steps that commit. *)

(* What a commit does to the tables: a new invoice or receipt is r's own, an
   invoice keeps everything but its status. *)
LEMMA PersistEffect ==
    ASSUME CoverInv, NEW r \in Req, tx[r].pc \in Running, Persist(r)
    PROVE  /\ invoice' \in [Req -> Invoice \cup {None}]
           /\ \A i \in Invoices :
                 /\ i \in Invoices' /\ i # r
                 /\ invoice'[i].kind = invoice[i].kind /\ invoice'[i].total = invoice[i].total
                 /\ invoice'[i].st = IF HasStatus(r) /\ i = tx[r].inv THEN NextStatus(r)
                                     ELSE invoice[i].st
           /\ \A i \in Invoices' \ Invoices :
                 i = r /\ HasInvoice(r) /\ invoice'[i] = NewInvoice(r)
           /\ NewInvoice(r).st \in {"DRAFT", "ISSUED"}
           /\ payment' \in [Req -> Payment \cup {None}]
           /\ \A q \in Req \ {r} : payment'[q] = payment[q]
           /\ payment'[r] = IF HasPayment(r) THEN NewPayment(r) ELSE None
           /\ Payments' = IF HasPayment(r) THEN Payments \union {r} ELSE Payments
           /\ r \notin Payments
           /\ note' = IF HasNote(r) THEN note \cup {r} ELSE note
           /\ line' \in [BankLine -> {"ABSENT", "UNMATCHED", "MATCHED", "IGNORED"}]
<1> DEFINE t == tx[r]
<1>1. /\ t \in Transaction /\ WellFormed(r, t)
      /\ invoice \in [Req -> Invoice \cup {None}] /\ payment \in [Req -> Payment \cup {None}]
      /\ line \in [BankLine -> {"ABSENT", "UNMATCHED", "MATCHED", "IGNORED"}]
  BY DEF CoverInv, TypeOK
<1>2. invoice[r] = None /\ payment[r] = None
  BY <1>1 DEF WellFormed
<1>3. \A i \in Invoices : i \in Req /\ i # r /\ invoice[i] \in Invoice
  BY <1>1, <1>2 DEF Invoices
<1>4. NewInvoice(r) \in Invoice /\ NewInvoice(r).st \in {"DRAFT", "ISSUED"}
  BY <1>1 DEF NewInvoice, Invoice, Transaction
<1>5. HasStatus(r) => t.inv \in Invoices /\ HasPayment(r)
  BY <1>1 DEF HasStatus, HasPayment, WellFormed
<1>6. NextStatus(r) \in {"PARTIALLY_PAID", "PAID"}
  BY DEF NextStatus
<1> DEFINE f(i) == IF i = r /\ HasInvoice(r) THEN NewInvoice(r)
                   ELSE IF HasStatus(r) /\ i = t.inv
                   THEN [invoice[i] EXCEPT !.st = NextStatus(r)]
                   ELSE invoice[i]
<1>7. invoice' = [i \in Req |-> f(i)]
  BY DEF Persist
<1>8. ASSUME NEW i \in Invoices
      PROVE  /\ f(i) \in Invoice /\ f(i).kind = invoice[i].kind
             /\ f(i).total = invoice[i].total
             /\ f(i).st = IF HasStatus(r) /\ i = t.inv THEN NextStatus(r) ELSE invoice[i].st
  <2>1. invoice[i] \in Invoice /\ i # r
    BY <1>3
  <2>2. CASE HasStatus(r) /\ i = t.inv
    <3>1. f(i) = [invoice[i] EXCEPT !.st = NextStatus(r)]
      BY <2>1, <2>2
    <3> HIDE DEF f
    <3> QED BY <1>6, <2>1, <2>2, <3>1 DEF Invoice
  <2>3. CASE ~(HasStatus(r) /\ i = t.inv)
    BY <2>1, <2>3
  <2> QED BY <2>2, <2>3
<1>9. \A i \in Req \ Invoices : f(i) = IF i = r /\ HasInvoice(r) THEN NewInvoice(r) ELSE None
  BY <1>5 DEF Invoices
<1> HIDE DEF f
<1>10. \A i \in Req : f(i) \in Invoice \cup {None}
  BY <1>4, <1>8, <1>9
<1>11. invoice' \in [Req -> Invoice \cup {None}] /\ \A i \in Req : invoice'[i] = f(i)
  BY <1>7, <1>10
<1>12. ASSUME NEW i \in Invoices
       PROVE  /\ i \in Invoices' /\ i # r
              /\ invoice'[i].kind = invoice[i].kind /\ invoice'[i].total = invoice[i].total
              /\ invoice'[i].st = IF HasStatus(r) /\ i = t.inv THEN NextStatus(r)
                                  ELSE invoice[i].st
  <2>1. invoice'[i] = f(i) /\ invoice'[i] # None
    BY <1>3, <1>8, <1>11, ReceivablesConstants
  <2> QED BY <1>3, <1>8, <2>1 DEF Invoices
<1>13. ASSUME NEW i \in Invoices', i \notin Invoices
       PROVE  i = r /\ HasInvoice(r) /\ invoice'[i] = NewInvoice(r)
  <2>1. i \in Req /\ invoice'[i] # None /\ invoice'[i] = f(i)
    BY <1>11 DEF Invoices
  <2> QED BY <1>4, <1>9, <1>13, <2>1
<1>14. HasPayment(r) => NewPayment(r) \in Payment
  <2>1. HasPayment(r) => t.inv \in Req
    BY <1>1 DEF HasPayment, WellFormed, Invoices
  <2> QED BY <1>1, <2>1 DEF NewPayment, Payment, Transaction
<1>15. /\ payment' \in [Req -> Payment \cup {None}]
       /\ \A q \in Req \ {r} : payment'[q] = payment[q]
       /\ payment'[r] = IF HasPayment(r) THEN NewPayment(r) ELSE None
  BY <1>1, <1>2, <1>14 DEF Persist
<1>16. /\ Payments' = IF HasPayment(r) THEN Payments \union {r} ELSE Payments
       /\ r \notin Payments
  BY <1>2, <1>14, <1>15, ReceivablesConstants DEF Payments
<1>17. line' \in [BankLine -> {"ABSENT", "UNMATCHED", "MATCHED", "IGNORED"}]
  BY <1>1 DEF Persist
<1>18. note' = IF HasNote(r) THEN note \cup {r} ELSE note
  BY DEF Persist
<1> QED BY <1>4, <1>11, <1>12, <1>13, <1>15, <1>16, <1>17, <1>18

(* A commit adds its receipt, if it has one, to what its invoice has collected. *)
LEMMA PaidEffect ==
    ASSUME CoverInv, NEW r \in Req, tx[r].pc \in Running, Persist(r), NEW i
    PROVE  Paid(i)' = IF HasPayment(r) /\ i = tx[r].inv THEN tx[r].amount + Paid(i) ELSE Paid(i)
<1> DEFINE f == [p \in Payments |-> payment[p].amount]
           S == {p \in Payments : payment[p].inv = i}
           g == [p \in Payments' |-> payment'[p].amount]
           T == {p \in Payments' : payment'[p].inv = i}
<1>1. /\ \A q \in Req \ {r} : payment'[q] = payment[q]
      /\ payment'[r] = IF HasPayment(r) THEN NewPayment(r) ELSE None
      /\ Payments' = IF HasPayment(r) THEN Payments \union {r} ELSE Payments
      /\ r \notin Payments /\ payment' \in [Req -> Payment \cup {None}]
  BY PersistEffect
<1>2. NewPayment(r).inv = tx[r].inv /\ NewPayment(r).amount = tx[r].amount
  BY DEF NewPayment
<1>3. Payments \subseteq Req /\ \A p \in Payments : payment'[p] = payment[p]
  BY <1>1 DEF Payments
<1>4. \A p \in Payments' : payment'[p] \in Payment
  BY <1>1 DEF Payments
<1>5. \A p \in Payments' : g[p] \in Int
  BY <1>4 DEF Payment
<1>6. IsFiniteSet(S)
  BY FS_Subset DEF CoverInv
<1>7. S \subseteq Payments' /\ r \notin S
  BY <1>1
<1>8. \A p \in S : f[p] = g[p]
  BY <1>3, <1>7
<1>9. T = IF HasPayment(r) /\ i = tx[r].inv THEN S \union {r} ELSE S
  BY <1>1, <1>2, <1>3
<1>10. HasPayment(r) => r \in Payments' /\ g[r] = tx[r].amount
  BY <1>1, <1>2
<1>11. SumFunctionOnSet(f, S) = Paid(i)
  BY DEF Paid
<1>12. SumFunctionOnSet(g, T) = Paid(i)'
  BY DEF Paid
<1> HIDE DEF f, g, S, T
<1>13. SumFunctionOnSet(g, S) = SumFunctionOnSet(f, S)
  BY <1>6, <1>8, SumSame
<1>14. CASE HasPayment(r) /\ i = tx[r].inv
  <2>1. \A y \in S \union {r} : g[y] \in Int
    BY <1>5, <1>7, <1>10, <1>14
  <2>2. SumFunctionOnSet(g, S \union {r}) = g[r] + SumFunctionOnSet(g, S)
    BY <1>6, <1>7, <2>1, SumAdd
  <2> QED BY <1>9, <1>10, <1>11, <1>12, <1>13, <1>14, <2>2
<1>15. CASE ~(HasPayment(r) /\ i = tx[r].inv)
  BY <1>9, <1>11, <1>12, <1>13, <1>15
<1> QED BY <1>14, <1>15

(* Committing keeps the invariant: a status is only committed with the receipt
   it counts, on top of receipts that are never taken back. *)
LEMMA PersistCover ==
    ASSUME CoverInv, NEW r \in Req, NEW label \in Finished,
           tx[r].pc \in Running, Persist(r), End(r, label)
    PROVE  CoverInv'
<1> DEFINE t == tx[r]
<1>1. /\ t \in Transaction /\ WellFormed(r, t) /\ Informed(t) /\ t.amount \in Nat
      /\ tx \in [Req -> Transaction]
  BY DEF CoverInv, TypeOK, Transaction
<1>2. /\ Blank(label) \in Transaction /\ Blank(label).op = "INVOICE" /\ Blank(label).pc = label
      /\ Blank(label).total \in Nat
      /\ tx' = [tx EXCEPT ![r] = Blank(label)]
  BY BlankType DEF End
<1>3. /\ tx' \in [Req -> Transaction] /\ tx'[r] = Blank(label)
      /\ \A q \in Req \ {r} : tx'[q] = tx[q]
  BY <1>1, <1>2
<1>4. /\ \A i \in Invoices :
            /\ i \in Invoices' /\ i # r
            /\ invoice'[i].kind = invoice[i].kind /\ invoice'[i].total = invoice[i].total
            /\ invoice'[i].st = IF HasStatus(r) /\ i = tx[r].inv THEN NextStatus(r)
                                ELSE invoice[i].st
      /\ \A i \in Invoices' \ Invoices :
            i = r /\ HasInvoice(r) /\ invoice'[i].st \in {"DRAFT", "ISSUED"}
      /\ \A q \in Req \ {r} : payment'[q] = payment[q]
      /\ payment'[r] = IF HasPayment(r) THEN NewPayment(r) ELSE None
      /\ Payments' = IF HasPayment(r) THEN Payments \union {r} ELSE Payments
  BY PersistEffect
<1>5. TypeOK'
  <2>1. note' \in SUBSET Req
    BY PersistEffect DEF CoverInv, TypeOK
  <2> QED BY <1>3, <2>1, PersistEffect DEF TypeOK
<1>6. \A i : Paid(i) \in Nat
  BY PaidNat
<1>7. \A i : /\ Paid(i)' = IF HasPayment(r) /\ i = t.inv THEN t.amount + Paid(i) ELSE Paid(i)
             /\ Paid(i)' >= Paid(i) /\ Paid(i)' \in Nat
  BY <1>1, <1>6, PaidEffect
<1>8. IsFiniteSet(Payments')
  BY <1>4, FS_AddElement DEF CoverInv
<1>9. IsFiniteSet(InFlight')
  BY <1>3, InFlightFinite
<1>10. HasPayment(r) => t.inv \in Invoices
  BY <1>1 DEF HasPayment, WellFormed
<1>11. \A p \in Payments' : payment'[p].inv \in Invoices'
  <2> SUFFICES ASSUME NEW p \in Payments' PROVE payment'[p].inv \in Invoices'
    OBVIOUS
  <2>1. CASE p \in Payments /\ p # r
    BY <1>4, <2>1 DEF CoverInv, Payments
  <2>2. CASE p = r /\ HasPayment(r)
    BY <1>4, <1>10, <2>2 DEF NewPayment
  <2>3. payment[r] = None
    BY <1>1 DEF WellFormed
  <2> QED BY <1>4, <2>1, <2>2, <2>3 DEF Payments
<1>12. PaidIsCovered'
  <2> SUFFICES ASSUME NEW i \in Invoices', invoice'[i].st = "PAID"
               PROVE  Paid(i)' >= invoice'[i].total
    BY DEF PaidIsCovered
  <2>1. i \in Invoices
    BY <1>4
  <2>2. invoice[i].total \in Int
    BY <2>1 DEF CoverInv, TypeOK, Invoices, Invoice
  <2>3. CASE HasStatus(r) /\ i = t.inv
    <3>1. HasPayment(r) /\ HasRead(t)
      BY <2>3 DEF HasStatus, HasPayment, HasRead
    <3>2. t.paid <= Paid(i) /\ t.paid \in Nat
      BY <1>1, <2>3, <3>1 DEF Informed, Transaction
    <3>3. t.paid + t.amount >= invoice[i].total
      BY <1>4, <2>1, <2>3 DEF NextStatus
    <3>4. Paid(i)' = t.amount + Paid(i)
      BY <1>7, <2>3, <3>1
    <3>5. invoice'[i].total = invoice[i].total
      BY <1>4, <2>1
    <3> QED BY <1>1, <1>6, <2>2, <3>2, <3>3, <3>4, <3>5
  <2>4. CASE ~(HasStatus(r) /\ i = t.inv)
    <3>1. invoice[i].st = "PAID" /\ invoice'[i].total = invoice[i].total
      BY <1>4, <2>1, <2>4
    <3>2. Paid(i) >= invoice[i].total
      BY <2>1, <3>1 DEF CoverInv, PaidIsCovered
    <3> QED BY <1>6, <1>7, <2>2, <3>1, <3>2
  <2> QED BY <2>3, <2>4
<1>13. ASSUME NEW q \in Req PROVE WellFormed(q, tx[q])' /\ Informed(tx[q])'
  <2>1. CASE q = r
    BY <1>2, <1>3, <2>1 DEF WellFormed, Informed, HasRead
  <2>2. CASE q # r
    <3>1. tx'[q] = tx[q] /\ payment'[q] = payment[q] /\ WellFormed(q, tx[q]) /\ Informed(tx[q])
      BY <1>3, <1>4, <2>2 DEF CoverInv
    <3>2. invoice[q] = None => invoice'[q] = None
      BY <1>4, <2>2 DEF Invoices
    <3>3. \A i \in Invoices : i \in Invoices'
      BY <1>4
    <3>4. WellFormed(q, tx[q])'
      BY <3>1, <3>2, <3>3 DEF WellFormed
    <3>5. Informed(tx[q])'
      <4>1. SUFFICES ASSUME HasRead(tx'[q]) PROVE tx'[q].paid <= Paid(tx[q].inv)'
        BY DEF Informed, HasRead
      <4>2. tx[q].paid <= Paid(tx[q].inv) /\ tx[q].paid \in Nat
        BY <1>1, <3>1, <4>1 DEF Informed, Transaction
      <4>3. \A i : i = tx[q].inv => Paid(i)' >= tx[q].paid
        BY <1>6, <1>7, <4>2
      <4>4. \A i : i = tx'[q].inv => Paid(i)' = Paid(tx[q].inv)'
        BY DEF Paid
      <4> QED BY <3>1, <4>3, <4>4, <4>2, <1>7
    <3> QED BY <3>4, <3>5
  <2> QED BY <2>1, <2>2
<1> QED BY <1>5, <1>8, <1>9, <1>11, <1>12, <1>13 DEF CoverInv

-----------------------------------------------------------------------------
(* A paid invoice is covered. *)

(* A request commits at the end of its handler, or where it was cut. *)
Commits(r) ==
    /\ tx[r].pc \in Running /\ Persist(r)
    /\ (tx[r].pc = "answered" /\ End(r, "committed")) \/ End(r, "cut")

(* Every step is sound, commits or changes nothing. *)
LEMMA StepKinds ==
    ASSUME CoverInv, [Next]_vars
    PROVE  (\E r \in Req : Sound(r) \/ Commits(r)) \/ UNCHANGED vars
<1>1. ASSUME NEW r \in Req, Arrive(r) PROVE Sound(r)
  BY <1>1, ArriveSound
<1>2. ASSUME NEW r \in Req, Advance(r) PROVE Sound(r) \/ Commits(r)
  <2>1. CASE Commit(r)
    BY <2>1 DEF Commit, Commits
  <2> QED BY <1>2, <2>1, AdvanceSound
<1>3. ASSUME NEW r \in Req, Disconnect(r) PROVE Commits(r)
  BY <1>3 DEF Disconnect, InFlight, Commits
<1>4. ASSUME NEW r \in Req, Timeout(r) PROVE Sound(r)
  BY <1>4, EndSound DEF Timeout, InFlight
<1> QED BY <1>1, <1>2, <1>3, <1>4 DEF Next, Fail, Quiescent

(* A stuttering step keeps the invariant. *)
LEMMA StutterCover ==
    ASSUME CoverInv, UNCHANGED vars
    PROVE  CoverInv' /\ InFlight' = InFlight /\ Payments' = Payments /\ Invoices' = Invoices
<1>1. invoice' = invoice /\ payment' = payment /\ note' = note /\ line' = line /\ tx' = tx
  BY DEF vars
<1>2. /\ Invoices' = Invoices /\ Payments' = Payments /\ InFlight' = InFlight
      /\ \A i : Paid(i)' = Paid(i)
  BY <1>1 DEF Invoices, Payments, InFlight, Paid
<1>3. TypeOK' /\ PaidIsCovered'
  BY <1>1, <1>2 DEF CoverInv, TypeOK, PaidIsCovered
<1>4. \A r \in Req : WellFormed(r, tx[r])' /\ Informed(tx[r])'
  <2>1. \A r \in Req : Paid(tx[r].inv)' = Paid(tx[r].inv)
    BY <1>1 DEF Paid, Payments
  <2> QED BY <1>1, <1>2, <2>1 DEF CoverInv, WellFormed, Informed, HasRead
<1> QED BY <1>1, <1>2, <1>3, <1>4 DEF CoverInv

(* The invariant is inductive. *)
LEMMA CoverStep == CoverInv /\ [Next]_vars => CoverInv'
<1> SUFFICES ASSUME CoverInv, [Next]_vars PROVE CoverInv'
  OBVIOUS
<1>1. ASSUME NEW r \in Req, Sound(r) PROVE CoverInv'
  BY <1>1, QuietCover
<1>2. ASSUME NEW r \in Req, Commits(r) PROVE CoverInv'
  BY <1>2, PersistCover DEF Commits
<1>3. CASE UNCHANGED vars
  BY <1>3, StutterCover
<1> QED BY <1>1, <1>2, <1>3, StepKinds

(* The invariant holds when the company has no invoice yet. *)
LEMMA CoverInit == Init => CoverInv
<1> SUFFICES ASSUME Init PROVE CoverInv
  OBVIOUS
<1>1. /\ Blank("idle") \in Transaction /\ Blank("idle").op = "INVOICE"
      /\ Blank("idle").pc = "idle" /\ Blank("idle").total \in Nat
  BY BlankType
<1>2. Invoices = {} /\ Payments = {} /\ InFlight = {}
  BY <1>1 DEF Init, Invoices, Payments, InFlight
<1>3. TypeOK
  BY <1>1 DEF Init, TypeOK
<1>4. \A r \in Req : WellFormed(r, tx[r]) /\ Informed(tx[r])
  BY <1>1 DEF Init, WellFormed, Informed, HasRead
<1> QED BY <1>2, <1>3, <1>4, FS_EmptySet DEF CoverInv, PaidIsCovered

(* Every reachable state satisfies the inductive invariant of the invoice,
   receipt and reconciliation handlers of invoices.ts and
   bank-reconciliation.ts. *)
THEOREM CoverInvariance == Spec => []CoverInv
<1>1. Init => CoverInv
  BY CoverInit
<1>2. CoverInv /\ [Next]_vars => CoverInv'
  BY CoverStep
<1> QED BY <1>1, <1>2, PTL DEF Spec

(* An invoice is only ever marked PAID together with receipts that cover it,
   whatever requests overlap, time out or lose their connection. *)
THEOREM PaidInvoicesAreCovered == Spec => []PaidIsCovered
<1>1. CoverInv => PaidIsCovered
  BY DEF CoverInv
<1> QED BY <1>1, CoverInvariance, PTL

-----------------------------------------------------------------------------
(* Requests that come one at a time. *)

(* A step of the history: overlapping is remembered. *)
Remembers == overlapped' = (overlapped \/ Cardinality(InFlight') > 1)

(* Requests that have not overlapped after a step had not before it. *)
LEMMA SerialAfter ==
    ASSUME SettlementInv, Remembers, IsFiniteSet(InFlight'), ~overlapped'
    PROVE  ~overlapped /\ \A p, q \in InFlight' : p = q
<1>1. ~overlapped /\ ~(Cardinality(InFlight') > 1)
  BY DEF Remembers
<1> QED BY <1>1, AtMostOne

(* A sound step keeps the serial guarantees. *)
LEMMA QuietSettlement ==
    ASSUME SettlementInv, NEW r \in Req, Sound(r), Remembers
    PROVE  SettlementInv'
<1>1. CoverInv /\ CoverInv'
  BY QuietCover DEF SettlementInv
<1>2. invoice' = invoice /\ payment' = payment /\ note' = note /\ line' = line
  BY DEF Sound, Alone, Quiet
<1>3. tx' = [tx EXCEPT ![r] = tx'[r]] /\ tx \in [Req -> Transaction]
  BY <1>1 DEF CoverInv, TypeOK, Sound, Alone
<1>4. \A q \in Req \ {r} : tx'[q] = tx[q]
  BY <1>3
<1>5. Invoices' = Invoices /\ Payments' = Payments /\ \A i : Paid(i)' = Paid(i)
  BY <1>2 DEF Invoices, Payments, Paid
<1>6. overlapped' \in BOOLEAN
  BY DEF Remembers, SettlementInv
<1>7. AutoPosted'
  <2> SUFFICES ASSUME NEW p \in Payments, payment[p].auto, tx'[p].pc # "cut" PROVE p \in note
    BY <1>2, <1>5 DEF AutoPosted
  <2>1. p \in Req /\ payment[p] # None
    BY DEF Payments
  <2>2. p # r
    <3>1. tx[r].pc \in {"idle"} \cup Running => payment[r] = None
      BY <1>1 DEF CoverInv, WellFormed
    <3>2. tx[r].pc \in {"idle"} \cup Running
      BY <1>3 DEF Sound, Transaction
    <3> QED BY <2>1, <3>1, <3>2
  <2> QED BY <1>4, <2>1, <2>2 DEF SettlementInv, AutoPosted
<1>8. ASSUME ~overlapped'
      PROVE  /\ \A p, q \in InFlight' : p = q
             /\ \A q \in Req : Current(tx[q])'
             /\ NoOverpayment'
  <2>1. ~overlapped /\ \A p, q \in InFlight' : p = q
    BY <1>1, <1>8, SerialAfter DEF CoverInv
  <2>2. ASSUME NEW q \in Req PROVE Current(tx[q])'
    <3>1. Current(tx'[q])
      BY <1>4, <2>1 DEF SettlementInv, Sound
    <3>2. Paid(tx[q].inv)' = Paid(tx'[q].inv) /\ OpenAmount(tx[q].inv)' = OpenAmount(tx'[q].inv)
      BY <1>2 DEF Paid, Payments, OpenAmount
    <3> QED BY <1>2, <3>1, <3>2 DEF Current, HasRead
  <2>3. NoOverpayment'
    BY <1>2, <1>5, <2>1 DEF SettlementInv, NoOverpayment
  <2> QED BY <2>1, <2>2, <2>3
<1>9. ASSUME Calm' PROVE StatusTracksReceipts' /\ LineSettlesOnce'
  <2>1. NoneCut'
    BY <1>9 DEF Calm
  <2>2. NoneCut
    <3>1. tx[r].pc # "cut"
      BY DEF Sound
    <3> QED BY <1>4, <2>1, <3>1 DEF NoneCut
  <2>3. Calm
    BY <1>1, <1>9, <2>2, SerialAfter DEF Calm, CoverInv
  <2> QED BY <1>2, <1>5, <2>3 DEF SettlementInv, StatusTracksReceipts, LineSettlesOnce
<1> QED BY <1>1, <1>6, <1>7, <1>8, <1>9 DEF SettlementInv

(* A commit keeps the serial guarantees: what the request read has not changed
   since, because nobody else was in flight. *)
LEMMA CommitSettlement ==
    ASSUME SettlementInv, NEW r \in Req, Commits(r), Remembers
    PROVE  SettlementInv'
<1> DEFINE t == tx[r]
<1>1. CoverInv /\ CoverInv' /\ t.pc \in Running /\ Persist(r)
  BY PersistCover DEF SettlementInv, Commits
<1>2. PICK label \in {"committed", "cut"} :
         End(r, label) /\ (label = "committed" => t.pc = "answered")
  BY DEF Commits
<1>3. /\ tx' = [tx EXCEPT ![r] = Blank(label)] /\ tx \in [Req -> Transaction]
      /\ Blank(label).op = "INVOICE" /\ Blank(label).pc = label
      /\ t \in Transaction /\ WellFormed(r, t)
  BY <1>1, <1>2, BlankType DEF End, CoverInv, TypeOK
<1>4. tx'[r] = Blank(label) /\ \A q \in Req \ {r} : tx'[q] = tx[q]
  BY <1>3
<1>5. /\ \A i \in Invoices :
            /\ i \in Invoices' /\ i # r
            /\ invoice'[i].kind = invoice[i].kind /\ invoice'[i].total = invoice[i].total
            /\ invoice'[i].st = IF HasStatus(r) /\ i = tx[r].inv THEN NextStatus(r)
                                ELSE invoice[i].st
      /\ \A i \in Invoices' \ Invoices : i = r /\ HasInvoice(r) /\ invoice'[i] = NewInvoice(r)
      /\ NewInvoice(r).st \in {"DRAFT", "ISSUED"}
      /\ \A q \in Req \ {r} : payment'[q] = payment[q]
      /\ payment'[r] = IF HasPayment(r) THEN NewPayment(r) ELSE None
      /\ Payments' = IF HasPayment(r) THEN Payments \union {r} ELSE Payments
      /\ note' = IF HasNote(r) THEN note \cup {r} ELSE note
      /\ r \notin Payments
  BY <1>1, PersistEffect
<1>6. \A i : /\ Paid(i)' = IF HasPayment(r) /\ i = t.inv THEN t.amount + Paid(i) ELSE Paid(i)
             /\ Paid(i) \in Nat
  BY <1>1, PaidEffect, PaidNat
<1>7. t.amount \in Nat /\ t.total \in Int /\ t.paid \in Nat
  BY <1>3 DEF Transaction
<1>8. overlapped' \in BOOLEAN
  BY DEF Remembers, SettlementInv
<1>9. AutoPosted'
  <2> SUFFICES ASSUME NEW p \in Payments', payment'[p].auto, tx'[p].pc # "cut" PROVE p \in note'
    BY DEF AutoPosted
  <2>1. CASE p \in Payments
    <3>1. p \in Req /\ p # r
      BY <1>5, <2>1 DEF Payments
    <3> QED BY <1>4, <1>5, <2>1, <3>1 DEF SettlementInv, AutoPosted
  <2>2. CASE p \notin Payments
    <3>1. p = r /\ HasPayment(r) /\ payment'[r] = NewPayment(r)
      BY <1>5, <2>2
    <3>2. t.auto /\ t.pc = "answered"
      BY <1>2, <1>3, <1>4, <3>1 DEF NewPayment
    <3> QED BY <1>5, <3>1, <3>2 DEF HasNote
  <2> QED BY <2>1, <2>2
<1>10. \A i \in Invoices' \ Invoices : Paid(i)' = 0
  <2> SUFFICES ASSUME NEW i \in Invoices', i \notin Invoices PROVE Paid(i)' = 0
    OBVIOUS
  <2>1. ~HasPayment(r)
    BY <1>5 DEF HasInvoice, HasPayment
  <2>2. {p \in Payments : payment[p].inv = i} = {}
    BY <1>1 DEF CoverInv
  <2>3. Paid(i) = 0
    BY <2>2, SumEmpty DEF Paid
  <2> QED BY <1>6, <2>1, <2>3
<1>11. \A i \in Invoices : invoice[i].total \in Int
  BY <1>1 DEF CoverInv, TypeOK, Invoices, Invoice
<1>12. HasPayment(r) => HasRead(t)
  BY DEF HasPayment, HasRead
<1>13. ASSUME ~overlapped'
       PROVE  /\ ~overlapped /\ Current(t)
              /\ \A p, q \in InFlight' : p = q
              /\ \A q \in Req : Current(tx[q])'
              /\ NoOverpayment'
  <2>1. ~overlapped /\ \A p, q \in InFlight' : p = q
    BY <1>1, <1>13, SerialAfter DEF CoverInv
  <2>2. Current(t) /\ NoOverpayment /\ \A p, q \in InFlight : p = q
    BY <2>1 DEF SettlementInv
  <2>3. ASSUME NEW q \in Req PROVE Current(tx[q])'
    <3>1. tx'[q].pc \notin Running
      <4>1. CASE q = r
        BY <1>3, <1>4, <4>1
      <4>2. CASE q # r
        <5>1. q \notin InFlight /\ tx'[q] = tx[q]
          BY <1>1, <1>4, <2>2, <4>2 DEF InFlight
        <5> QED BY <5>1 DEF InFlight
      <4> QED BY <4>1, <4>2
    <3> QED BY <3>1 DEF Current, HasRead
  <2>4. NoOverpayment'
    <3> SUFFICES ASSUME NEW i \in Invoices', invoice'[i].kind = "FISCAL"
                 PROVE  Paid(i)' <= invoice'[i].total
      BY DEF NoOverpayment
    <3>1. CASE i \notin Invoices
      <4>1. invoice'[i].total = t.total /\ t.kind = "FISCAL"
        BY <1>5, <3>1 DEF NewInvoice
      <4>2. t.total \in Nat
        BY <1>3, <4>1 DEF WellFormed
      <4> QED BY <1>10, <3>1, <4>1, <4>2
    <3>2. CASE i \in Invoices
      <4>1. Paid(i) <= invoice[i].total /\ invoice'[i].total = invoice[i].total
        BY <1>5, <2>2, <3>2 DEF NoOverpayment
      <4>2. CASE HasPayment(r) /\ i = t.inv
        <5>1. t.amount <= OpenAmount(i)
          BY <1>12, <2>2, <4>2 DEF Current
        <5>2. t.amount + Paid(i) <= invoice[i].total
          BY <1>6, <1>7, <1>11, <3>2, <4>1, <5>1 DEF OpenAmount
        <5>3. Paid(i)' = t.amount + Paid(i)
          BY <1>6, <4>2
        <5> QED BY <4>1, <5>2, <5>3
      <4>3. CASE ~(HasPayment(r) /\ i = t.inv)
        <5>1. Paid(i)' = Paid(i)
          BY <1>6, <4>3
        <5> QED BY <4>1, <5>1
      <4> QED BY <4>2, <4>3
    <3> QED BY <3>1, <3>2
  <2> QED BY <2>1, <2>2, <2>3, <2>4
<1>14. ASSUME Calm' PROVE StatusTracksReceipts' /\ LineSettlesOnce'
  <2>1. ~overlapped' /\ NoneCut'
    BY <1>14 DEF Calm
  <2>2. label = "committed" /\ t.pc = "answered"
    BY <1>2, <1>3, <1>4, <2>1 DEF NoneCut
  <2>3. NoneCut
    BY <1>1, <1>4, <2>1 DEF NoneCut
  <2>4. /\ Current(t) /\ StatusTracksReceipts /\ LineSettlesOnce
    BY <1>13, <2>1, <2>3 DEF SettlementInv, Calm
  <2>5. StatusTracksReceipts'
    <3> SUFFICES ASSUME NEW i \in Invoices'
                 PROVE  /\ Paid(i)' > 0 => invoice'[i].st \in {"PARTIALLY_PAID", "PAID"}
                        /\ invoice'[i].st = "PARTIALLY_PAID" => Paid(i)' < invoice'[i].total
      BY DEF StatusTracksReceipts
    <3>1. CASE i \notin Invoices
      <4>1. Paid(i)' = 0 /\ invoice'[i].st \in {"DRAFT", "ISSUED"}
        BY <1>5, <1>10, <3>1
      <4> QED BY <4>1
    <3>2. CASE i \in Invoices /\ HasPayment(r) /\ i = t.inv
      <4>1. HasStatus(r)
        BY <2>2, <3>2 DEF HasPayment, HasStatus
      <4>2. /\ invoice'[i].st = NextStatus(r) /\ invoice'[i].total = invoice[i].total
            /\ Paid(i)' = t.amount + Paid(i) /\ t.paid = Paid(i)
        BY <1>5, <1>6, <1>12, <2>4, <3>2, <4>1 DEF Current
      <4>3. NextStatus(r) = IF t.paid + t.amount >= invoice[i].total
                            THEN "PAID" ELSE "PARTIALLY_PAID"
        BY <3>2 DEF NextStatus
      <4> QED BY <1>6, <1>7, <1>11, <3>2, <4>2, <4>3
    <3>3. CASE i \in Invoices /\ ~(HasPayment(r) /\ i = t.inv)
      <4>1. ~(HasStatus(r) /\ i = t.inv)
        BY <3>3 DEF HasPayment, HasStatus
      <4>2. /\ invoice'[i].st = invoice[i].st /\ invoice'[i].total = invoice[i].total
            /\ Paid(i)' = Paid(i)
        BY <1>5, <1>6, <3>3, <4>1
      <4> QED BY <2>4, <3>3, <4>2 DEF StatusTracksReceipts
    <3> QED BY <3>1, <3>2, <3>3
  <2>6. LineSettlesOnce'
    <3>1. /\ \A p \in Payments : p # r /\ p \in Req /\ payment'[p] = payment[p]
          /\ \A p \in Payments' : p \in Payments \/ (p = r /\ payment'[r] = NewPayment(r) /\ HasPayment(r))
      BY <1>5 DEF Payments
    <3>2. line \in [BankLine -> {"ABSENT", "UNMATCHED", "MATCHED", "IGNORED"}]
      BY <1>1 DEF CoverInv, TypeOK
    <3>3. \A p \in Payments : payment[p].line # None => payment[p].line \in BankLine
      BY <1>1 DEF CoverInv, TypeOK, Payments, Payment
    <3>4. HasLine(r) => t.line \in BankLine /\ line[t.line] # "MATCHED"
      BY <1>3, <2>2, <2>4 DEF HasLine, WellFormed, Current
    <3>5. \A b \in BankLine : line'[b] = IF HasLine(r) /\ b = t.line
                                         THEN CASE t.op = "IMPORT" -> "UNMATCHED"
                                                [] t.op = "IGNORE" -> "IGNORED"
                                                [] OTHER -> "MATCHED"
                                         ELSE line[b]
      BY <1>1, <3>2, <3>4 DEF Persist
    <3>6. \A p \in Payments : payment[p].line # None =>
             /\ line[payment[p].line] = "MATCHED" /\ line'[payment[p].line] = "MATCHED"
             /\ HasLine(r) => payment[p].line # t.line
      BY <2>4, <3>3, <3>4, <3>5 DEF LineSettlesOnce
    <3>7. HasPayment(r) /\ t.line # None =>
             /\ HasLine(r) /\ t.line \in BankLine /\ line'[t.line] = "MATCHED"
      <4>1. HasPayment(r) /\ t.line # None => t.op = "RECONCILE" /\ HasLine(r)
        BY <1>3, <2>2 DEF HasPayment, HasLine, WellFormed
      <4> QED BY <3>4, <3>5, <4>1
    <3>8. NewPayment(r).line = t.line
      BY DEF NewPayment
    <3>9. \A p, q \in Payments' :
             payment'[p].line # None /\ payment'[p].line = payment'[q].line => p = q
      BY <2>4, <3>1, <3>6, <3>7, <3>8 DEF LineSettlesOnce
    <3>10. \A p \in Payments' : payment'[p].line # None => line'[payment'[p].line] = "MATCHED"
      BY <3>1, <3>6, <3>7, <3>8
    <3> QED BY <3>9, <3>10 DEF LineSettlesOnce
  <2> QED BY <2>5, <2>6
<1> QED BY <1>1, <1>8, <1>9, <1>13, <1>14 DEF SettlementInv

(* The serial invariant is inductive. *)
LEMMA SettlementStep ==
    SettlementInv /\ [HistoryNext]_<<vars, overlapped>> => SettlementInv'
<1> SUFFICES ASSUME SettlementInv, [HistoryNext]_<<vars, overlapped>> PROVE SettlementInv'
  OBVIOUS
<1>1. CoverInv /\ [Next]_vars
  BY DEF SettlementInv, HistoryNext
<1>2. CASE UNCHANGED vars
  <2>1. /\ CoverInv' /\ InFlight' = InFlight /\ Payments' = Payments /\ Invoices' = Invoices
        /\ invoice' = invoice /\ payment' = payment /\ note' = note /\ line' = line /\ tx' = tx
    BY <1>1, <1>2, StutterCover DEF vars
  <2>2. overlapped' \in BOOLEAN /\ (~overlapped' => ~overlapped)
    BY DEF SettlementInv, HistoryNext
  <2>3. \A i : Paid(i)' = Paid(i)
    BY <2>1 DEF Paid
  <2>4. \A r \in Req : Current(tx[r]) => Current(tx[r])'
    <3>1. \A r \in Req : /\ Paid(tx[r].inv)' = Paid(tx[r].inv)
                         /\ OpenAmount(tx[r].inv)' = OpenAmount(tx[r].inv)
      BY <2>1 DEF Paid, OpenAmount
    <3> QED BY <2>1, <3>1 DEF Current, HasRead
  <2>5. /\ AutoPosted' /\ (NoOverpayment => NoOverpayment') /\ (Calm' => Calm)
        /\ StatusTracksReceipts /\ LineSettlesOnce => StatusTracksReceipts' /\ LineSettlesOnce'
    BY <2>1, <2>2, <2>3 DEF SettlementInv, AutoPosted, NoOverpayment, Calm, NoneCut,
                            StatusTracksReceipts, LineSettlesOnce
  <2> QED BY <2>1, <2>2, <2>4, <2>5 DEF SettlementInv
<1>3. CASE HistoryNext /\ ~UNCHANGED vars
  <2>1. Remembers
    BY <1>3 DEF HistoryNext, Remembers
  <2>2. PICK r \in Req : Sound(r) \/ Commits(r)
    BY <1>1, <1>3, StepKinds
  <2> QED BY <2>1, <2>2, QuietSettlement, CommitSettlement
<1> QED BY <1>2, <1>3

(* Every reachable state satisfies the invariant of receipts that come one at
   a time. *)
THEOREM SettlementInvariance == HistorySpec => []SettlementInv
<1>1. HistoryInit => SettlementInv
  <2> SUFFICES ASSUME HistoryInit PROVE SettlementInv
    OBVIOUS
  <2>1. CoverInv /\ overlapped = FALSE
    BY CoverInit DEF HistoryInit
  <2>2. Invoices = {} /\ Payments = {} /\ InFlight = {}
    BY DEF HistoryInit, Init, Invoices, Payments, InFlight, Blank
  <2>3. \A r \in Req : tx[r].pc = "idle"
    BY DEF HistoryInit, Init, Blank
  <2>4. \A r \in Req : Current(tx[r])
    BY <2>3 DEF Current, HasRead
  <2> QED BY <2>1, <2>2, <2>4 DEF SettlementInv, AutoPosted, NoOverpayment,
                                   StatusTracksReceipts, LineSettlesOnce
<1>2. SettlementInv /\ [HistoryNext]_<<vars, overlapped>> => SettlementInv'
  BY SettlementStep
<1> QED BY <1>1, <1>2, PTL DEF HistorySpec

(* As long as no two requests ever overlap, no fiscal invoice collects more
   than its total, wherever a connection is cut. *)
THEOREM SerialReceiptsNeverOverpay == HistorySpec => []SerialNoOverpayment
<1>1. SettlementInv => SerialNoOverpayment
  BY DEF SettlementInv, SerialNoOverpayment
<1> QED BY <1>1, SettlementInvariance, PTL

(* A receipt to be posted that is not cut commits with its note; undisturbed
   requests keep every status in step with its receipts and use every bank
   line once. *)
THEOREM ReceiptsAreSettled == HistorySpec => []ReceiptsSettle
<1>1. SettlementInv => ReceiptsSettle
  BY DEF SettlementInv, AutoPosted, ReceiptsSettle
<1> QED BY <1>1, SettlementInvariance, PTL
=============================================================================
