---------------------------- MODULE StockProofs ----------------------------
(***************************************************************************)
(* Proofs about stock items, movements and lots, for any set of requests,  *)
(* items, documents and dates, with or without disconnecting clients.      *)
(***************************************************************************)
EXTENDS MCStock, SumProofs, FiniteSetTheorems, TLAPS

USE DEF Op, Running, Finished, Pending, Moving

-----------------------------------------------------------------------------
(* Operators. *)

(* A transaction that holds nothing is well typed. *)
LEMMA BlankType ==
    ASSUME NEW label \in {"idle"} \cup Running \cup Finished
    PROVE  /\ Blank(label) \in Transaction
           /\ Blank(label).op = "ITEM" /\ Blank(label).pc = label
           /\ Blank(label).doc = <<>> /\ Blank(label).k = 1 /\ Blank(label).plan = <<>>
           /\ Blank(label).read = 0 /\ Blank(label).moves = {}
           /\ \A i \in Item : Blank(label).stock[i] = None
           /\ \A d \in Id : Blank(label).rest[d] = None
<1>1. (CHOOSE d \in Date : TRUE) \in Date
  BY StockConstants
<1>2. 1 \in 1 .. MaxLines /\ 0 \in Nat /\ 0 \in Int
  BY StockConstants
<1>3. <<>> \in Seq(DocumentLine) /\ <<>> \in Seq(Id \X Nat) /\ {} \in SUBSET Movement
  OBVIOUS
<1>4. Blank(label) \in Transaction
  BY <1>1, <1>2, <1>3 DEF Blank, Transaction
<1> QED BY <1>4 DEF Blank

(* Every document is a sequence of lines that a transaction can be at. *)
LEMMA DocumentType ==
    ASSUME NEW d \in Document
    PROVE  /\ d \in Seq(DocumentLine) /\ Len(d) \in 1 .. MaxLines
           /\ \A n \in 1 .. Len(d) : d[n] \in DocumentLine /\ n \in 1 .. MaxLines
<1>1. d \in Seq(DocumentLine) /\ Len(d) \in 1 .. MaxLines /\ MaxLines \in Nat
  BY StockConstants
<1> QED BY <1>1

(* The loop goes to its next line, or to the audit row after the last one. *)
LEMMA NextLine ==
    ASSUME NEW t \in Transaction, t.doc \in Document, t.k <= Len(t.doc)
    PROVE  /\ AtNextLine(t) \in Transaction
           /\ AtNextLine(t).op = t.op /\ AtNextLine(t).doc = t.doc
           /\ AtNextLine(t).date = t.date /\ AtNextLine(t).plan = t.plan
           /\ AtNextLine(t).stock = t.stock /\ AtNextLine(t).moves = t.moves
           /\ AtNextLine(t).rest = t.rest /\ AtNextLine(t).k <= Len(t.doc)
           /\ \/ AtNextLine(t).pc = "item" /\ AtNextLine(t).k = t.k + 1
              \/ AtNextLine(t).pc = "audit" /\ AtNextLine(t).k = t.k /\ t.k = Len(t.doc)
<1>1. Len(t.doc) \in 1 .. MaxLines /\ MaxLines \in Nat
  BY DocumentType, StockConstants
<1>2. t.k \in 1 .. MaxLines
  BY DEF Transaction
<1>3. CASE t.k < Len(t.doc)
  <2>1. t.k + 1 \in 1 .. MaxLines
    BY <1>1, <1>2, <1>3
  <2>2. AtNextLine(t) = [t EXCEPT !.k = t.k + 1, !.pc = "item"]
    BY <1>3 DEF AtNextLine
  <2>3. AtNextLine(t) \in Transaction
    BY <2>1, <2>2 DEF Transaction
  <2>4. AtNextLine(t).k = t.k + 1 /\ AtNextLine(t).k <= Len(t.doc)
    BY <1>1, <1>2, <1>3, <2>2 DEF Transaction
  <2> QED BY <2>2, <2>3, <2>4 DEF Transaction
<1>4. CASE ~(t.k < Len(t.doc))
  <2>2. AtNextLine(t) = [t EXCEPT !.pc = "audit"]
    BY <1>4 DEF AtNextLine
  <2>3. AtNextLine(t) \in Transaction
    BY <2>2 DEF Transaction
  <2>4. t.k = Len(t.doc)
    BY <1>1, <1>2, <1>4
  <2> QED BY <2>2, <2>3, <2>4 DEF Transaction
<1> QED BY <1>3, <1>4

-----------------------------------------------------------------------------
(* Steps that commit nothing. *)

(* Only the transaction of r changes. *)
Alone(r) == tx' = [tx EXCEPT ![r] = tx'[r]] /\ Quiet

(* A step of r that commits nothing and leaves r with a sound transaction. *)
Sound(r) ==
    /\ Alone(r) /\ tx[r].pc \in {"idle"} \cup Running
    /\ tx'[r] \in Transaction /\ tx'[r].pc # "cut"
    /\ (Formed(r) /\ Written(r) /\ Recorded(r))'

(* A sound step keeps the rows, and everyone else's transaction. *)
LEMMA AloneStep ==
    ASSUME StockInv, NEW r \in Req, Alone(r), tx'[r] \in Transaction
    PROVE  /\ stock' = stock /\ movement' = movement /\ lot' = lot /\ Lots' = Lots
           /\ tx' \in [Req -> Transaction] /\ \A q \in Req \ {r} : tx'[q] = tx[q]
<1>1. tx \in [Req -> Transaction] /\ tx' = [tx EXCEPT ![r] = tx'[r]]
  BY DEF StockInv, TypeOK, Alone
<1> QED BY <1>1 DEF Alone, Quiet, Lots

(* A sound step keeps the invariant. *)
LEMMA QuietStep ==
    ASSUME StockInv, NEW r \in Req, Sound(r)
    PROVE  StockInv'
<1>0. Alone(r) /\ tx'[r] \in Transaction /\ tx[r].pc \notin Finished
  BY DEF Sound
<1>1. /\ stock' = stock /\ movement' = movement /\ lot' = lot /\ Lots' = Lots
      /\ tx' \in [Req -> Transaction] /\ \A q \in Req \ {r} : tx'[q] = tx[q]
  BY <1>0, AloneStep
<1>2. TypeOK'
  BY <1>1 DEF StockInv, TypeOK
<1>3. IsFiniteSet(InFlight')
  <2>1. IsFiniteSet(InFlight \cup {r})
    BY FS_AddElement DEF StockInv
  <2>2. InFlight' \subseteq InFlight \cup {r}
    BY <1>1 DEF InFlight
  <2> QED BY <2>1, <2>2, FS_Subset
<1>4. \A m \in movement' : tx'[m.id[1]].pc \in Finished
  BY <1>0, <1>1 DEF StockInv, TypeOK, Movement, Id
<1>5. \A d \in Lots' : tx'[d[1]].pc \in Finished
  BY <1>0, <1>1 DEF StockInv, Lots, Id
<1>6. ASSUME NEW q \in Req PROVE (Formed(q) /\ Written(q) /\ Recorded(q))'
  <2>1. CASE q = r
    BY <2>1 DEF Sound
  <2>2. CASE q # r
    <3>1. Formed(q) /\ Written(q) /\ Recorded(q) /\ tx'[q] = tx[q]
      BY <1>1, <2>2 DEF StockInv
    <3>2. Formed(q)'
      BY <3>1 DEF Formed, ItemOf, DocLine
    <3>3. Written(q)'
      BY <1>1, <3>1 DEF Written
    <3>4. Recorded(q)'
      BY <3>1 DEF Recorded, ItemOf, DocLine
    <3> QED BY <3>2, <3>3, <3>4
  <2> QED BY <2>1, <2>2
<1> QED BY <1>1, <1>2, <1>3, <1>4, <1>5, <1>6 DEF StockInv

(* A transaction that is over has written nothing. *)
LEMMA EndLocal ==
    ASSUME StockInv, NEW r \in Req, NEW label \in Finished, End(r, label)
    PROVE  /\ tx' = [tx EXCEPT ![r] = tx'[r]] /\ tx'[r] = Blank(label)
           /\ tx'[r] \in Transaction /\ tx'[r].pc = label
           /\ (Formed(r) /\ Written(r) /\ Recorded(r))'
<1>1. tx \in [Req -> Transaction]
  BY DEF StockInv, TypeOK
<1>2. /\ Blank(label) \in Transaction /\ Blank(label).pc = label
      /\ Blank(label).moves = {} /\ Blank(label).plan = <<>>
      /\ \A i \in Item : Blank(label).stock[i] = None
      /\ \A d \in Id : Blank(label).rest[d] = None
  BY BlankType
<1>3. tx' = [tx EXCEPT ![r] = tx'[r]] /\ tx'[r] = Blank(label)
  BY <1>1 DEF End
<1>4. Formed(r)'
  BY <1>2, <1>3 DEF Formed
<1>5. Written(r)'
  <2>1. DOMAIN tx'[r].plan = {}
    BY <1>2, <1>3
  <2> QED BY <1>2, <1>3, <2>1, FS_EmptySet DEF Written
<1>6. Recorded(r)'
  BY <1>2, <1>3 DEF Recorded
<1> QED BY <1>2, <1>3, <1>4, <1>5, <1>6

(* A request that ends without a commit leaves nothing behind. *)
LEMMA EndSound ==
    ASSUME StockInv, NEW r \in Req, NEW label \in Finished \ {"cut"},
           tx[r].pc \in Running, End(r, label), Quiet
    PROVE  Sound(r)
BY EndLocal DEF Sound, Alone

(* What holds of a handler at one of its lines. *)
LEMMA AtLine ==
    ASSUME StockInv, NEW r \in Req, tx[r].pc \in Running
    PROVE  /\ tx \in [Req -> Transaction] /\ tx[r] \in Transaction
           /\ Formed(r) /\ Written(r) /\ Recorded(r)
           /\ tx[r].doc \in Document /\ tx[r].k \in 1 .. Len(tx[r].doc)
           /\ tx[r].k <= Len(tx[r].doc)
           /\ DocLine(r) \in DocumentLine /\ DocLine(r).qty \in Nat /\ ItemOf(r) \in Item
           /\ <<r, tx[r].k>> \in Id /\ lot[<<r, tx[r].k>>] = None
<1>1. /\ tx \in [Req -> Transaction] /\ tx[r] \in Transaction
      /\ Formed(r) /\ Written(r) /\ Recorded(r)
  BY DEF StockInv, TypeOK
<1>2. tx[r].doc \in Document /\ tx[r].k <= Len(tx[r].doc) /\ tx[r].k \in 1 .. MaxLines
  BY <1>1 DEF Formed, Transaction
<1>3. tx[r].k \in 1 .. Len(tx[r].doc)
  BY <1>2, DocumentType
<1>4. DocLine(r) \in DocumentLine
  BY <1>2, <1>3, DocumentType DEF DocLine
<1>5. <<r, tx[r].k>> \in Id
  BY <1>2 DEF Id
<1>6. lot[<<r, tx[r].k>>] = None
  BY <1>5 DEF StockInv, Lots
<1> QED BY <1>1, <1>2, <1>3, <1>4, <1>5, <1>6 DEF DocumentLine, ItemOf

(* A statement that only reads leaves the writes of its handler as they were. *)
LEMMA ReadKeeps ==
    ASSUME StockInv, NEW r \in Req, tx[r].pc \in Running \ {"movement"}, Quiet,
           tx'[r].doc = tx[r].doc, tx'[r].k = tx[r].k, tx'[r].stock = tx[r].stock,
           tx'[r].moves = tx[r].moves, tx'[r].rest = tx[r].rest,
           tx'[r].pc \in Pending => tx[r].pc \in Pending, tx'[r].pc # "lot",
           \A n \in DOMAIN tx'[r].plan : \/ lot[tx'[r].plan[n][1]] # None
                                         \/ tx[r].rest[tx'[r].plan[n][1]] # None
    PROVE  (Written(r) /\ Recorded(r))'
<1>1. Written(r) /\ Recorded(r) /\ lot' = lot
  BY DEF StockInv, Quiet
<1>2. Written(r)'
  BY <1>1 DEF Written
<1>3. Recorded(r)'
  BY <1>1 DEF Recorded
<1> QED BY <1>2, <1>3

(* The loop goes on after a line whose writes are those of u. *)
LEMMA LoopSound ==
    ASSUME StockInv, NEW r \in Req, tx[r].pc \in Running, Quiet,
           NEW u \in Transaction, tx' = [tx EXCEPT ![r] = AtNextLine(u)],
           u.doc = tx[r].doc, u.k = tx[r].k, u.plan = tx[r].plan, IsFiniteSet(u.moves),
           \A m \in u.moves : /\ m.id[1] = r /\ m.id[2] <= u.k
                              /\ m.item = u.doc[m.id[2]].item,
           \A m, n \in u.moves : m.id = n.id => m = n,
           \A d \in Id : tx[r].rest[d] # None => u.rest[d] # None,
           \A d \in Id : u.rest[d] # None =>
               lot[d] # None \/ \E m \in u.moves : m.id = d /\ m.qty > 0,
           \A i \in Item : u.stock[i] \notin {None, 0} =>
               \E m \in u.moves : m.item = i /\ m.result = u.stock[i]
    PROVE  Sound(r) /\ tx'[r] = AtNextLine(u)
<1>1. /\ tx \in [Req -> Transaction] /\ tx[r] \in Transaction
      /\ Written(r) /\ tx[r].doc \in Document /\ tx[r].k <= Len(tx[r].doc)
  BY AtLine
<1>2. /\ AtNextLine(u) \in Transaction
      /\ AtNextLine(u).doc = u.doc /\ AtNextLine(u).plan = u.plan
      /\ AtNextLine(u).stock = u.stock /\ AtNextLine(u).moves = u.moves
      /\ AtNextLine(u).rest = u.rest /\ AtNextLine(u).k <= Len(u.doc)
      /\ \/ AtNextLine(u).pc = "item" /\ AtNextLine(u).k = u.k + 1
         \/ AtNextLine(u).pc = "audit" /\ AtNextLine(u).k = u.k
  BY <1>1, NextLine
<1>3. tx'[r] = AtNextLine(u) /\ Alone(r) /\ lot' = lot
  BY <1>1 DEF Alone, Quiet
<1>4. Formed(r)'
  BY <1>1, <1>2, <1>3 DEF Formed
<1>5. Written(r)'
  <2>0. u.k \in 1 .. MaxLines /\ u.moves \subseteq Movement
    BY DEF Transaction
  <2>1. u.k \in Nat /\ \A m \in u.moves : m.id[2] \in Nat
    BY <2>0 DEF Movement, Id
  <2>2. \A m \in u.moves : m.id[2] <= AtNextLine(u).k /\ (AtNextLine(u).pc \in Pending
                                                           => m.id[2] # AtNextLine(u).k)
    BY <1>2, <2>1
  <2>3. \A n \in DOMAIN u.plan : u.plan[n][1] \in Id
    BY DEF Transaction
  <2>4. \A n \in DOMAIN u.plan : lot[u.plan[n][1]] # None \/ u.rest[u.plan[n][1]] # None
    BY <1>1, <2>3 DEF Written
  <2> QED BY <1>2, <1>3, <2>2, <2>4 DEF Written
<1>6. Recorded(r)'
  BY <1>2, <1>3 DEF Recorded
<1> QED BY <1>2, <1>3, <1>4, <1>5, <1>6 DEF Sound

(* How the transaction of a request begins. *)
FirstStep(t) ==
    \E d \in Document, e \in Date, op \in Op :
        \/ t = [Blank("insert") EXCEPT !.doc = d, !.date = e, !.move = d[1].qty]
        \/ t = [Blank("item") EXCEPT !.op = op, !.doc = d, !.date = e]

(* r begins with transaction t, which holds no writes. *)
Begins(r, t) ==
    /\ FirstStep(t) /\ tx' = [tx EXCEPT ![r] = t]
    /\ tx[r].pc = "idle" /\ Quiet
    /\ t.doc \in Document /\ t.pc \in {"insert", "item"}
    /\ t.k = 1 /\ t.plan = <<>> /\ t.moves = {}
    /\ \A i \in Item : t.stock[i] = None
    /\ \A d \in Id : t.rest[d] = None

(* An arriving request has written nothing. *)
LEMMA ArriveLocal ==
    ASSUME StockInv, NEW r \in Req, Arrive(r)
    PROVE  \E t \in Transaction : Begins(r, t)
<1>1. PICK t : FirstStep(t) /\ Start(r, t)
  BY DEF Arrive, CreateItem, Receive, Consume, TakeInventory, Submit, FirstStep
<1>2. PICK d \in Document, e \in Date, op \in Op :
        \/ t = [Blank("insert") EXCEPT !.doc = d, !.date = e, !.move = d[1].qty]
        \/ t = [Blank("item") EXCEPT !.op = op, !.doc = d, !.date = e]
  BY <1>1 DEF FirstStep
<1>3. d \in Seq(DocumentLine) /\ d[1].qty \in Nat
  <2>1. 1 \in 1 .. Len(d) /\ d \in Seq(DocumentLine)
    BY DocumentType
  <2> QED BY <2>1, DocumentType DEF DocumentLine
<1>4. \A label \in {"insert", "item"} :
        /\ Blank(label) \in Transaction /\ Blank(label).pc = label
        /\ Blank(label).k = 1 /\ Blank(label).plan = <<>> /\ Blank(label).moves = {}
        /\ \A i \in Item : Blank(label).stock[i] = None
        /\ \A x \in Id : Blank(label).rest[x] = None
  BY BlankType
<1>5. CASE t = [Blank("insert") EXCEPT !.doc = d, !.date = e, !.move = d[1].qty]
  <2>0. d[1].qty \in Int
    BY <1>3
  <2>1. t \in Transaction
    BY <1>3, <1>4, <1>5, <2>0 DEF Transaction
  <2>2. t.pc = "insert" /\ t.doc = d
    BY <1>4, <1>5 DEF Transaction
  <2>3. /\ t.k = 1 /\ t.plan = <<>> /\ t.moves = {}
        /\ t.stock = Blank("insert").stock /\ t.rest = Blank("insert").rest
    BY <1>4, <1>5 DEF Transaction
  <2> QED BY <1>1, <1>4, <2>1, <2>2, <2>3 DEF Start, Begins
<1>6. CASE t = [Blank("item") EXCEPT !.op = op, !.doc = d, !.date = e]
  <2>1. t \in Transaction
    BY <1>3, <1>4, <1>6 DEF Transaction
  <2>2. t.pc = "item" /\ t.doc = d
    BY <1>4, <1>6 DEF Transaction
  <2>3. /\ t.k = 1 /\ t.plan = <<>> /\ t.moves = {}
        /\ t.stock = Blank("item").stock /\ t.rest = Blank("item").rest
    BY <1>4, <1>6 DEF Transaction
  <2> QED BY <1>1, <1>4, <2>1, <2>2, <2>3 DEF Start, Begins
<1> QED BY <1>2, <1>5, <1>6

(* So it is sound. *)
LEMMA ArriveSound ==
    ASSUME StockInv, NEW r \in Req, Arrive(r)
    PROVE  Sound(r)
<1>0. PICK t \in Transaction : Begins(r, t)
  BY ArriveLocal
<1>1. /\ FirstStep(t) /\ tx' = [tx EXCEPT ![r] = t]
      /\ tx[r].pc = "idle" /\ Quiet
      /\ t.doc \in Document /\ t.pc \in {"insert", "item"}
      /\ t.k = 1 /\ t.plan = <<>> /\ t.moves = {}
      /\ \A i \in Item : t.stock[i] = None
      /\ \A d \in Id : t.rest[d] = None
  BY <1>0 DEF Begins
<1>2. tx \in [Req -> Transaction]
  BY DEF StockInv, TypeOK
<1>3. Alone(r) /\ tx'[r] = t
  BY <1>1, <1>2 DEF Alone
<1>4. t.pc = "insert" => t = [Blank("insert") EXCEPT !.doc = t.doc, !.date = t.date,
                                                     !.move = t.doc[1].qty]
  <2>1. PICK d \in Document, e \in Date, op \in Op :
          \/ t = [Blank("insert") EXCEPT !.doc = d, !.date = e, !.move = d[1].qty]
          \/ t = [Blank("item") EXCEPT !.op = op, !.doc = d, !.date = e]
    BY <1>1 DEF FirstStep
  <2>2. CASE t = [Blank("insert") EXCEPT !.doc = d, !.date = e, !.move = d[1].qty]
    BY <2>2, BlankType DEF Transaction
  <2>3. CASE t = [Blank("item") EXCEPT !.op = op, !.doc = d, !.date = e]
    <3>1. t.pc = "item"
      BY <2>3, BlankType DEF Transaction
    <3> QED BY <3>1
  <2> QED BY <2>1, <2>2, <2>3
<1>5. Len(t.doc) >= 1
  BY <1>1, DocumentType
<1>6. Formed(r)'
  BY <1>1, <1>3, <1>4, <1>5 DEF Formed
<1>7. Written(r)'
  <2>1. DOMAIN t.plan = {}
    BY <1>1
  <2> QED BY <1>1, <1>3, <2>1, FS_EmptySet DEF Written
<1>8. Recorded(r)'
  BY <1>1, <1>3 DEF Recorded
<1> QED BY <1>1, <1>3, <1>6, <1>7, <1>8 DEF Sound

-----------------------------------------------------------------------------
(* The statements of the handlers. *)

(* A handler that goes on keeps everything but the step it is at. *)
LEMMA GotoLocal ==
    ASSUME StockInv, NEW r \in Req, NEW label \in Running, Goto(r, label)
    PROVE  /\ tx' = [tx EXCEPT ![r] = tx'[r]]
           /\ tx'[r] = [tx[r] EXCEPT !.pc = label] /\ tx'[r] \in Transaction
           /\ tx'[r].pc = label /\ tx'[r].op = tx[r].op /\ tx'[r].doc = tx[r].doc
           /\ tx'[r].date = tx[r].date
           /\ tx'[r].k = tx[r].k /\ tx'[r].stock = tx[r].stock /\ tx'[r].moves = tx[r].moves
           /\ tx'[r].rest = tx[r].rest /\ tx'[r].plan = tx[r].plan
<1>1. tx \in [Req -> Transaction] /\ tx[r] \in Transaction
  BY DEF StockInv, TypeOK
<1>2. tx'[r] = [tx[r] EXCEPT !.pc = label] /\ tx' = [tx EXCEPT ![r] = tx'[r]]
  BY <1>1 DEF Goto
<1> QED BY <1>1, <1>2 DEF Transaction

(* Refusing and answering write nothing. *)
LEMMA GotoSound ==
    ASSUME StockInv, NEW r \in Req, NEW label \in {"refused", "answered"},
           tx[r].pc \in Running \ {"movement"}, Goto(r, label), Quiet
    PROVE  Sound(r)
<1>1. Formed(r) /\ Written(r)
  BY DEF StockInv
<1>2. (Written(r) /\ Recorded(r))'
  <2>1. /\ tx'[r].pc = label /\ tx'[r].doc = tx[r].doc /\ tx'[r].plan = tx[r].plan
        /\ tx'[r].k = tx[r].k /\ tx'[r].stock = tx[r].stock
        /\ tx'[r].moves = tx[r].moves /\ tx'[r].rest = tx[r].rest
    BY GotoLocal
  <2>2. \A n \in DOMAIN tx[r].plan : \/ lot[tx[r].plan[n][1]] # None
                                     \/ tx[r].rest[tx[r].plan[n][1]] # None
    BY <1>1 DEF Written
  <2> QED BY <2>1, <2>2, ReadKeeps
<1>3. Formed(r)'
  BY <1>1, GotoLocal DEF Formed
<1> QED BY <1>2, <1>3, GotoLocal DEF Sound, Alone

(* stockItem.create writes the item with nothing on hand. *)
LEMMA InsertItemLocal ==
    ASSUME StockInv, NEW r \in Req, InsertItem(r), stock[ItemOf(r)] = None
    PROVE  /\ tx'[r] \in Transaction /\ Alone(r)
           /\ tx'[r].pc = (IF tx[r].move > 0 THEN "update" ELSE "audit")
           /\ tx'[r].op = tx[r].op /\ tx'[r].doc = tx[r].doc /\ tx'[r].date = tx[r].date
           /\ tx'[r].k = tx[r].k /\ tx'[r].read = 0 /\ tx'[r].move = tx[r].move
           /\ tx'[r].moves = {} /\ tx'[r].rest = tx[r].rest /\ tx'[r].plan = <<>>
           /\ tx'[r].stock = [tx[r].stock EXCEPT ![ItemOf(r)] = 0]
           /\ \A i \in Item : tx[r].stock[i] = None
           /\ \A d \in Id : tx[r].rest[d] = None
           /\ tx[r].moves = {} /\ tx[r].plan = <<>>
<1> DEFINE t == tx[r]
<1>1. /\ tx \in [Req -> Transaction] /\ t \in Transaction
      /\ ItemOf(r) \in Item /\ Formed(r)
  BY AtLine DEF InsertItem
<1>2. t = [Blank("insert") EXCEPT !.doc = t.doc, !.date = t.date, !.move = t.doc[1].qty]
  BY <1>1 DEF Formed, InsertItem
<1>3. /\ t.read = 0 /\ t.moves = {} /\ t.plan = <<>>
      /\ t.stock = Blank("insert").stock /\ t.rest = Blank("insert").rest
  BY <1>2 DEF Blank
<1>4. /\ \A i \in Item : t.stock[i] = None
      /\ \A d \in Id : t.rest[d] = None
  BY <1>3, BlankType
<1>5. /\ tx'[r] = [t EXCEPT !.pc = IF t.move > 0 THEN "update" ELSE "audit",
                            !.stock = [t.stock EXCEPT ![ItemOf(r)] = 0]]
      /\ Alone(r)
  <2>1. /\ tx' = [tx EXCEPT ![r].pc = IF tx[r].move > 0 THEN "update" ELSE "audit",
                            ![r].stock[ItemOf(r)] = 0]
        /\ Quiet
    BY DEF InsertItem
  <2>2. tx'[r] = [t EXCEPT !.pc = IF t.move > 0 THEN "update" ELSE "audit",
                           !.stock = [t.stock EXCEPT ![ItemOf(r)] = 0]]
    BY <1>1, <2>1 DEF Transaction
  <2>3. tx' = [tx EXCEPT ![r] = tx'[r]]
    BY <1>1, <2>1
  <2> QED BY <2>1, <2>2, <2>3 DEF Alone
<1>6. [t.stock EXCEPT ![ItemOf(r)] = 0] \in [Item -> Nat \cup {None}]
  BY <1>1 DEF Transaction
<1>7. tx'[r] \in Transaction
  BY <1>1, <1>5, <1>6 DEF Transaction
<1> QED BY <1>1, <1>3, <1>4, <1>5, <1>7 DEF Transaction

(* It is sound. *)
LEMMA InsertItemSound ==
    ASSUME StockInv, NEW r \in Req, InsertItem(r)
    PROVE  Sound(r)
<1>1. CASE stock[ItemOf(r)] # None
  BY <1>1, EndSound DEF InsertItem
<1>2. CASE stock[ItemOf(r)] = None
  <2>0. tx[r].pc = "insert" /\ Quiet /\ lot' = lot
    BY DEF InsertItem, Quiet
  <2>1. /\ Formed(r) /\ Written(r) /\ tx[r].doc \in Document /\ tx[r].k <= Len(tx[r].doc)
        /\ ItemOf(r) \in Item /\ tx[r] \in Transaction
    BY <2>0, AtLine
  <2>2. /\ tx'[r] \in Transaction /\ Alone(r)
        /\ tx'[r].pc = (IF tx[r].move > 0 THEN "update" ELSE "audit")
        /\ tx'[r].doc = tx[r].doc /\ tx'[r].k = tx[r].k
        /\ tx'[r].read = 0 /\ tx'[r].move = tx[r].move
        /\ tx'[r].moves = {} /\ tx'[r].rest = tx[r].rest /\ tx'[r].plan = <<>>
        /\ tx'[r].stock = [tx[r].stock EXCEPT ![ItemOf(r)] = 0]
        /\ \A i \in Item : tx[r].stock[i] = None
        /\ \A d \in Id : tx[r].rest[d] = None
    BY <1>2, InsertItemLocal
  <2>3. Formed(r)'
    BY <2>1, <2>2 DEF Formed, Transaction
  <2>4. Written(r)'
    <3>1. DOMAIN tx'[r].plan = {}
      BY <2>2
    <3> QED BY <2>2, <3>1, FS_EmptySet DEF Written
  <2>5. Recorded(r)'
    <3>1. \A i \in Item : tx'[r].stock[i] \in {None, 0}
      BY <2>1, <2>2 DEF Transaction
    <3> QED BY <3>1 DEF Recorded
  <2> QED BY <2>0, <2>2, <2>3, <2>4, <2>5 DEF Sound
<1> QED BY <1>1, <1>2

(* What a line reads of its item, and decides to move. *)
LEMMA MoveReadLocal ==
    ASSUME StockInv, NEW r \in Req, tx[r].pc = "item", NEW n \in Nat, NEW m \in Int,
           Allowed(r, m, n), Quiet,
           tx' = [tx EXCEPT ![r].read = n, ![r].move = m,
                            ![r].need = IF m < 0 THEN -m ELSE 0,
                            ![r].pc = IF m < 0 /\ ItemOf(r) \in Fifo THEN "lots" ELSE "update"]
    PROVE  /\ tx'[r] \in Transaction /\ Alone(r)
           /\ tx'[r].pc = (IF m < 0 /\ ItemOf(r) \in Fifo THEN "lots" ELSE "update")
           /\ tx'[r].doc = tx[r].doc /\ tx'[r].k = tx[r].k
           /\ tx'[r].read = n /\ tx'[r].move = m /\ tx'[r].need = (IF m < 0 THEN -m ELSE 0)
           /\ tx'[r].moves = tx[r].moves /\ tx'[r].rest = tx[r].rest
           /\ tx'[r].plan = tx[r].plan /\ tx'[r].stock = tx[r].stock
           /\ tx'[r].date = tx[r].date
           /\ m # 0 /\ n + m \in Nat
<1> DEFINE t == tx[r]
<1>1. tx \in [Req -> Transaction] /\ t \in Transaction
  BY AtLine
<1>2. tx'[r] = [t EXCEPT !.read = n, !.move = m,
                         !.need = IF m < 0 THEN -m ELSE 0,
                         !.pc = IF m < 0 /\ ItemOf(r) \in Fifo THEN "lots" ELSE "update"]
  BY <1>1
<1>3. (IF m < 0 THEN -m ELSE 0) \in Nat /\ m # 0 /\ n + m \in Nat
  BY DEF Allowed
<1>4. Alone(r)
  BY <1>1, <1>2 DEF Alone
<1>5. tx'[r] \in Transaction
  BY <1>1, <1>2, <1>3 DEF Transaction
<1> QED BY <1>1, <1>2, <1>3, <1>4, <1>5 DEF Transaction

(* Reading the item of a line is sound, whatever is decided. *)
LEMMA ReadItemSound ==
    ASSUME StockInv, NEW r \in Req, ReadItem(r)
    PROVE  Sound(r)
<1> DEFINE t == tx[r]
           n == QuantityOnHand(r, ItemOf(r))
           m == Difference(r, n)
<1>0. t.pc = "item" /\ Quiet /\ lot' = lot
  BY DEF ReadItem, Quiet
<1>1. /\ tx \in [Req -> Transaction] /\ t \in Transaction
      /\ Formed(r) /\ Written(r) /\ Recorded(r)
      /\ t.doc \in Document /\ t.k <= Len(t.doc)
      /\ DocLine(r).qty \in Nat /\ ItemOf(r) \in Item
  BY <1>0, AtLine
<1>2. CASE Goto(r, "refused")
  BY <1>0, <1>2, GotoSound
<1>3. CASE tx' = [tx EXCEPT ![r] = AtNextLine(@)]
  <2>1. tx' = [tx EXCEPT ![r] = AtNextLine(t)]
    BY <1>1, <1>3
  <2>2. \A i \in Item : t.stock[i] \notin {None, 0} =>
               \E x \in t.moves : x.item = i /\ x.result = t.stock[i]
    BY <1>0, <1>1 DEF Recorded
  <2>3. /\ IsFiniteSet(t.moves)
        /\ \A x \in t.moves : /\ x.id[1] = r /\ x.id[2] <= t.k
                              /\ x.item = t.doc[x.id[2]].item
        /\ \A x, y \in t.moves : x.id = y.id => x = y
        /\ \A d \in Id : t.rest[d] # None =>
               lot[d] # None \/ \E x \in t.moves : x.id = d /\ x.qty > 0
    BY <1>1 DEF Written
  <2> HIDE DEF t
  <2> QED BY <1>0, <1>1, <2>1, <2>2, <2>3, LoopSound DEF t
<1>4. CASE /\ n # None /\ Allowed(r, m, n)
           /\ tx' = [tx EXCEPT ![r].read = n, ![r].move = m,
                               ![r].need = IF m < 0 THEN -m ELSE 0,
                               ![r].pc = IF m < 0 /\ ItemOf(r) \in Fifo THEN "lots"
                                                                       ELSE "update"]
  <2>1. n \in Nat
    BY <1>1, <1>4 DEF QuantityOnHand, StockInv, TypeOK, Transaction
  <2>2. m \in Int
    BY <1>1, <2>1 DEF Difference
  <2> HIDE DEF n, m
  <2>3. /\ tx'[r] \in Transaction /\ Alone(r)
        /\ tx'[r].pc = (IF m < 0 /\ ItemOf(r) \in Fifo THEN "lots" ELSE "update")
        /\ tx'[r].doc = t.doc /\ tx'[r].k = t.k
        /\ tx'[r].read = n /\ tx'[r].move = m /\ tx'[r].need = (IF m < 0 THEN -m ELSE 0)
        /\ tx'[r].moves = t.moves /\ tx'[r].rest = t.rest
        /\ tx'[r].plan = t.plan /\ tx'[r].stock = t.stock
        /\ m # 0 /\ n + m \in Nat
    BY <1>0, <1>4, <2>1, <2>2, MoveReadLocal
  <2>4. (Written(r) /\ Recorded(r))'
    BY <1>0, <1>1, <2>3, ReadKeeps DEF Written
  <2>5. Formed(r)'
    BY <1>1, <2>1, <2>2, <2>3 DEF Formed, ItemOf, DocLine
  <2> QED BY <1>0, <2>3, <2>4, <2>5 DEF Sound
<1> QED BY <1>2, <1>3, <1>4 DEF ReadItem

(* The lots of its item that r sees with something left. *)
Open(r) == {d \in Id : /\ lot[d] # None \/ tx[r].rest[d] # None
                       /\ LotItem(r, d) = ItemOf(r)
                       /\ Remaining(r, d) > 0}

(* The lots r sees are finitely many. *)
LEMMA SeenFinite ==
    ASSUME StockInv, NEW r \in Req
    PROVE  /\ IsFiniteSet(SeenLots(r)) /\ IsFiniteSet(SeenMoves(r))
           /\ IsFiniteSet({m.id : m \in tx[r].moves})
<1>1. Written(r) /\ IsFiniteSet(Lots) /\ IsFiniteSet(movement)
  BY DEF StockInv
<1>2. IsFiniteSet(tx[r].moves)
  BY <1>1 DEF Written
<1>3. IsFiniteSet({m.id : m \in tx[r].moves})
  <2> DEFINE T == {m.id : m \in tx[r].moves}
             f == [m \in tx[r].moves |-> m.id]
  <2>1. f \in Surjection(tx[r].moves, T)
    BY DEF Surjection
  <2> HIDE DEF f
  <2> QED BY <1>2, <2>1, FS_Surjection
<1>4. IsFiniteSet(Lots \cup {m.id : m \in tx[r].moves})
  BY <1>1, <1>3, FS_Union
<1>5. SeenLots(r) \subseteq Lots \cup {m.id : m \in tx[r].moves}
  BY <1>1 DEF SeenLots, Lots, Written
<1>6. IsFiniteSet(SeenLots(r))
  BY <1>4, <1>5, FS_Subset
<1>7. IsFiniteSet(SeenMoves(r))
  BY <1>1, <1>2, FS_Union DEF SeenMoves
<1> QED BY <1>3, <1>6, <1>7

(* What is left of a lot that r sees. *)
LEMMA RemainingType ==
    ASSUME StockInv, NEW r \in Req, NEW d \in SeenLots(r)
    PROVE  d \in Id /\ Remaining(r, d) \in Nat
<1>1. d \in Id /\ lot[d] \in Lot \cup {None} /\ tx[r].rest[d] \in Nat \cup {None}
  BY DEF StockInv, TypeOK, Transaction, SeenLots
<1> QED BY <1>1 DEF Remaining, Lot, SeenLots

(* The query lists the open lots, each once, by date. *)
LEMMA ReadLotsLocal ==
    ASSUME StockInv, NEW r \in Req, ReadLots(r)
    PROVE  /\ tx'[r] \in Transaction /\ Alone(r)
           /\ tx[r].pc = "lots" /\ tx'[r].pc = "take"
           /\ tx'[r].doc = tx[r].doc /\ tx'[r].k = tx[r].k /\ tx'[r].date = tx[r].date
           /\ tx'[r].read = tx[r].read /\ tx'[r].move = tx[r].move /\ tx'[r].need = tx[r].need
           /\ tx'[r].moves = tx[r].moves /\ tx'[r].rest = tx[r].rest
           /\ tx'[r].stock = tx[r].stock
           /\ \A n \in DOMAIN tx'[r].plan : /\ tx'[r].plan[n][1] \in Open(r)
                                            /\ tx'[r].plan[n][2] = Remaining(r, tx'[r].plan[n][1])
           /\ \A d \in Open(r) : \E n \in DOMAIN tx'[r].plan : tx'[r].plan[n][1] = d
           /\ \A m, n \in DOMAIN tx'[r].plan : m < n =>
                 /\ tx'[r].plan[m][1] # tx'[r].plan[n][1]
                 /\ LotDate(r, tx'[r].plan[m][1]) <= LotDate(r, tx'[r].plan[n][1])
<1> DEFINE t == tx[r]
<1>0. t.pc = "lots" /\ Quiet
  BY DEF ReadLots
<1>1. tx \in [Req -> Transaction] /\ t \in Transaction
  BY <1>0, AtLine
<1>2. PICK s \in SetToSeqs(Open(r)) :
        /\ InOrder(r, s)
        /\ tx' = [tx EXCEPT ![r].pc = "take",
                            ![r].plan = [i \in DOMAIN s |-> <<s[i], Remaining(r, s[i])>>]]
  BY DEF ReadLots, Open
<1>3. Open(r) \subseteq SeenLots(r) /\ Open(r) \subseteq Id
  BY DEF Open, SeenLots
<1>4. IsFiniteSet(Open(r)) /\ Cardinality(Open(r)) \in Nat
  BY <1>3, SeenFinite, FS_Subset, FS_CardinalityType
<1> DEFINE D == 1 .. Cardinality(Open(r))
           p == [i \in DOMAIN s |-> <<s[i], Remaining(r, s[i])>>]
<1>5. s \in [D -> Open(r)] /\ \A i, j \in D : i # j => s[i] # s[j]
  BY DEF SetToSeqs
<1>6. DOMAIN s = D
  BY <1>5
<1>7. \A d \in Open(r) : \E i \in D : s[i] = d
  <2>1. s \in Injection(D, Open(r))
    BY <1>5, <1>6 DEF Injection, IsInjective
  <2>2. Cardinality(D) = Cardinality(Open(r))
    BY <1>4, FS_Interval
  <2>3. s \in Surjection(D, Open(r))
    BY <1>4, <2>1, <2>2, FS_Injection
  <2> QED BY <2>3 DEF Surjection
<1>8. \A d \in Open(r) : d \in Id /\ Remaining(r, d) \in Nat
  BY <1>3, RemainingType
<1>9. p \in Seq(Id \X Nat) /\ DOMAIN p = D
  <2>1. p \in [1 .. Cardinality(Open(r)) -> Id \X Nat]
    BY <1>5, <1>6, <1>8
  <2> QED BY <1>4, <1>6, <2>1
<1>10. \A i \in D : p[i] = <<s[i], Remaining(r, s[i])>>
  BY <1>6
<1>11. tx'[r] = [t EXCEPT !.pc = "take", !.plan = p] /\ Alone(r)
  BY <1>0, <1>1, <1>2 DEF Alone
<1> HIDE DEF p
<1>12. /\ tx'[r] \in Transaction /\ tx'[r].pc = "take" /\ tx'[r].plan = p
       /\ tx'[r].doc = tx[r].doc /\ tx'[r].k = tx[r].k /\ tx'[r].date = tx[r].date
       /\ tx'[r].read = tx[r].read /\ tx'[r].move = tx[r].move /\ tx'[r].need = tx[r].need
       /\ tx'[r].moves = tx[r].moves /\ tx'[r].rest = tx[r].rest
       /\ tx'[r].stock = tx[r].stock
  BY <1>1, <1>9, <1>11 DEF Transaction
<1>13. \A n \in DOMAIN p : p[n][1] \in Open(r) /\ p[n][2] = Remaining(r, p[n][1])
  BY <1>5, <1>9, <1>10
<1>14. \A d \in Open(r) : \E n \in DOMAIN p : p[n][1] = d
  BY <1>7, <1>9, <1>10
<1>15. \A m, n \in DOMAIN p : m < n =>
         p[m][1] # p[n][1] /\ LotDate(r, p[m][1]) <= LotDate(r, p[n][1])
  <2>1. \A i, j \in D : i < j => LotDate(r, s[i]) <= LotDate(r, s[j]) /\ s[i] # s[j]
    BY <1>2, <1>5, <1>6 DEF InOrder
  <2> QED BY <1>9, <1>10, <2>1
<1> QED BY <1>0, <1>11, <1>12, <1>13, <1>14, <1>15

(* Reading the lots is sound. *)
LEMMA ReadLotsSound ==
    ASSUME StockInv, NEW r \in Req, ReadLots(r)
    PROVE  Sound(r)
<1>1. /\ tx'[r] \in Transaction /\ Alone(r)
      /\ tx[r].pc = "lots" /\ tx'[r].pc = "take"
      /\ tx'[r].doc = tx[r].doc /\ tx'[r].k = tx[r].k
      /\ tx'[r].read = tx[r].read /\ tx'[r].move = tx[r].move /\ tx'[r].need = tx[r].need
      /\ tx'[r].moves = tx[r].moves /\ tx'[r].rest = tx[r].rest
      /\ tx'[r].stock = tx[r].stock
      /\ \A n \in DOMAIN tx'[r].plan : tx'[r].plan[n][1] \in Open(r)
  BY ReadLotsLocal
<1>2. Quiet
  BY DEF ReadLots
<1>3. \A n \in DOMAIN tx'[r].plan : \/ lot[tx'[r].plan[n][1]] # None
                                    \/ tx[r].rest[tx'[r].plan[n][1]] # None
  BY <1>1 DEF Open
<1>4. (Written(r) /\ Recorded(r))'
  BY <1>1, <1>2, <1>3, ReadKeeps
<1>5. Formed(r)'
  BY <1>1 DEF StockInv, Formed, ItemOf, DocLine
<1> QED BY <1>1, <1>4, <1>5 DEF Sound

(* Taking from the first lot of the plan. *)
LEMMA TakeLocal ==
    ASSUME StockInv, NEW r \in Req, TakeFromLot(r),
           NEW d, d = tx[r].plan[1][1], NEW n, n = tx[r].plan[1][2]
    PROVE  /\ tx'[r] \in Transaction /\ Alone(r)
           /\ tx[r].pc = "take" /\ tx'[r].pc = "take"
           /\ tx'[r].doc = tx[r].doc /\ tx'[r].k = tx[r].k /\ tx'[r].date = tx[r].date
           /\ tx'[r].read = tx[r].read /\ tx'[r].move = tx[r].move
           /\ tx'[r].moves = tx[r].moves /\ tx'[r].stock = tx[r].stock
           /\ tx[r].need > 0 /\ tx[r].need \in Nat
           /\ Taken(r) \in Nat /\ Taken(r) <= n /\ Taken(r) <= tx[r].need
           /\ Taken(r) = n \/ Taken(r) = tx[r].need
           /\ tx'[r].need = tx[r].need - Taken(r)
           /\ d \in Id /\ n \in Nat /\ n - Taken(r) \in Nat
           /\ tx'[r].rest = [tx[r].rest EXCEPT ![d] = n - Taken(r)]
           /\ 1 \in DOMAIN tx[r].plan /\ DOMAIN tx[r].plan = 1 .. Len(tx[r].plan)
           /\ \A j \in DOMAIN tx'[r].plan : /\ j + 1 \in DOMAIN tx[r].plan /\ j \in Nat
                                            /\ tx'[r].plan[j] = tx[r].plan[j + 1]
           /\ \A j \in DOMAIN tx[r].plan : /\ j \in Nat
                                           /\ j # 1 => j - 1 \in DOMAIN tx'[r].plan
<1> DEFINE t == tx[r]
<1>0. t.pc = "take" /\ Quiet /\ t.need > 0 /\ t.plan # <<>>
  BY DEF TakeFromLot
<1>1. /\ tx \in [Req -> Transaction] /\ t \in Transaction
      /\ t.plan \in Seq(Id \X Nat) /\ t.need \in Nat
  BY <1>0, AtLine DEF Transaction
<1>2. Head(t.plan) = t.plan[1] /\ 1 \in DOMAIN t.plan /\ t.plan[1] \in Id \X Nat
  BY <1>0, <1>1
<1>3. d \in Id /\ n \in Nat
  BY <1>2
<1>4. /\ Taken(r) = IF n < t.need THEN n ELSE t.need
  BY <1>2 DEF Taken
<1>5. /\ Taken(r) \in Nat /\ Taken(r) <= n /\ Taken(r) <= t.need
      /\ n - Taken(r) \in Nat /\ t.need - Taken(r) \in Nat
      /\ Taken(r) = n \/ Taken(r) = t.need
  <2>1. \A k \in Nat, x \in Nat : LET y == IF x < k THEN x ELSE k
                                   IN  y \in Nat /\ y <= x /\ y <= k /\ x - y \in Nat
                                       /\ k - y \in Nat /\ (y = x \/ y = k)
    OBVIOUS
  <2>2. t.need \in Nat
    BY <1>1
  <2> HIDE DEF t
  <2> QED BY <1>3, <1>4, <2>1, <2>2
<1> HIDE DEF t
<1>6. /\ tx' = [tx EXCEPT ![r].rest[d] = n - Taken(r), ![r].need = @ - Taken(r),
                          ![r].plan = Tail(@)]
      /\ Quiet
  BY <1>2 DEF TakeFromLot, t
<1>7. /\ tx'[r] = [t EXCEPT !.rest = [t.rest EXCEPT ![d] = n - Taken(r)],
                            !.need = t.need - Taken(r), !.plan = Tail(t.plan)]
      /\ tx' = [tx EXCEPT ![r] = tx'[r]]
  BY <1>1, <1>6 DEF t, Transaction
<1>8. Tail(t.plan) \in Seq(Id \X Nat)
  BY <1>0, <1>1 DEF t
<1>9. [t.rest EXCEPT ![d] = n - Taken(r)] \in [Id -> Nat \cup {None}]
  BY <1>1, <1>3, <1>5 DEF t, Transaction
<1>10. tx'[r] \in Transaction
  BY <1>1, <1>5, <1>7, <1>8, <1>9 DEF Transaction
<1>11. /\ tx'[r].pc = t.pc /\ tx'[r].doc = t.doc /\ tx'[r].k = t.k /\ tx'[r].date = t.date
       /\ tx'[r].read = t.read /\ tx'[r].move = t.move
       /\ tx'[r].moves = t.moves /\ tx'[r].stock = t.stock
       /\ tx'[r].need = t.need - Taken(r) /\ tx'[r].plan = Tail(t.plan)
       /\ tx'[r].rest = [t.rest EXCEPT ![d] = n - Taken(r)]
  BY <1>1, <1>7 DEF Transaction
<1>12. DOMAIN t.plan = 1 .. Len(t.plan) /\ Len(t.plan) \in Nat
  BY <1>1
<1>13. /\ DOMAIN Tail(t.plan) = 1 .. (Len(t.plan) - 1)
       /\ \A j \in 1 .. (Len(t.plan) - 1) : Tail(t.plan)[j] = t.plan[j + 1]
  BY <1>0, <1>1 DEF t
<1>14. \A j \in DOMAIN tx'[r].plan : /\ j + 1 \in DOMAIN t.plan /\ j \in Nat
                                     /\ tx'[r].plan[j] = t.plan[j + 1]
  BY <1>11, <1>12, <1>13
<1>15. \A j \in DOMAIN t.plan : j \in Nat /\ (j # 1 => j - 1 \in DOMAIN tx'[r].plan)
  BY <1>11, <1>12, <1>13
<1> QED BY <1>0, <1>1, <1>2, <1>3, <1>5, <1>6, <1>7, <1>10, <1>11, <1>12, <1>14, <1>15
        DEF t, Alone

(* It is sound. *)
LEMMA TakeSound ==
    ASSUME StockInv, NEW r \in Req, TakeFromLot(r)
    PROVE  Sound(r)
<1> DEFINE d == tx[r].plan[1][1]
           n == tx[r].plan[1][2]
<1>1. /\ tx'[r] \in Transaction /\ Alone(r)
      /\ tx[r].pc = "take" /\ tx'[r].pc = "take"
      /\ tx'[r].doc = tx[r].doc /\ tx'[r].k = tx[r].k
      /\ tx'[r].read = tx[r].read /\ tx'[r].move = tx[r].move
      /\ tx'[r].moves = tx[r].moves /\ tx'[r].stock = tx[r].stock
      /\ d \in Id /\ n - Taken(r) \in Nat
      /\ tx'[r].rest = [tx[r].rest EXCEPT ![d] = n - Taken(r)]
      /\ 1 \in DOMAIN tx[r].plan
      /\ \A j \in DOMAIN tx'[r].plan : /\ j + 1 \in DOMAIN tx[r].plan
                                       /\ tx'[r].plan[j] = tx[r].plan[j + 1]
  BY TakeLocal
<1>2. Formed(r) /\ Written(r) /\ Recorded(r) /\ tx[r].rest \in [Id -> Nat \cup {None}]
  BY <1>1, AtLine DEF Transaction
<1>3. lot' = lot
  BY <1>1 DEF Alone, Quiet
<1>4. \A x \in Id : tx'[r].rest[x] = IF x = d THEN n - Taken(r) ELSE tx[r].rest[x]
  BY <1>1, <1>2
<1>5. None \notin Nat
  BY StockConstants
<1>6. lot[d] # None \/ \E m \in tx[r].moves : m.id = d /\ m.qty > 0
  BY <1>1, <1>2 DEF Written
<1>7. \A j \in DOMAIN tx'[r].plan : /\ tx'[r].plan[j][1] \in Id
                                    /\ \/ lot[tx'[r].plan[j][1]] # None
                                       \/ tx[r].rest[tx'[r].plan[j][1]] # None
  <2>1. \A j \in DOMAIN tx'[r].plan : tx'[r].plan[j][1] \in Id
    BY <1>1 DEF Transaction
  <2> QED BY <1>1, <1>2, <2>1 DEF Written
<1> HIDE DEF d, n
<1>8. Written(r)'
  <2>1. \A x \in Id : tx'[r].rest[x] # None =>
          lot[x] # None \/ \E m \in tx[r].moves : m.id = x /\ m.qty > 0
    BY <1>2, <1>4, <1>6 DEF Written
  <2>2. \A j \in DOMAIN tx'[r].plan : \/ lot[tx'[r].plan[j][1]] # None
                                      \/ tx'[r].rest[tx'[r].plan[j][1]] # None
    BY <1>1, <1>4, <1>5, <1>7
  <2>3. /\ IsFiniteSet(tx[r].moves)
        /\ \A m \in tx[r].moves : /\ m.id[1] = r /\ m.id[2] <= tx[r].k
                                  /\ m.item = tx[r].doc[m.id[2]].item
                                  /\ m.id[2] # tx[r].k
        /\ \A l, m \in tx[r].moves : l.id = m.id => l = m
    BY <1>1, <1>2 DEF Written
  <2> QED BY <1>1, <1>3, <2>1, <2>2, <2>3 DEF Written
<1>9. Formed(r)'
  BY <1>1, <1>2 DEF Formed, ItemOf, DocLine
<1>10. Recorded(r)'
  BY <1>1, <1>2 DEF Recorded
<1> QED BY <1>1, <1>8, <1>9, <1>10 DEF Sound

(* The end of the loop over the lots. *)
LEMMA EndTakingLocal ==
    ASSUME StockInv, NEW r \in Req, EndTaking(r)
    PROVE  /\ tx'[r] \in Transaction /\ Alone(r) /\ tx[r].pc = "take"
           /\ tx'[r].pc = (IF tx[r].need = 0 THEN "update" ELSE "refused")
           /\ tx'[r].doc = tx[r].doc /\ tx'[r].k = tx[r].k /\ tx'[r].date = tx[r].date
           /\ tx'[r].read = tx[r].read /\ tx'[r].move = tx[r].move
           /\ tx'[r].moves = tx[r].moves /\ tx'[r].rest = tx[r].rest
           /\ tx'[r].stock = tx[r].stock /\ tx'[r].plan = <<>>
<1> DEFINE t == tx[r]
<1>1. t.pc = "take" /\ tx \in [Req -> Transaction] /\ t \in Transaction
  BY AtLine DEF EndTaking
<1>2. /\ tx'[r] = [t EXCEPT !.plan = <<>>, !.pc = IF t.need = 0 THEN "update" ELSE "refused"]
      /\ Alone(r)
  BY <1>1 DEF EndTaking, Alone
<1>3. tx'[r] \in Transaction
  <2>1. <<>> \in Seq(Id \X Nat)
    OBVIOUS
  <2> QED BY <1>1, <1>2, <2>1 DEF Transaction
<1> QED BY <1>1, <1>2, <1>3 DEF Transaction

(* It is sound. *)
LEMMA EndTakingSound ==
    ASSUME StockInv, NEW r \in Req, EndTaking(r)
    PROVE  Sound(r)
<1>1. /\ tx'[r] \in Transaction /\ Alone(r) /\ tx[r].pc = "take"
      /\ tx'[r].pc = (IF tx[r].need = 0 THEN "update" ELSE "refused")
      /\ tx'[r].doc = tx[r].doc /\ tx'[r].k = tx[r].k
      /\ tx'[r].read = tx[r].read /\ tx'[r].move = tx[r].move
      /\ tx'[r].moves = tx[r].moves /\ tx'[r].rest = tx[r].rest
      /\ tx'[r].stock = tx[r].stock /\ tx'[r].plan = <<>>
  BY EndTakingLocal
<1>2. DOMAIN tx'[r].plan = {} /\ Quiet
  BY <1>1 DEF Alone
<1>3. (Written(r) /\ Recorded(r))'
  BY <1>1, <1>2, ReadKeeps
<1>4. Formed(r)'
  <2>1. Formed(r) /\ tx[r].doc \in Document /\ tx[r].k <= Len(tx[r].doc)
    BY <1>1, AtLine
  <2>2. tx[r].move # 0 /\ tx[r].read + tx[r].move \in Nat
    BY <1>1, <2>1 DEF Formed
  <2> QED BY <1>1, <2>1, <2>2 DEF Formed
<1> QED BY <1>1, <1>3, <1>4 DEF Sound

(* stockItem.update sets the quantity computed from the one read. *)
LEMMA UpdateItemLocal ==
    ASSUME StockInv, NEW r \in Req, UpdateItem(r)
    PROVE  /\ tx'[r] \in Transaction /\ Alone(r)
           /\ tx[r].pc = "update" /\ tx'[r].pc = "movement"
           /\ tx'[r].doc = tx[r].doc /\ tx'[r].k = tx[r].k /\ tx'[r].date = tx[r].date
           /\ tx'[r].read = tx[r].read /\ tx'[r].move = tx[r].move
           /\ tx'[r].moves = tx[r].moves /\ tx'[r].rest = tx[r].rest
           /\ tx'[r].plan = tx[r].plan /\ tx[r].read + tx[r].move \in Nat
           /\ tx'[r].stock = [tx[r].stock EXCEPT ![ItemOf(r)] = tx[r].read + tx[r].move]
<1> DEFINE t == tx[r]
<1>1. /\ t.pc = "update" /\ tx \in [Req -> Transaction] /\ t \in Transaction
      /\ Formed(r) /\ ItemOf(r) \in Item
  BY AtLine DEF UpdateItem
<1>2. t.read + t.move \in Nat
  BY <1>1 DEF Formed
<1>3. /\ tx'[r] = [t EXCEPT !.pc = "movement",
                            !.stock = [t.stock EXCEPT ![ItemOf(r)] = t.read + t.move]]
      /\ tx' = [tx EXCEPT ![r] = tx'[r]] /\ Quiet
  BY <1>1 DEF UpdateItem, Transaction
<1>4. [t.stock EXCEPT ![ItemOf(r)] = t.read + t.move] \in [Item -> Nat \cup {None}]
  BY <1>1, <1>2 DEF Transaction
<1>5. tx'[r] \in Transaction
  BY <1>1, <1>3, <1>4 DEF Transaction
<1> QED BY <1>1, <1>2, <1>3, <1>5 DEF Transaction, Alone

(* It is sound: the movement that records the quantity comes next. *)
LEMMA UpdateItemSound ==
    ASSUME StockInv, NEW r \in Req, UpdateItem(r)
    PROVE  Sound(r)
<1>1. /\ tx'[r] \in Transaction /\ Alone(r)
      /\ tx[r].pc = "update" /\ tx'[r].pc = "movement"
      /\ tx'[r].doc = tx[r].doc /\ tx'[r].k = tx[r].k
      /\ tx'[r].read = tx[r].read /\ tx'[r].move = tx[r].move
      /\ tx'[r].moves = tx[r].moves /\ tx'[r].rest = tx[r].rest
      /\ tx'[r].plan = tx[r].plan
      /\ tx'[r].stock = [tx[r].stock EXCEPT ![ItemOf(r)] = tx[r].read + tx[r].move]
  BY UpdateItemLocal
<1>2. Formed(r) /\ Written(r) /\ Recorded(r) /\ lot' = lot
  BY <1>1 DEF StockInv, Alone, Quiet
<1>3. Formed(r)'
  BY <1>1, <1>2 DEF Formed
<1>4. Written(r)'
  BY <1>1, <1>2 DEF Written
<1>5. Recorded(r)'
  <2>1. ItemOf(r)' = ItemOf(r) /\ tx[r].stock \in [Item -> Nat \cup {None}]
    BY <1>1, AtLine DEF ItemOf, DocLine, Transaction
  <2>2. \A i \in Item : tx'[r].stock[i] = IF i = ItemOf(r) THEN tx[r].read + tx[r].move
                                                           ELSE tx[r].stock[i]
    BY <1>1, <2>1
  <2> QED BY <1>1, <1>2, <2>1, <2>2 DEF Recorded
<1> QED BY <1>1, <1>3, <1>4, <1>5 DEF Sound

(* The movement of the line r is at. *)
LineMovement(r) == [id |-> <<r, tx[r].k>>, item |-> ItemOf(r), qty |-> tx[r].move,
                    result |-> tx[r].read + tx[r].move]

(* stockMovement.create records the quantity moved and the one it results in;
   then comes the lot, or the next line. *)
LEMMA InsertMovementLocal ==
    ASSUME StockInv, NEW r \in Req, InsertMovement(r),
           NEW u, u = [tx[r] EXCEPT !.moves = @ \cup {LineMovement(r)}]
    PROVE  /\ tx[r].pc = "movement" /\ Quiet
           /\ u \in Transaction /\ LineMovement(r) \in Movement
           /\ u.doc = tx[r].doc /\ u.k = tx[r].k /\ u.plan = tx[r].plan
           /\ u.date = tx[r].date /\ u.read = tx[r].read /\ u.move = tx[r].move
           /\ u.stock = tx[r].stock /\ u.rest = tx[r].rest
           /\ u.moves = tx[r].moves \cup {LineMovement(r)}
           /\ LineMovement(r) \notin tx[r].moves /\ LineMovement(r) \notin movement
           /\ tx' = [tx EXCEPT ![r] = IF CreatesLot(r) THEN [u EXCEPT !.pc = "lot"]
                                                       ELSE AtNextLine(u)]
           /\ tx[r].rest[<<r, tx[r].k>>] = None
<1> DEFINE t == tx[r]
           m == LineMovement(r)
<1>1. /\ t.pc = "movement" /\ tx \in [Req -> Transaction] /\ t \in Transaction
      /\ Formed(r) /\ Written(r) /\ ItemOf(r) \in Item
      /\ <<r, t.k>> \in Id /\ lot[<<r, t.k>>] = None
  BY AtLine DEF InsertMovement
<1>2. t.read + t.move \in Nat /\ t.move \in Int
  BY <1>1 DEF Formed, Transaction
<1>3. m \in Movement
  BY <1>1, <1>2 DEF LineMovement, Movement
<1>4. m.id = <<r, t.k>>
  BY DEF LineMovement
<1>5. m \notin t.moves
  BY <1>1, <1>4 DEF Written
<1>6. m \notin movement
  BY <1>1, <1>4 DEF StockInv
<1>7. t.rest[<<r, t.k>>] = None
  BY <1>1 DEF Written
<1>8. tx' = [tx EXCEPT ![r] = IF CreatesLot(r) THEN [u EXCEPT !.pc = "lot"]
                                               ELSE AtNextLine(u)] /\ Quiet
  BY DEF InsertMovement, LineMovement
<1> HIDE DEF m
<1>9. t.moves \cup {m} \in SUBSET Movement
  BY <1>1, <1>3 DEF Transaction
<1>10. u = [t EXCEPT !.moves = t.moves \cup {m}]
  BY DEF m
<1>11. u \in Transaction
  BY <1>1, <1>9, <1>10 DEF Transaction
<1>12. /\ u.doc = t.doc /\ u.k = t.k /\ u.plan = t.plan /\ u.date = t.date
       /\ u.read = t.read /\ u.move = t.move
       /\ u.stock = t.stock /\ u.rest = t.rest /\ u.moves = t.moves \cup {m}
  BY <1>1, <1>10 DEF Transaction
<1> QED BY <1>1, <1>3, <1>5, <1>6, <1>7, <1>8, <1>11, <1>12 DEF m

(* It is sound. *)
LEMMA InsertMovementSound ==
    ASSUME StockInv, NEW r \in Req, InsertMovement(r)
    PROVE  Sound(r)
<1> DEFINE u == [tx[r] EXCEPT !.moves = @ \cup {LineMovement(r)}]
           m == LineMovement(r)
<1>1. /\ tx[r].pc = "movement" /\ Quiet /\ u \in Transaction /\ m \in Movement
      /\ u.doc = tx[r].doc /\ u.k = tx[r].k /\ u.plan = tx[r].plan
      /\ u.read = tx[r].read /\ u.move = tx[r].move
      /\ u.stock = tx[r].stock /\ u.rest = tx[r].rest
      /\ u.moves = tx[r].moves \cup {m} /\ m \notin tx[r].moves
      /\ tx' = [tx EXCEPT ![r] = IF CreatesLot(r) THEN [u EXCEPT !.pc = "lot"]
                                                  ELSE AtNextLine(u)]
      /\ tx[r].rest[<<r, tx[r].k>>] = None
  BY InsertMovementLocal
<1>2. /\ tx \in [Req -> Transaction] /\ tx[r] \in Transaction
      /\ Formed(r) /\ Written(r) /\ Recorded(r)
      /\ tx[r].doc \in Document /\ tx[r].k <= Len(tx[r].doc) /\ tx[r].k \in 1 .. Len(tx[r].doc)
  BY <1>1, AtLine
<1>3. /\ m.id = <<r, tx[r].k>> /\ m.item = tx[r].doc[tx[r].k].item /\ m.qty = tx[r].move
      /\ m.result = tx[r].read + tx[r].move /\ m.item = ItemOf(r)
      /\ m.id[1] = r /\ m.id[2] = tx[r].k
  BY DEF LineMovement, ItemOf, DocLine
<1>4. lot' = lot
  BY <1>1 DEF Quiet
<1> HIDE DEF u, m
<1>5. IsFiniteSet(u.moves)
  BY <1>1, <1>2, FS_AddElement DEF Written
<1>6. \A x \in u.moves : /\ x.id[1] = r /\ x.id[2] <= u.k
                         /\ x.item = u.doc[x.id[2]].item
  <2>1. tx[r].k \in Nat /\ tx[r].k <= tx[r].k
    BY <1>2
  <2>2. /\ m.id[1] = r /\ m.id[2] <= u.k /\ m.item = u.doc[m.id[2]].item
    BY <1>1, <1>3, <2>1
  <2>3. \A x \in tx[r].moves : /\ x.id[1] = r /\ x.id[2] <= u.k
                               /\ x.item = u.doc[x.id[2]].item
    BY <1>1, <1>2 DEF Written
  <2>4. u.moves = tx[r].moves \cup {m}
    BY <1>1
  <2> QED BY <2>2, <2>3, <2>4
<1>7. \A x, y \in u.moves : x.id = y.id => x = y
  BY <1>1, <1>2, <1>3 DEF Written
<1>8. \A d \in Id : u.rest[d] # None =>
        lot[d] # None \/ \E x \in u.moves : x.id = d /\ x.qty > 0
  BY <1>1, <1>2 DEF Written
<1>9. \A i \in Item : u.stock[i] \notin {None, 0} =>
        \E x \in u.moves : x.item = i /\ x.result = u.stock[i]
  BY <1>1, <1>2, <1>3 DEF Recorded
<1>10. CASE CreatesLot(r)
  <2>1. tx'[r] = [u EXCEPT !.pc = "lot"] /\ Alone(r)
    BY <1>1, <1>2, <1>10 DEF Alone
  <2>2. /\ tx'[r] \in Transaction /\ tx'[r].pc = "lot"
        /\ tx'[r].doc = u.doc /\ tx'[r].k = u.k /\ tx'[r].plan = u.plan
        /\ tx'[r].read = u.read /\ tx'[r].move = u.move
        /\ tx'[r].stock = u.stock /\ tx'[r].rest = u.rest /\ tx'[r].moves = u.moves
    <3>1. u \in Transaction
      BY <1>1
    <3>2. tx'[r] \in Transaction
      BY <2>1, <3>1 DEF Transaction
    <3> QED BY <2>1, <3>1, <3>2 DEF Transaction
  <2>3. Formed(r)'
    BY <1>1, <1>2, <1>10, <2>2 DEF Formed, CreatesLot
  <2>4. Written(r)'
    <3>1. \A n \in DOMAIN u.plan : lot[u.plan[n][1]] # None \/ u.rest[u.plan[n][1]] # None
      BY <1>1, <1>2 DEF Written
    <3>2. \E x \in u.moves : x.id = <<r, u.k>> /\ x.qty > 0
      BY <1>1, <1>3, <1>10 DEF CreatesLot
    <3> QED BY <1>4, <1>5, <1>6, <1>7, <1>8, <2>2, <3>1, <3>2 DEF Written
  <2>5. Recorded(r)'
    BY <1>9, <2>2 DEF Recorded
  <2> QED BY <1>1, <2>1, <2>2, <2>3, <2>4, <2>5 DEF Sound
<1>11. CASE ~CreatesLot(r)
  <2>1. tx' = [tx EXCEPT ![r] = AtNextLine(u)] /\ \A d \in Id : tx[r].rest[d] # None => u.rest[d] # None
    BY <1>1, <1>11
  <2> QED BY <1>1, <1>5, <1>6, <1>7, <1>8, <1>9, <2>1, LoopSound
<1> QED BY <1>10, <1>11

(* stockLot.create for what the line received; then comes the next line. *)
LEMMA InsertLotLocal ==
    ASSUME StockInv, NEW r \in Req, InsertLot(r),
           NEW u, u = [tx[r] EXCEPT !.rest[<<r, tx[r].k>>] = tx[r].move]
    PROVE  /\ tx[r].pc = "lot" /\ Quiet /\ u \in Transaction
           /\ u.doc = tx[r].doc /\ u.k = tx[r].k /\ u.plan = tx[r].plan
           /\ u.date = tx[r].date /\ u.stock = tx[r].stock /\ u.moves = tx[r].moves
           /\ u.rest = [tx[r].rest EXCEPT ![<<r, tx[r].k>>] = tx[r].move]
           /\ tx' = [tx EXCEPT ![r] = AtNextLine(u)]
           /\ tx[r].move \in Nat /\ tx[r].move > 0 /\ tx[r].rest[<<r, tx[r].k>>] = None
<1> DEFINE t == tx[r]
<1>1. /\ t.pc = "lot" /\ tx \in [Req -> Transaction] /\ t \in Transaction
      /\ Formed(r) /\ <<r, t.k>> \in Id
  BY AtLine DEF InsertLot
<1>2. t.move \in Nat /\ t.move > 0 /\ t.rest[<<r, t.k>>] = None
  BY <1>1 DEF Formed, Transaction
<1>3. tx' = [tx EXCEPT ![r] = AtNextLine(u)] /\ Quiet
  BY <1>1 DEF InsertLot
<1>4. u = [t EXCEPT !.rest = [t.rest EXCEPT ![<<r, t.k>>] = t.move]]
  BY <1>1 DEF Transaction
<1>5. [t.rest EXCEPT ![<<r, t.k>>] = t.move] \in [Id -> Nat \cup {None}]
  BY <1>1, <1>2 DEF Transaction
<1>6. u \in Transaction
  BY <1>1, <1>4, <1>5 DEF Transaction
<1> QED BY <1>1, <1>2, <1>3, <1>4, <1>6 DEF Transaction

(* It is sound. *)
LEMMA InsertLotSound ==
    ASSUME StockInv, NEW r \in Req, InsertLot(r)
    PROVE  Sound(r)
<1> DEFINE u == [tx[r] EXCEPT !.rest[<<r, tx[r].k>>] = tx[r].move]
           d == <<r, tx[r].k>>
<1>1. /\ tx[r].pc = "lot" /\ Quiet /\ u \in Transaction
      /\ u.doc = tx[r].doc /\ u.k = tx[r].k /\ u.plan = tx[r].plan
      /\ u.stock = tx[r].stock /\ u.moves = tx[r].moves
      /\ u.rest = [tx[r].rest EXCEPT ![d] = tx[r].move]
      /\ tx' = [tx EXCEPT ![r] = AtNextLine(u)]
      /\ tx[r].move \in Nat /\ tx[r].move > 0
  BY InsertLotLocal
<1>2. /\ tx[r] \in Transaction /\ Formed(r) /\ Written(r) /\ Recorded(r) /\ d \in Id
      /\ tx[r].rest \in [Id -> Nat \cup {None}]
  BY <1>1, AtLine DEF Transaction
<1>3. None \notin Nat
  BY StockConstants
<1> HIDE DEF u, d
<1>4. \A x \in Id : u.rest[x] = IF x = d THEN tx[r].move ELSE tx[r].rest[x]
  BY <1>1, <1>2
<1>5. \A x \in Id : tx[r].rest[x] # None => u.rest[x] # None
  BY <1>1, <1>3, <1>4
<1>6. \E m \in tx[r].moves : m.id = d /\ m.qty > 0
  BY <1>1, <1>2 DEF Written, d
<1>7. \A x \in Id : u.rest[x] # None =>
        lot[x] # None \/ \E m \in u.moves : m.id = x /\ m.qty > 0
  BY <1>1, <1>2, <1>4, <1>6 DEF Written
<1>8. \A i \in Item : u.stock[i] \notin {None, 0} =>
        \E m \in u.moves : m.item = i /\ m.result = u.stock[i]
  BY <1>1, <1>2 DEF Recorded
<1>9. /\ IsFiniteSet(u.moves)
      /\ \A m \in u.moves : m.id[1] = r /\ m.id[2] <= u.k /\ m.item = u.doc[m.id[2]].item
      /\ \A m, n \in u.moves : m.id = n.id => m = n
  BY <1>1, <1>2 DEF Written
<1> QED BY <1>1, <1>5, <1>7, <1>8, <1>9, LoopSound

(* Every statement before the commit is sound. *)
LEMMA AdvanceSound ==
    ASSUME StockInv, NEW r \in Req, Advance(r), ~Commit(r)
    PROVE  Sound(r)
<1>1. CASE Answer(r)
  BY <1>1, GotoSound DEF Answer
<1> QED BY <1>1, InsertItemSound, ReadItemSound, ReadLotsSound, TakeSound, EndTakingSound,
           UpdateItemSound, InsertMovementSound, InsertLotSound DEF Advance

-----------------------------------------------------------------------------
(* The commit. *)

(* r commits what it has written so far, and is over: rejected or committed
   when it was answered, and cut when the connection closed before. *)
Commits(r) ==
    /\ tx[r].pc \in Running /\ Persist(r)
    /\ \/ tx[r].pc = "answered" /\ End(r, "committed")
       \/ tx[r].pc = "refused" /\ End(r, "rejected")
       \/ End(r, "cut")

(* Rows that a commit leaves behind. *)
LEMMA PersistRows ==
    ASSUME StockInv, NEW r \in Req, tx[r].pc \in Running, Persist(r)
    PROVE  /\ stock' \in [Item -> Nat \cup {None}] /\ movement' \subseteq Movement
           /\ lot' \in [Id -> Lot \cup {None}]
           /\ \A i \in Item : stock'[i] = QuantityOnHand(r, i)
           /\ movement' = SeenMoves(r) /\ Lots' = SeenLots(r)
           /\ \A d \in Lots : /\ lot'[d] # None /\ lot'[d].item = lot[d].item
                              /\ lot'[d].date = lot[d].date
           /\ \A d \in SeenLots(r) : /\ lot'[d].rest = Remaining(r, d)
                                     /\ lot'[d].item = LotItem(r, d)
           /\ \A d \in Id : tx[r].rest[d] = None => lot'[d] = lot[d]
<1>1. /\ tx[r] \in Transaction /\ Written(r)
  BY AtLine
<1>2. stock' \in [Item -> Nat \cup {None}] /\ \A i \in Item : stock'[i] = QuantityOnHand(r, i)
  BY <1>1 DEF Persist, QuantityOnHand, StockInv, TypeOK, Transaction
<1>3. movement' \subseteq Movement /\ movement' = SeenMoves(r)
  BY <1>1 DEF Persist, SeenMoves, StockInv, TypeOK, Transaction
<1>4. None \notin Nat \cup Lot
  BY StockConstants
<1>5. ASSUME NEW d \in Id
      PROVE  /\ lot'[d] \in Lot \cup {None}
             /\ lot'[d] # None <=> d \in SeenLots(r)
             /\ tx[r].rest[d] = None => lot'[d] = lot[d]
             /\ lot[d] # None => /\ lot'[d].item = lot[d].item /\ lot'[d].date = lot[d].date
             /\ d \in SeenLots(r) => /\ lot'[d].rest = Remaining(r, d)
                                     /\ lot'[d].item = LotItem(r, d)
  <2>1. lot[d] \in Lot \cup {None} /\ tx[r].rest[d] \in Nat \cup {None}
    BY <1>1 DEF StockInv, TypeOK, Transaction
  <2>2. CASE tx[r].rest[d] = None
    <3>1. lot'[d] = lot[d]
      BY <2>2 DEF Persist
    <3> QED BY <2>1, <2>2, <3>1 DEF SeenLots, Remaining, LotItem
  <2>3. CASE tx[r].rest[d] # None /\ lot[d] # None
    <3>1. lot'[d] = [lot[d] EXCEPT !.rest = tx[r].rest[d]]
      BY <2>3 DEF Persist
    <3>2. /\ lot'[d] \in Lot /\ lot'[d].item = lot[d].item /\ lot'[d].date = lot[d].date
          /\ lot'[d].rest = tx[r].rest[d]
      BY <2>1, <2>3, <3>1 DEF Lot
    <3> QED BY <1>4, <2>3, <3>2 DEF SeenLots, Remaining, LotItem
  <2>4. CASE tx[r].rest[d] # None /\ lot[d] = None
    <3> DEFINE m == CHOOSE m \in tx[r].moves : m.id = d
    <3>1. PICK n \in tx[r].moves : n.id = d /\ n.qty > 0
      BY <1>1, <2>4 DEF Written
    <3>2. m \in tx[r].moves /\ m.id = d
      BY <3>1
    <3>3. m = n
      BY <1>1, <3>1, <3>2 DEF Written
    <3>4. n \in Movement
      BY <1>1 DEF Transaction
    <3>5. m.qty \in Nat /\ LotItem(r, d) \in Item
      BY <1>1, <2>4, <3>1, <3>3, <3>4 DEF Written, Movement, LotItem
    <3>6. lot'[d] = [item |-> LotItem(r, d), date |-> tx[r].date, initial |-> m.qty,
                     rest |-> tx[r].rest[d]]
      BY <2>4 DEF Persist
    <3> HIDE DEF m
    <3>7. lot'[d] \in Lot
      BY <1>1, <2>1, <2>4, <3>5, <3>6 DEF Lot, Transaction
    <3> QED BY <1>4, <2>4, <3>6, <3>7 DEF SeenLots, Remaining
  <2> QED BY <2>2, <2>3, <2>4
<1>6. lot' \in [Id -> Lot \cup {None}]
  <2>1. lot' = [d \in Id |-> lot'[d]]
    BY DEF Persist
  <2> QED BY <1>5, <2>1
<1>7. Lots' = SeenLots(r)
  BY <1>5 DEF Lots, SeenLots
<1>8. SeenLots(r) \subseteq Id /\ Lots \subseteq SeenLots(r)
  BY DEF SeenLots, Lots
<1> QED BY <1>2, <1>3, <1>5, <1>6, <1>7, <1>8 DEF Lots

(* A commit keeps the invariant. *)
LEMMA CommitStep ==
    ASSUME StockInv, NEW r \in Req, Commits(r)
    PROVE  /\ StockInv' /\ InFlight' = InFlight \ {r}
           /\ tx' = [tx EXCEPT ![r] = tx'[r]] /\ tx'[r].pc \in Finished
           /\ \A q \in Req \ {r} : tx'[q] = tx[q]
           /\ tx'[r].pc # "cut" => tx[r].pc \in {"answered", "refused"}
<1>0. tx[r].pc \in Running /\ Persist(r)
  BY DEF Commits
<1>1. PICK label \in Finished : /\ End(r, label)
                                /\ label # "cut" => tx[r].pc \in {"answered", "refused"}
  BY DEF Commits
<1>2. /\ tx' = [tx EXCEPT ![r] = tx'[r]] /\ tx'[r] \in Transaction /\ tx'[r].pc = label
      /\ (Formed(r) /\ Written(r) /\ Recorded(r))'
  BY <1>1, EndLocal
<1>3. tx \in [Req -> Transaction]
  BY DEF StockInv, TypeOK
<1>4. tx' \in [Req -> Transaction] /\ \A q \in Req \ {r} : tx'[q] = tx[q]
  BY <1>2, <1>3
<1>5. /\ stock' \in [Item -> Nat \cup {None}] /\ movement' \subseteq Movement
      /\ lot' \in [Id -> Lot \cup {None}]
      /\ movement' = SeenMoves(r) /\ Lots' = SeenLots(r)
      /\ \A d \in Lots : lot'[d] # None
      /\ \A d \in Id : tx[r].rest[d] = None => lot'[d] = lot[d]
  BY <1>0, PersistRows
<1>6. TypeOK'
  BY <1>4, <1>5 DEF TypeOK
<1>7. InFlight' = InFlight \ {r}
  BY <1>2, <1>4 DEF InFlight
<1>8. IsFiniteSet(InFlight') /\ IsFiniteSet(movement') /\ IsFiniteSet(Lots')
  BY <1>5, <1>7, SeenFinite, FS_Subset DEF StockInv
<1>9. Written(r)
  BY DEF StockInv
<1>10. \A q \in Req : tx[q].pc \in Finished => tx'[q].pc \in Finished
  BY <1>2, <1>4
<1>11. \A m \in movement' : tx'[m.id[1]].pc \in Finished
  <2>1. ASSUME NEW m \in movement PROVE tx'[m.id[1]].pc \in Finished
    <3>1. m.id[1] \in Req /\ tx[m.id[1]].pc \in Finished
      BY DEF StockInv, TypeOK, Movement, Id
    <3> QED BY <1>10, <3>1
  <2>2. ASSUME NEW m \in tx[r].moves PROVE tx'[m.id[1]].pc \in Finished
    BY <1>2, <1>9 DEF Written
  <2> QED BY <1>5, <2>1, <2>2 DEF SeenMoves
<1>12. \A d \in Lots' : tx'[d[1]].pc \in Finished
  <2>1. ASSUME NEW d \in Lots PROVE tx'[d[1]].pc \in Finished
    <3>1. d[1] \in Req /\ tx[d[1]].pc \in Finished
      BY DEF StockInv, Lots, Id
    <3> QED BY <1>10, <3>1
  <2>2. ASSUME NEW d \in Id, lot[d] = None, tx[r].rest[d] # None PROVE tx'[d[1]].pc \in Finished
    BY <1>2, <1>9, <2>2 DEF Written
  <2> QED BY <1>5, <2>1, <2>2 DEF SeenLots, Lots
<1>13. ASSUME NEW q \in Req PROVE (Formed(q) /\ Written(q) /\ Recorded(q))'
  <2>1. CASE q = r
    BY <1>2, <2>1
  <2>2. CASE q # r
    <3>1. Formed(q) /\ Written(q) /\ Recorded(q) /\ tx'[q] = tx[q]
      BY <1>4, <2>2 DEF StockInv
    <3>2. Formed(q)'
      BY <3>1 DEF Formed, ItemOf, DocLine
    <3>3. Written(q)'
      <4>1. \A d \in Id : lot[d] # None => lot'[d] # None
        BY <1>5 DEF Lots
      <4>2. \A n \in DOMAIN tx[q].plan : tx[q].plan[n][1] \in Id
        BY <1>3 DEF Transaction
      <4> QED BY <3>1, <4>1, <4>2 DEF Written
    <3>4. Recorded(q)'
      BY <3>1 DEF Recorded, ItemOf, DocLine
    <3> QED BY <3>2, <3>3, <3>4
  <2> QED BY <2>1, <2>2
<1>14. StockInv'
  BY <1>6, <1>8, <1>11, <1>12, <1>13 DEF StockInv
<1> QED BY <1>1, <1>2, <1>4, <1>7, <1>14

-----------------------------------------------------------------------------
(* A request that runs alone: what it sees. *)

(* The quantities r sees are natural numbers. *)
LEMMA OnHandType ==
    ASSUME StockInv, NEW r \in Req, NEW i \in Item
    PROVE  /\ OnHand(r, i) \in Nat
           /\ QuantityOnHand(r, i) \in Nat => OnHand(r, i) = QuantityOnHand(r, i)
<1>1. tx[r].stock[i] \in Nat \cup {None} /\ stock[i] \in Nat \cup {None} /\ None \notin Nat
  BY StockConstants DEF StockInv, TypeOK, Transaction
<1> QED BY <1>1 DEF OnHand, ZeroIfNone, QuantityOnHand

(* The sums over what r sees are over finite sets of numbers. *)
LEMMA SeenTypes ==
    ASSUME StockInv, NEW r \in Req, NEW i \in Item
    PROVE  SeenMoved(r, i) \in Int /\ SeenIn(r, i) \in Nat
<1>1. SeenMoves(r) \subseteq Movement
  BY DEF SeenMoves, StockInv, TypeOK, Transaction
<1>2. IsFiniteSet({m \in SeenMoves(r) : m.item = i}) /\ IsFiniteSet({d \in SeenLots(r) : LotItem(r, d) = i})
  BY SeenFinite, FS_Subset
<1>3. SeenMoved(r, i) \in Int
  <2> DEFINE S == {m \in SeenMoves(r) : m.item = i}
             f == Quantities(SeenMoves(r))
  <2>1. \A m \in S : f[m] \in Int
    BY <1>1 DEF Quantities, Movement
  <2>2. SeenMoved(r, i) = SumFunctionOnSet(f, S)
    BY DEF SeenMoved
  <2> HIDE DEF S, f
  <2>3. IsFiniteSet(S)
    BY <1>2 DEF S
  <2> QED BY <2>1, <2>2, <2>3, SumInt
<1>4. SeenIn(r, i) \in Nat
  <2> DEFINE S == {d \in SeenLots(r) : LotItem(r, d) = i}
             f == [d \in SeenLots(r) |-> Remaining(r, d)]
  <2>1. \A d \in S : f[d] \in Nat
    BY RemainingType
  <2>2. SeenIn(r, i) = SumFunctionOnSet(f, S)
    BY DEF SeenIn
  <2> HIDE DEF S, f
  <2>3. IsFiniteSet(S)
    BY <1>2 DEF S
  <2> QED BY <2>1, <2>2, <2>3, SumNat
<1> QED BY <1>3, <1>4

(* A step that writes no lot changes nothing in what r sees of them. *)
LEMMA SameLots ==
    ASSUME Quiet, NEW r \in Req, NEW i \in Item,
           tx'[r].doc = tx[r].doc, tx'[r].rest = tx[r].rest
    PROVE  /\ SeenIn(r, i)' = SeenIn(r, i) /\ SeenLots(r)' = SeenLots(r)
           /\ \A d : Remaining(r, d)' = Remaining(r, d) /\ LotItem(r, d)' = LotItem(r, d)
<1>1. lot' = lot
  BY DEF Quiet
<1>2. SeenLots(r)' = SeenLots(r)
  BY <1>1 DEF SeenLots
<1>3. \A d : Remaining(r, d)' = Remaining(r, d) /\ LotItem(r, d)' = LotItem(r, d)
  BY <1>1 DEF Remaining, LotItem
<1>4. [d \in SeenLots(r) |-> Remaining(r, d)]' = [d \in SeenLots(r) |-> Remaining(r, d)]
  BY <1>2, <1>3
<1>5. {d \in SeenLots(r) : LotItem(r, d) = i}' = {d \in SeenLots(r) : LotItem(r, d) = i}
  BY <1>2, <1>3
<1> QED BY <1>2, <1>3, <1>4, <1>5 DEF SeenIn

(* A step that writes no movement changes nothing in what r sees of them. *)
LEMMA SameMoves ==
    ASSUME Quiet, NEW r \in Req, NEW i \in Item, tx'[r].moves = tx[r].moves
    PROVE  SeenMoved(r, i)' = SeenMoved(r, i)
<1>1. SeenMoves(r)' = SeenMoves(r)
  BY DEF SeenMoves, Quiet
<1> QED BY <1>1 DEF SeenMoved, Quantities

(* A step that writes no item changes no quantity r sees. *)
LEMMA SameOnHand ==
    ASSUME Quiet, NEW r \in Req, NEW i \in Item, tx'[r].stock[i] = tx[r].stock[i]
    PROVE  OnHand(r, i)' = OnHand(r, i)
BY DEF OnHand, ZeroIfNone, QuantityOnHand, Quiet

(* The movement of the line is added to those r sees. *)
LEMMA MovedMore ==
    ASSUME StockInv, NEW r \in Req, NEW i \in Item, NEW m \in Movement,
           m \notin SeenMoves(r), SeenMoves(r)' = SeenMoves(r) \cup {m}
    PROVE  SeenMoved(r, i)' = SeenMoved(r, i) + (IF m.item = i THEN m.qty ELSE 0)
<1> DEFINE M == SeenMoves(r)
           S == {x \in M : x.item = i}
           f == Quantities(M)
           g == Quantities(M \cup {m})
<1>1. M \subseteq Movement
  BY DEF SeenMoves, StockInv, TypeOK, Transaction
<1>2. IsFiniteSet(S)
  BY SeenFinite, FS_Subset
<1>3. /\ \A x \in S \cup {m} : g[x] \in Int
      /\ \A x \in S : g[x] = f[x]
      /\ g[m] = m.qty /\ m.qty \in Int /\ m \notin S
  BY <1>1 DEF Quantities, Movement
<1>4. SeenMoved(r, i) = SumFunctionOnSet(f, S)
  BY DEF SeenMoved
<1>5. SeenMoved(r, i)' = SumFunctionOnSet(g, {x \in M \cup {m} : x.item = i})
  BY DEF SeenMoved, Quantities
<1>6. SeenMoved(r, i) \in Int
  BY SeenTypes
<1>7. SeenMoved(r, i)' = SumFunctionOnSet(g, IF m.item = i THEN S \cup {m} ELSE S)
  <2>1. {x \in M \cup {m} : x.item = i} = IF m.item = i THEN S \cup {m} ELSE S
    OBVIOUS
  <2> QED BY <1>5, <2>1
<1> HIDE DEF M, S, f, g
<1>8. SumFunctionOnSet(g, S) = SumFunctionOnSet(f, S)
  BY <1>2, <1>3, SumSame
<1>9. CASE m.item = i
  <2>1. SumFunctionOnSet(g, S \cup {m}) = g[m] + SumFunctionOnSet(g, S)
    BY <1>2, <1>3, SumAdd
  <2> QED BY <1>3, <1>4, <1>6, <1>7, <1>8, <1>9, <2>1
<1>10. CASE m.item # i
  BY <1>4, <1>6, <1>7, <1>8, <1>10
<1> QED BY <1>9, <1>10

(* The lot of the line is added to those r sees. *)
LEMMA LotsMore ==
    ASSUME StockInv, NEW r \in Req, NEW i \in Item, NEW d \in Id, NEW n \in Nat, Quiet,
           tx'[r].doc = tx[r].doc, lot[d] = None, tx[r].rest[d] = None,
           \A b \in Id : tx'[r].rest[b] = IF b = d THEN n ELSE tx[r].rest[b]
    PROVE  SeenIn(r, i)' = SeenIn(r, i) + (IF tx[r].doc[d[2]].item = i THEN n ELSE 0)
<1> DEFINE V == SeenLots(r)
           S == {b \in V : LotItem(r, b) = i}
           f == [b \in V |-> Remaining(r, b)]
           g == [b \in V |-> Remaining(r, b)]'
<1>0. lot' = lot /\ None \notin Nat
  BY StockConstants DEF Quiet
<1>1. V' = V \cup {d} /\ d \notin V
  BY <1>0 DEF SeenLots
<1>2. IsFiniteSet(S)
  BY SeenFinite, FS_Subset
<1>3. \A b \in V : Remaining(r, b)' = Remaining(r, b) /\ Remaining(r, b) \in Nat
  <2>1. \A b \in V : Remaining(r, b) \in Nat /\ b \in Id
    BY RemainingType
  <2> QED BY <1>0, <1>1, <2>1 DEF Remaining
<1>4. Remaining(r, d)' = n /\ LotItem(r, d)' = tx[r].doc[d[2]].item
  BY <1>0 DEF Remaining, LotItem
<1>5. \A b : LotItem(r, b)' = LotItem(r, b)
  BY <1>0 DEF LotItem
<1>6. /\ \A b \in S \cup {d} : g[b] \in Int
      /\ \A b \in S : g[b] = f[b]
      /\ g[d] = n /\ d \notin S
  BY <1>1, <1>3, <1>4
<1>7. SeenIn(r, i) = SumFunctionOnSet(f, S)
  BY DEF SeenIn
<1>8. SeenIn(r, i)' = SumFunctionOnSet(g, {b \in V' : LotItem(r, b)' = i})
  BY DEF SeenIn
<1>9. SeenIn(r, i) \in Nat
  BY SeenTypes
<1>10. SeenIn(r, i)' = SumFunctionOnSet(g, IF tx[r].doc[d[2]].item = i THEN S \cup {d} ELSE S)
  <2>1. {b \in V' : LotItem(r, b)' = i} = IF tx[r].doc[d[2]].item = i THEN S \cup {d} ELSE S
    BY <1>1, <1>4, <1>5
  <2> QED BY <1>8, <2>1
<1> HIDE DEF V, S, f, g
<1>11. SumFunctionOnSet(g, S) = SumFunctionOnSet(f, S)
  BY <1>2, <1>6, SumSame
<1>12. CASE tx[r].doc[d[2]].item = i
  <2>1. SumFunctionOnSet(g, S \cup {d}) = g[d] + SumFunctionOnSet(g, S)
    BY <1>2, <1>6, SumAdd
  <2> QED BY <1>6, <1>7, <1>9, <1>10, <1>11, <1>12, <2>1
<1>13. CASE tx[r].doc[d[2]].item # i
  BY <1>7, <1>9, <1>10, <1>11, <1>13
<1> QED BY <1>12, <1>13

(* One of the lots r sees is reduced. *)
LEMMA LotsLess ==
    ASSUME StockInv, NEW r \in Req, NEW i \in Item, NEW d \in SeenLots(r), NEW n \in Nat, Quiet,
           tx'[r].doc = tx[r].doc,
           \A b \in Id : tx'[r].rest[b] = IF b = d THEN n ELSE tx[r].rest[b]
    PROVE  SeenIn(r, i)' = SeenIn(r, i)
                             + (IF LotItem(r, d) = i THEN n - Remaining(r, d) ELSE 0)
<1> DEFINE V == SeenLots(r)
           S == {b \in V : LotItem(r, b) = i}
           f == [b \in V |-> Remaining(r, b)]
           g == [b \in V |-> Remaining(r, b)]'
<1>0. lot' = lot /\ None \notin Nat /\ d \in Id
  BY StockConstants, RemainingType DEF Quiet
<1>1. V' = V
  BY <1>0 DEF SeenLots
<1>2. IsFiniteSet(S)
  BY SeenFinite, FS_Subset
<1>3. /\ \A b \in V : Remaining(r, b) \in Nat /\ b \in Id
      /\ \A b \in V : b # d => Remaining(r, b)' = Remaining(r, b)
      /\ Remaining(r, d)' = n
  <2>1. \A b \in V : Remaining(r, b) \in Nat /\ b \in Id
    BY RemainingType
  <2> QED BY <1>0, <2>1 DEF Remaining
<1>5. \A b : LotItem(r, b)' = LotItem(r, b)
  BY <1>0 DEF LotItem
<1>6. /\ \A b \in S : f[b] \in Int /\ g[b] \in Int
      /\ \A b \in S : b # d => f[b] = g[b]
      /\ g[d] = n /\ f[d] = Remaining(r, d) /\ (d \in S <=> LotItem(r, d) = i)
  BY <1>1, <1>3
<1>7. SeenIn(r, i) = SumFunctionOnSet(f, S)
  BY DEF SeenIn
<1>8. SeenIn(r, i)' = SumFunctionOnSet(g, S)
  <2>1. {b \in V : LotItem(r, b) = i}' = S
    BY <1>1, <1>5
  <2> QED BY <2>1 DEF SeenIn
<1>9. SeenIn(r, i) \in Nat
  BY SeenTypes
<1> HIDE DEF V, S, f, g
<1>10. CASE LotItem(r, d) = i
  <2>1. SumFunctionOnSet(g, S) = SumFunctionOnSet(f, S) + (g[d] - f[d])
    BY <1>2, <1>6, <1>10, SumChange
  <2> QED BY <1>6, <1>7, <1>8, <1>10, <2>1
<1>11. CASE LotItem(r, d) # i
  <2>1. SumFunctionOnSet(g, S) = SumFunctionOnSet(f, S)
    BY <1>2, <1>6, <1>11, SumSame
  <2> QED BY <1>7, <1>8, <1>9, <1>11, <2>1
<1> QED BY <1>10, <1>11

-----------------------------------------------------------------------------
(* A request that runs alone: its statements. *)

(* What r has taken stays in order while it writes no lot in the tables. *)
LEMMA KeepTaken ==
    ASSUME Quiet, NEW r \in Req, TakenInOrder(r),
           \A d \in Lots : tx'[r].rest[d] = tx[r].rest[d]
    PROVE  TakenInOrder(r)'
<1>1. lot' = lot /\ Lots' = Lots
  BY DEF Quiet, Lots
<1>2. \A d \in Lots : Remaining(r, d)' = Remaining(r, d)
  BY <1>1 DEF Remaining
<1> QED BY <1>1, <1>2 DEF TakenInOrder

(* Outside the statements that write, nothing is behind. *)
LEMMA NothingBehind ==
    ASSUME NEW r \in Req, NEW i \in Item,
           \/ tx[r].pc \notin {"take", "update", "movement", "lot"}
           \/ tx[r].pc = "update" /\ tx[r].move \in Int /\ tx[r].move > 0
    PROVE  MovesBehind(r, i) = 0 /\ LotsBehind(r, i) = 0
BY DEF MovesBehind, LotsBehind

(* A step that writes nothing and puts nothing behind keeps the books in
   agreement. *)
LEMMA KeepAgree ==
    ASSUME StockInv, Quiet, NEW r \in Req, SeenAgree(r),
           tx'[r].doc = tx[r].doc, tx'[r].moves = tx[r].moves, tx'[r].rest = tx[r].rest,
           \A i \in Item : OnHand(r, i)' = OnHand(r, i),
           tx'[r].pc \in {"lots", "take", "update"} => tx'[r].read = OnHand(r, ItemOf(r)'),
           \A i \in Item : MovesBehind(r, i)' = MovesBehind(r, i),
           \A i \in Fifo : LotsBehind(r, i)' = LotsBehind(r, i),
           tx'[r].pc \in {"lots", "take", "update"} => ItemOf(r)' \in Item
    PROVE  SeenAgree(r)'
<1>1. \A i \in Item : SeenMoved(r, i)' = SeenMoved(r, i) /\ SeenIn(r, i)' = SeenIn(r, i)
  BY SameLots, SameMoves
<1>2. \A i \in Item : /\ SeenMoved(r, i) = OnHand(r, i) - MovesBehind(r, i)
                      /\ i \in Fifo => SeenIn(r, i) = OnHand(r, i) - LotsBehind(r, i)
  BY DEF SeenAgree
<1>3. \A i \in Item : /\ SeenMoved(r, i)' = OnHand(r, i)' - MovesBehind(r, i)'
                      /\ i \in Fifo => SeenIn(r, i)' = OnHand(r, i)' - LotsBehind(r, i)'
  BY <1>1, <1>2
<1>4. tx'[r].pc \in {"lots", "take", "update"} => tx'[r].read = OnHand(r, ItemOf(r))'
  <2> SUFFICES ASSUME tx'[r].pc \in {"lots", "take", "update"}
               PROVE  tx'[r].read = OnHand(r, ItemOf(r))'
    OBVIOUS
  <2>1. PICK i \in Item : i = ItemOf(r)' /\ tx'[r].read = OnHand(r, i)
    OBVIOUS
  <2>2. OnHand(r, i)' = OnHand(r, i)
    OBVIOUS
  <2>3. OnHand(r, ItemOf(r))' = OnHand(r, i)'
    BY <2>1 DEF OnHand, QuantityOnHand, ZeroIfNone
  <2> QED BY <2>1, <2>2, <2>3
<1> QED BY <1>3, <1>4 DEF SeenAgree

(* The statements of a request that runs alone keep its plan, take in order,
   and leave the books in agreement. *)
Serial(r) == PlanHolds(r) /\ TakenInOrder(r)

Follows(r) == Serial(r)' /\ (SeenAgree(r) => SeenAgree(r)')

(* An item that is new has nothing on hand before and after. *)
LEMMA InsertItemFollows ==
    ASSUME StockInv, NEW r \in Req, Serial(r), InsertItem(r), tx'[r].pc \in Running
    PROVE  Follows(r)
<1>0. tx[r].pc = "insert" /\ Quiet
  BY DEF InsertItem
<1>1. stock[ItemOf(r)] = None
  <2>1. SUFFICES ASSUME End(r, "rolledback") PROVE FALSE
    BY DEF InsertItem
  <2> QED BY <2>1, EndLocal
<1>2. /\ tx'[r].pc = (IF tx[r].move > 0 THEN "update" ELSE "audit")
      /\ tx'[r].doc = tx[r].doc
      /\ tx'[r].k = tx[r].k /\ tx'[r].read = 0 /\ tx'[r].move = tx[r].move
      /\ tx'[r].moves = {} /\ tx'[r].rest = tx[r].rest /\ tx[r].moves = {}
      /\ tx'[r].stock = [tx[r].stock EXCEPT ![ItemOf(r)] = 0]
      /\ \A i \in Item : tx[r].stock[i] = None
  BY <1>1, InsertItemLocal
<1>3. /\ tx[r].stock \in [Item -> Nat \cup {None}] /\ ItemOf(r) \in Item /\ tx[r].move \in Int
  BY <1>0, AtLine DEF Transaction
<1>4. Serial(r)'
  BY <1>0, <1>2, KeepTaken DEF Serial, PlanHolds
<1>5. \A i \in Item : OnHand(r, i)' = OnHand(r, i)
  <2>1. None \notin Nat /\ stock' = stock
    BY <1>0, StockConstants DEF Quiet
  <2>2. ASSUME NEW i \in Item PROVE OnHand(r, i)' = OnHand(r, i)
    <3>1. CASE i = ItemOf(r)
      <4>1. tx'[r].stock[i] = 0 /\ tx[r].stock[i] = None /\ stock[i] = None
        BY <1>1, <1>2, <1>3, <3>1
      <4> QED BY <2>1, <4>1 DEF OnHand, QuantityOnHand, ZeroIfNone
    <3>2. CASE i # ItemOf(r)
      <4>1. tx'[r].stock[i] = tx[r].stock[i]
        BY <1>2, <1>3, <3>2
      <4> QED BY <1>0, <4>1, SameOnHand
    <3> QED BY <3>1, <3>2
  <2> QED BY <2>2
<1>6. ItemOf(r)' = ItemOf(r)
  BY <1>2 DEF ItemOf, DocLine
<1>7. OnHand(r, ItemOf(r)) = 0
  BY <1>1, <1>2, <1>3 DEF OnHand, QuantityOnHand, ZeroIfNone
<1>8. \A i \in Item : /\ MovesBehind(r, i) = 0 /\ LotsBehind(r, i) = 0
                      /\ MovesBehind(r, i)' = 0 /\ LotsBehind(r, i)' = 0
  BY <1>0, <1>2, <1>3 DEF MovesBehind, LotsBehind
<1>9. Fifo \subseteq Item
  BY StockConstants
<1>10. SeenAgree(r) => SeenAgree(r)'
  BY <1>0, <1>2, <1>3, <1>5, <1>6, <1>7, <1>8, <1>9, KeepAgree
<1> QED BY <1>4, <1>10 DEF Follows

(* A handler that refuses, answers or goes to its next line writes nothing. *)
LEMMA PassFollows ==
    ASSUME StockInv, NEW r \in Req, Serial(r), Quiet,
           tx[r].pc \in {"insert", "item", "lots", "audit"},
           tx'[r].pc \in {"item", "audit", "answered", "refused"},
           tx'[r].doc = tx[r].doc, tx'[r].moves = tx[r].moves,
           tx'[r].rest = tx[r].rest, tx'[r].stock = tx[r].stock
    PROVE  Follows(r)
<1>1. Serial(r)'
  BY KeepTaken DEF Serial, PlanHolds
<1>2. \A i \in Item : OnHand(r, i)' = OnHand(r, i)
  BY SameOnHand
<1>3. \A i \in Item : /\ MovesBehind(r, i) = 0 /\ LotsBehind(r, i) = 0
                      /\ MovesBehind(r, i)' = 0 /\ LotsBehind(r, i)' = 0
  BY DEF MovesBehind, LotsBehind
<1>4. Fifo \subseteq Item
  BY StockConstants
<1>5. SeenAgree(r) => SeenAgree(r)'
  BY <1>2, <1>3, <1>4, KeepAgree
<1> QED BY <1>1, <1>5 DEF Follows

(* What a line reads is what is on hand. *)
LEMMA ReadItemFollows ==
    ASSUME StockInv, NEW r \in Req, Serial(r), ReadItem(r)
    PROVE  Follows(r)
<1> DEFINE t == tx[r]
           n == QuantityOnHand(r, ItemOf(r))
           m == Difference(r, n)
<1>0. t.pc = "item" /\ Quiet
  BY DEF ReadItem
<1>1. /\ tx \in [Req -> Transaction] /\ t \in Transaction
      /\ t.doc \in Document /\ t.k <= Len(t.doc)
      /\ DocLine(r).qty \in Nat /\ ItemOf(r) \in Item
  BY <1>0, AtLine
<1>2. CASE Goto(r, "refused")
  BY <1>0, <1>2, GotoLocal, PassFollows
<1>3. CASE tx' = [tx EXCEPT ![r] = AtNextLine(@)]
  <2>1. tx'[r] = AtNextLine(t)
    BY <1>1, <1>3
  <2>2. /\ AtNextLine(t).doc = t.doc /\ AtNextLine(t).stock = t.stock
        /\ AtNextLine(t).moves = t.moves /\ AtNextLine(t).rest = t.rest
        /\ AtNextLine(t).pc \in {"item", "audit"}
    BY <1>1, NextLine
  <2> QED BY <1>0, <2>1, <2>2, PassFollows
<1>4. CASE /\ n # None /\ Allowed(r, m, n)
           /\ tx' = [tx EXCEPT ![r].read = n, ![r].move = m,
                               ![r].need = IF m < 0 THEN -m ELSE 0,
                               ![r].pc = IF m < 0 /\ ItemOf(r) \in Fifo THEN "lots"
                                                                       ELSE "update"]
  <2>1. n \in Nat
    BY <1>1, <1>4 DEF QuantityOnHand, StockInv, TypeOK, Transaction
  <2>2. m \in Int
    BY <1>1, <2>1 DEF Difference
  <2>3. n = OnHand(r, ItemOf(r))
    BY <1>1, <2>1, OnHandType
  <2> HIDE DEF n, m
  <2>4. /\ tx'[r].pc = (IF m < 0 /\ ItemOf(r) \in Fifo THEN "lots" ELSE "update")
        /\ tx'[r].doc = t.doc /\ tx'[r].k = t.k
        /\ tx'[r].read = n /\ tx'[r].move = m
        /\ tx'[r].moves = t.moves /\ tx'[r].rest = t.rest /\ tx'[r].stock = t.stock
        /\ m # 0
    BY <1>0, <1>4, <2>1, <2>2, MoveReadLocal
  <2>5. Serial(r)'
    BY <1>0, <2>4, KeepTaken DEF Serial, PlanHolds
  <2>6. ItemOf(r)' = ItemOf(r)
    BY <2>4 DEF ItemOf, DocLine
  <2>7. \A i \in Item : /\ MovesBehind(r, i) = 0 /\ LotsBehind(r, i) = 0
                        /\ MovesBehind(r, i)' = 0
                        /\ i \in Fifo => LotsBehind(r, i)' = 0
    <3>1. \A i \in Item : MovesBehind(r, i) = 0 /\ LotsBehind(r, i) = 0
      BY <1>0, NothingBehind
    <3>2. \A i \in Item : MovesBehind(r, i)' = 0
      BY <2>4 DEF MovesBehind
    <3>3. ASSUME NEW i \in Fifo PROVE LotsBehind(r, i)' = 0
      BY <2>2, <2>4, <2>6 DEF LotsBehind
    <3> QED BY <3>1, <3>2, <3>3
  <2>8. Fifo \subseteq Item
    BY StockConstants
  <2>9. \A i \in Item : OnHand(r, i)' = OnHand(r, i)
    BY <1>0, <2>4, SameOnHand
  <2>10. SeenAgree(r) => SeenAgree(r)'
    BY <1>0, <1>1, <2>3, <2>4, <2>6, <2>7, <2>8, <2>9, KeepAgree
  <2> QED BY <2>5, <2>10 DEF Follows
<1> QED BY <1>2, <1>3, <1>4 DEF ReadItem

(* The lots r sees, by item and date, while none is written. *)
LEMMA SameView ==
    ASSUME Quiet, NEW r \in Req,
           tx'[r].doc = tx[r].doc, tx'[r].k = tx[r].k, tx'[r].date = tx[r].date
    PROVE  /\ ItemOf(r)' = ItemOf(r)
           /\ \A d : LotItem(r, d)' = LotItem(r, d) /\ LotDate(r, d)' = LotDate(r, d)
BY DEF Quiet, ItemOf, DocLine, LotItem, LotDate

(* The plan is all there is of the item, in order. *)
LEMMA ReadLotsFollows ==
    ASSUME StockInv, NEW r \in Req, Serial(r), ReadLots(r)
    PROVE  Follows(r)
<1>1. /\ tx'[r] \in Transaction /\ Alone(r)
      /\ tx[r].pc = "lots" /\ tx'[r].pc = "take"
      /\ tx'[r].doc = tx[r].doc /\ tx'[r].k = tx[r].k /\ tx'[r].date = tx[r].date
      /\ tx'[r].read = tx[r].read /\ tx'[r].move = tx[r].move /\ tx'[r].need = tx[r].need
      /\ tx'[r].moves = tx[r].moves /\ tx'[r].rest = tx[r].rest
      /\ tx'[r].stock = tx[r].stock
  BY ReadLotsLocal
<1>2. /\ \A n \in DOMAIN tx'[r].plan : /\ tx'[r].plan[n][1] \in Open(r)
                                       /\ tx'[r].plan[n][2] = Remaining(r, tx'[r].plan[n][1])
      /\ \A d \in Open(r) : \E n \in DOMAIN tx'[r].plan : tx'[r].plan[n][1] = d
      /\ \A m, n \in DOMAIN tx'[r].plan : m < n =>
            /\ tx'[r].plan[m][1] # tx'[r].plan[n][1]
            /\ LotDate(r, tx'[r].plan[m][1]) <= LotDate(r, tx'[r].plan[n][1])
  BY ReadLotsLocal
<1>3. Quiet /\ tx[r].move \in Int /\ tx[r].need = -tx[r].move /\ ItemOf(r) \in Item
  BY <1>1, AtLine DEF Alone, Formed, Transaction
<1>4. /\ ItemOf(r)' = ItemOf(r)
      /\ \A d : LotItem(r, d)' = LotItem(r, d) /\ LotDate(r, d)' = LotDate(r, d)
  BY <1>1, <1>3, SameView
<1>5. /\ SeenLots(r)' = SeenLots(r)
      /\ \A d : Remaining(r, d)' = Remaining(r, d)
  BY <1>1, <1>3 DEF SeenLots, Remaining, Quiet
<1>6. PlanHolds(r)'
  <2>1. \A n \in DOMAIN tx'[r].plan :
          /\ LotItem(r, tx'[r].plan[n][1]) = ItemOf(r)
          /\ Remaining(r, tx'[r].plan[n][1]) = tx'[r].plan[n][2] /\ tx'[r].plan[n][2] > 0
    BY <1>2 DEF Open
  <2>2. \A d \in SeenLots(r) : LotItem(r, d) = ItemOf(r) /\ Remaining(r, d) > 0 =>
          \E n \in DOMAIN tx'[r].plan : tx'[r].plan[n][1] = d
    BY <1>2 DEF Open, SeenLots
  <2> QED BY <1>2, <1>4, <1>5, <2>1, <2>2 DEF PlanHolds
<1>7. TakenInOrder(r)'
  BY <1>1, <1>3, KeepTaken DEF Serial
<1>8. \A i \in Item : /\ MovesBehind(r, i) = 0 /\ LotsBehind(r, i) = 0
                      /\ MovesBehind(r, i)' = 0 /\ LotsBehind(r, i)' = 0
  BY <1>1, <1>3 DEF MovesBehind, LotsBehind
<1>9. Fifo \subseteq Item
  BY StockConstants
<1>10. \A i \in Item : OnHand(r, i)' = OnHand(r, i)
  BY <1>1, <1>3, SameOnHand
<1>11. SeenAgree(r) => SeenAgree(r)'
  <2>1. SeenAgree(r) => tx[r].read = OnHand(r, ItemOf(r))
    BY <1>1 DEF SeenAgree
  <2> QED BY <1>1, <1>3, <1>4, <1>8, <1>9, <1>10, <2>1, KeepAgree
<1> QED BY <1>6, <1>7, <1>11 DEF Follows, Serial

(* What is taken is taken from the oldest lot that is left, and the lots are
   behind by what is taken. *)
LEMMA TakeFollows ==
    ASSUME StockInv, NEW r \in Req, Serial(r), TakeFromLot(r)
    PROVE  Follows(r)
<1> DEFINE t == tx[r]
           d == tx[r].plan[1][1]
           n == tx[r].plan[1][2]
<1>1. /\ tx'[r] \in Transaction /\ Alone(r)
      /\ t.pc = "take" /\ tx'[r].pc = "take"
      /\ tx'[r].doc = t.doc /\ tx'[r].k = t.k /\ tx'[r].date = t.date
      /\ tx'[r].read = t.read /\ tx'[r].move = t.move
      /\ tx'[r].moves = t.moves /\ tx'[r].stock = t.stock
      /\ t.need > 0 /\ t.need \in Nat
      /\ Taken(r) \in Nat /\ Taken(r) <= n /\ Taken(r) <= t.need
      /\ Taken(r) = n \/ Taken(r) = t.need
      /\ tx'[r].need = t.need - Taken(r)
      /\ d \in Id /\ n \in Nat /\ n - Taken(r) \in Nat
      /\ tx'[r].rest = [t.rest EXCEPT ![d] = n - Taken(r)]
      /\ 1 \in DOMAIN t.plan
  BY TakeLocal
<1>2. /\ \A j \in DOMAIN tx'[r].plan : /\ j + 1 \in DOMAIN t.plan /\ j \in Nat
                                       /\ tx'[r].plan[j] = t.plan[j + 1]
      /\ \A j \in DOMAIN t.plan : /\ j \in Nat
                                  /\ j # 1 => j - 1 \in DOMAIN tx'[r].plan
      /\ DOMAIN t.plan = 1 .. Len(t.plan)
  BY TakeLocal
<1>3. /\ Quiet /\ lot' = lot /\ None \notin Nat /\ t.rest \in [Id -> Nat \cup {None}]
      /\ ItemOf(r) \in Item /\ t.move \in Int /\ Written(r)
      /\ lot \in [Id -> Lot \cup {None}]
  BY <1>1, AtLine, StockConstants DEF Alone, Transaction, Quiet, StockInv, TypeOK
<1>4. \A x \in Id : tx'[r].rest[x] = IF x = d THEN n - Taken(r) ELSE t.rest[x]
  BY <1>1, <1>3
<1>5. /\ ItemOf(r)' = ItemOf(r)
      /\ \A x : LotItem(r, x)' = LotItem(r, x) /\ LotDate(r, x)' = LotDate(r, x)
  BY <1>1, <1>3, SameView
<1>6. /\ \A j \in DOMAIN t.plan :
           /\ LotItem(r, t.plan[j][1]) = ItemOf(r)
           /\ Remaining(r, t.plan[j][1]) = t.plan[j][2] /\ t.plan[j][2] > 0
      /\ \A i, j \in DOMAIN t.plan : i < j =>
           /\ t.plan[i][1] # t.plan[j][1]
           /\ LotDate(r, t.plan[i][1]) <= LotDate(r, t.plan[j][1])
      /\ \A x \in SeenLots(r) : LotItem(r, x) = ItemOf(r) /\ Remaining(r, x) > 0
           => \E j \in DOMAIN t.plan : t.plan[j][1] = x
  BY <1>1 DEF Serial, PlanHolds
<1>7. d \in SeenLots(r) /\ LotItem(r, d) = ItemOf(r) /\ Remaining(r, d) = n /\ n > 0
  BY <1>1, <1>3, <1>6 DEF Written, SeenLots
<1>8. Taken(r) > 0
  BY <1>1, <1>7
<1>9. SeenLots(r)' = SeenLots(r)
  BY <1>1, <1>3, <1>4, <1>7 DEF SeenLots
<1>10. \A x \in SeenLots(r) : Remaining(r, x)' = IF x = d THEN n - Taken(r) ELSE Remaining(r, x)
  <2>1. SeenLots(r) \subseteq Id
    BY DEF SeenLots
  <2> QED BY <1>1, <1>3, <1>4, <2>1 DEF Remaining
<1>11. \A j \in DOMAIN t.plan : t.plan[j][1] \in SeenLots(r)
  <2>0. t.plan \in Seq(Id \X Nat)
    BY <1>1, AtLine DEF Transaction
  <2>1. \A j \in DOMAIN t.plan : t.plan[j][1] \in Id
    <3> HIDE DEF t
    <3> QED BY <2>0
  <2> QED BY <1>3, <2>1 DEF Written, SeenLots
<1>12. \A j \in DOMAIN t.plan : j # 1 => t.plan[j][1] # d
  <2>1. \A j \in DOMAIN t.plan : j # 1 => 1 < j
    BY <1>2
  <2> QED BY <1>1, <1>6, <2>1
<1>13. \A j \in DOMAIN tx'[r].plan : j + 1 \in DOMAIN t.plan /\ j + 1 # 1
                                     /\ tx'[r].plan[j] = t.plan[j + 1]
  <2>1. ASSUME NEW j \in DOMAIN tx'[r].plan
        PROVE  j + 1 \in DOMAIN t.plan /\ j + 1 # 1 /\ tx'[r].plan[j] = t.plan[j + 1]
    <3>1. j \in Nat /\ j >= 1
      <4>1. tx'[r].plan \in Seq(Id \X Nat)
        BY <1>1 DEF Transaction
      <4> QED BY <4>1
    <3> QED BY <1>2, <3>1
  <2> QED BY <2>1
<1> HIDE DEF d, n, t
<1>14. PlanHolds(r)'
  <2>1. ASSUME NEW j \in DOMAIN tx'[r].plan
        PROVE  /\ LotItem(r, tx[r].plan[j][1])' = ItemOf(r)'
               /\ Remaining(r, tx[r].plan[j][1])' = tx'[r].plan[j][2] /\ tx'[r].plan[j][2] > 0
    <3>1. PICK x : x = t.plan[j + 1][1]
      OBVIOUS
    <3>2. x \in SeenLots(r) /\ x # d
      BY <1>11, <1>12, <1>13, <3>1
    <3>3. tx'[r].plan[j][1] = x /\ tx'[r].plan[j][2] = t.plan[j + 1][2]
      BY <1>13, <3>1
    <3>4. /\ LotItem(r, x) = ItemOf(r)
          /\ Remaining(r, x) = t.plan[j + 1][2] /\ t.plan[j + 1][2] > 0
      BY <1>6, <1>13, <3>1
    <3>5. Remaining(r, x)' = Remaining(r, x)
      BY <1>10, <3>2
    <3>6. LotItem(r, x)' = ItemOf(r)'
      BY <1>5, <3>4
    <3>7. LotItem(r, tx[r].plan[j][1])' = LotItem(r, x)'
      BY <3>3 DEF LotItem
    <3>8. Remaining(r, tx[r].plan[j][1])' = Remaining(r, x)'
      BY <3>3 DEF Remaining
    <3> QED BY <3>3, <3>4, <3>5, <3>6, <3>7, <3>8
  <2>2. ASSUME NEW i \in DOMAIN tx'[r].plan, NEW j \in DOMAIN tx'[r].plan, i < j
        PROVE  /\ tx'[r].plan[i][1] # tx'[r].plan[j][1]
               /\ LotDate(r, tx[r].plan[i][1])' <= LotDate(r, tx[r].plan[j][1])'
    <3>1. i + 1 < j + 1 /\ i + 1 \in DOMAIN t.plan /\ j + 1 \in DOMAIN t.plan
      BY <1>2, <2>2 DEF t
    <3>2. /\ t.plan[i + 1][1] # t.plan[j + 1][1]
          /\ LotDate(r, t.plan[i + 1][1]) <= LotDate(r, t.plan[j + 1][1])
      BY <1>6, <3>1
    <3>3. tx'[r].plan[i] = t.plan[i + 1] /\ tx'[r].plan[j] = t.plan[j + 1]
      BY <1>13
    <3>4. /\ LotDate(r, tx[r].plan[i][1])' = LotDate(r, t.plan[i + 1][1])
          /\ LotDate(r, tx[r].plan[j][1])' = LotDate(r, t.plan[j + 1][1])
      BY <1>3, <1>5, <3>3 DEF LotDate
    <3> QED BY <3>2, <3>3, <3>4
  <2>3. ASSUME tx'[r].need > 0, NEW x \in SeenLots(r)', LotItem(r, x)' = ItemOf(r)',
               Remaining(r, x)' > 0
        PROVE  \E j \in DOMAIN tx'[r].plan : tx'[r].plan[j][1] = x
    <3>1. Taken(r) = n
      BY <1>1, <2>3 DEF t, n
    <3>2. x # d /\ x \in SeenLots(r) /\ Remaining(r, x) > 0 /\ LotItem(r, x) = ItemOf(r)
      <4>1. x \in SeenLots(r) /\ LotItem(r, x) = ItemOf(r)
        BY <1>5, <1>9, <2>3
      <4>2. n - Taken(r) = 0
        BY <1>1, <3>1 DEF n
      <4> QED BY <1>10, <2>3, <4>1, <4>2
    <3>3. PICK j \in DOMAIN t.plan : t.plan[j][1] = x
      BY <1>6, <3>2
    <3>4. j # 1
      BY <3>2, <3>3 DEF d, t
    <3>5. j - 1 \in DOMAIN tx'[r].plan /\ (j - 1) + 1 = j
      BY <1>2, <3>4 DEF t
    <3>6. tx'[r].plan[j - 1] = t.plan[j]
      BY <1>13, <3>5
    <3> QED BY <3>3, <3>5, <3>6
  <2> QED BY <2>1, <2>2, <2>3 DEF PlanHolds
<1>15. TakenInOrder(r)'
  <2>0. Lots' = Lots /\ Lots \subseteq SeenLots(r) /\ \A x \in Lots : lot'[x] = lot[x]
    BY <1>3 DEF Lots, SeenLots
  <2>1. \A x \in Lots : /\ x \in Id /\ lot[x].rest \in Nat
                        /\ LotItem(r, x) = lot[x].item /\ LotDate(r, x) = lot[x].date
                        /\ lot[x].date \in Nat
    <3>1. Date \subseteq Nat
      BY StockConstants
    <3> QED BY <1>3, <3>1 DEF Lots, Lot, LotItem, LotDate
  <2>2. ASSUME NEW x \in Lots, tx'[r].rest[x] # None
        PROVE  tx'[r].rest[x] < lot[x].rest
    <3>1. CASE x # d
      BY <1>4, <2>1, <2>2, <3>1 DEF Serial, TakenInOrder, t
    <3>2. CASE x = d
      <4>1. tx'[r].rest[x] = n - Taken(r)
        BY <1>4, <2>1, <3>2
      <4>2. n <= lot[x].rest
        <5>1. CASE tx[r].rest[x] = None
          BY <1>7, <2>1, <3>2, <5>1 DEF Remaining, n
        <5>2. CASE tx[r].rest[x] # None
          <6>1. tx[r].rest[x] < lot[x].rest /\ n = tx[r].rest[x]
            BY <1>7, <2>1, <3>2, <5>2 DEF Remaining, Serial, TakenInOrder, n
          <6> QED BY <1>1, <2>1, <6>1 DEF n
        <5> QED BY <5>1, <5>2
      <4>3. n \in Nat /\ Taken(r) \in Nat
        BY <1>1 DEF n
      <4> QED BY <1>8, <2>1, <4>1, <4>2, <4>3
    <3> QED BY <3>1, <3>2
  <2>3. ASSUME NEW x \in Lots, tx'[r].rest[x] # None, NEW b \in Lots,
               lot[b].item = lot[x].item, lot[b].date < lot[x].date
        PROVE  Remaining(r, b)' = 0
    <3>0. b \in SeenLots(r) /\ Remaining(r, b) \in Nat
      BY <2>0, RemainingType
    <3>1. CASE x # d
      <4>1. Remaining(r, b) = 0
        BY <1>4, <2>1, <2>3, <3>1 DEF Serial, TakenInOrder, t
      <4>2. b # d
        BY <1>1, <1>7, <4>1 DEF n, d
      <4> QED BY <1>10, <3>0, <4>1, <4>2
    <3>2. CASE x = d
      <4>1. b # d
        BY <2>1, <2>3, <3>2
      <4>2. SUFFICES ASSUME Remaining(r, b) > 0 PROVE FALSE
        BY <1>10, <3>0, <4>1
      <4>3. LotItem(r, b) = ItemOf(r)
        BY <1>7, <2>1, <2>3, <3>2
      <4>4. PICK j \in DOMAIN t.plan : t.plan[j][1] = b
        BY <1>6, <3>0, <4>2, <4>3
      <4>5. j # 1
        BY <4>1, <4>4 DEF d, t
      <4>6. 1 < j /\ 1 \in DOMAIN t.plan
        BY <1>1, <1>2, <4>5 DEF t
      <4>7. LotDate(r, t.plan[1][1]) <= LotDate(r, t.plan[j][1])
        BY <1>6, <4>6
      <4>8. LotDate(r, d) <= LotDate(r, b)
        BY <4>4, <4>7 DEF d, t
      <4> QED BY <2>1, <2>3, <3>2, <4>8
    <3> QED BY <3>1, <3>2
  <2> QED BY <2>0, <2>2, <2>3 DEF TakenInOrder
<1>16. ASSUME SeenAgree(r) PROVE SeenAgree(r)'
  <2>1. tx'[r].read = OnHand(r, ItemOf(r))'
    <3>1. t.read = OnHand(r, ItemOf(r))
      BY <1>1, <1>16 DEF SeenAgree, t
    <3>2. PICK i \in Item : i = ItemOf(r)
      BY <1>3
    <3>3. OnHand(r, i)' = OnHand(r, i)
      BY <1>1, <1>3, SameOnHand DEF t
    <3>4. OnHand(r, ItemOf(r))' = OnHand(r, i)'
      BY <1>5, <3>2 DEF OnHand, QuantityOnHand, ZeroIfNone
    <3> QED BY <1>1, <3>1, <3>2, <3>3, <3>4 DEF t
  <2>2. ASSUME NEW i \in Item
        PROVE  /\ SeenMoved(r, i)' = OnHand(r, i)' - MovesBehind(r, i)'
               /\ i \in Fifo => SeenIn(r, i)' = OnHand(r, i)' - LotsBehind(r, i)'
    <3>1. OnHand(r, i)' = OnHand(r, i) /\ SeenMoved(r, i)' = SeenMoved(r, i)
      BY <1>1, <1>3, SameOnHand, SameMoves DEF t
    <3>2. MovesBehind(r, i) = 0 /\ MovesBehind(r, i)' = 0
      BY <1>1 DEF MovesBehind, t
    <3>3. SeenIn(r, i)' = SeenIn(r, i) + (IF LotItem(r, d) = i THEN (n - Taken(r)) - Remaining(r, d) ELSE 0)
      BY <1>1, <1>3, <1>4, <1>7, LotsLess DEF t, d, n
    <3>4. SeenIn(r, i)' = SeenIn(r, i) - (IF ItemOf(r) = i THEN Taken(r) ELSE 0)
      <4>1. SeenIn(r, i) \in Nat /\ n \in Nat /\ Taken(r) \in Nat
        BY <1>1, SeenTypes DEF n
      <4> QED BY <1>7, <3>3, <4>1
    <3>5. LotsBehind(r, i)' = LotsBehind(r, i) + (IF ItemOf(r) = i THEN Taken(r) ELSE 0)
      BY <1>1, <1>3, <1>5 DEF LotsBehind, t
    <3>6. LotsBehind(r, i) \in Int
      BY <1>1, <1>3 DEF LotsBehind, t
    <3>7. OnHand(r, i) \in Nat /\ Taken(r) \in Nat
      BY <1>1, OnHandType
    <3>8. /\ SeenMoved(r, i) = OnHand(r, i) - MovesBehind(r, i)
          /\ i \in Fifo => SeenIn(r, i) = OnHand(r, i) - LotsBehind(r, i)
      BY <1>16 DEF SeenAgree
    <3> QED BY <3>1, <3>2, <3>4, <3>5, <3>6, <3>7, <3>8
  <2> QED BY <2>1, <2>2 DEF SeenAgree
<1> QED BY <1>14, <1>15, <1>16 DEF Follows, Serial

(* A request that runs alone finds in the lots what it needs: it is never
   refused after it took from some of them. *)
LEMMA EndTakingFollows ==
    ASSUME StockInv, NEW r \in Req, Serial(r), EndTaking(r)
    PROVE  Follows(r)
<1> DEFINE t == tx[r]
           i == ItemOf(r)
<1>1. /\ Alone(r) /\ t.pc = "take"
      /\ tx'[r].pc = (IF t.need = 0 THEN "update" ELSE "refused")
      /\ tx'[r].doc = t.doc /\ tx'[r].k = t.k
      /\ tx'[r].read = t.read /\ tx'[r].move = t.move
      /\ tx'[r].moves = t.moves /\ tx'[r].rest = t.rest /\ tx'[r].stock = t.stock
  BY EndTakingLocal
<1>2. /\ Quiet /\ t.move \in Int /\ t.read \in Nat /\ t.need \in Nat /\ t.move < 0
      /\ t.read + t.move \in Nat /\ i \in Item /\ i \in Fifo
      /\ t.need = 0 \/ t.plan = <<>>
  BY <1>1, AtLine DEF Alone, Formed, Transaction, EndTaking
<1>3. Serial(r)'
  BY <1>1, <1>2, KeepTaken DEF Serial, PlanHolds
<1>4. ASSUME SeenAgree(r) PROVE SeenAgree(r)'
  <2>1. /\ t.read = OnHand(r, i)
        /\ SeenIn(r, i) = OnHand(r, i) - LotsBehind(r, i)
    BY <1>1, <1>2, <1>4 DEF SeenAgree
  <2>2. LotsBehind(r, i) = -t.move - t.need
    BY <1>1 DEF LotsBehind
  <2>3. t.need = 0
    <3>1. SUFFICES ASSUME t.need > 0, t.plan = <<>> PROVE FALSE
      BY <1>2
    <3>2. \A d \in SeenLots(r) : LotItem(r, d) = i => Remaining(r, d) = 0
      <4>1. \A d \in SeenLots(r) : ~(LotItem(r, d) = i /\ Remaining(r, d) > 0)
        <5>1. DOMAIN t.plan = {}
          BY <3>1
        <5> QED BY <1>1, <3>1, <5>1 DEF Serial, PlanHolds
      <4> QED BY <4>1, RemainingType
    <3>3. SeenIn(r, i) = 0
      <4> DEFINE S == {d \in SeenLots(r) : LotItem(r, d) = i}
                 f == [d \in SeenLots(r) |-> Remaining(r, d)]
      <4>1. \A d \in S : f[d] = 0
        BY <3>2
      <4>2. SeenIn(r, i) = SumFunctionOnSet(f, S)
        BY DEF SeenIn
      <4>3. IsFiniteSet(S)
        BY SeenFinite, FS_Subset
      <4> HIDE DEF S, f
      <4> QED BY <4>1, <4>2, <4>3, SumZero
    <3> HIDE DEF t, i
    <3> QED BY <1>2, <2>1, <2>2, <3>1, <3>3
  <2>4. tx'[r].pc = "update"
    BY <1>1, <2>3
  <2>5. ItemOf(r)' = i
    BY <1>1 DEF ItemOf, DocLine
  <2>6. \A x \in Item : /\ MovesBehind(r, x)' = MovesBehind(r, x)
                        /\ LotsBehind(r, x)' = LotsBehind(r, x)
    BY <1>1, <1>2, <2>3, <2>4, <2>5 DEF MovesBehind, LotsBehind
  <2>7. \A x \in Item : OnHand(r, x)' = OnHand(r, x)
    BY <1>1, <1>2, SameOnHand
  <2>8. Fifo \subseteq Item
    BY StockConstants
  <2> QED BY <1>1, <1>2, <1>4, <2>1, <2>5, <2>6, <2>7, <2>8, KeepAgree
<1> QED BY <1>3, <1>4 DEF Follows

(* The quantity moves; the movement is behind, and a lot to be created. *)
LEMMA UpdateItemFollows ==
    ASSUME StockInv, NEW r \in Req, Serial(r), UpdateItem(r)
    PROVE  Follows(r)
<1> DEFINE t == tx[r]
<1>1. /\ Alone(r) /\ t.pc = "update" /\ tx'[r].pc = "movement"
      /\ tx'[r].doc = t.doc /\ tx'[r].k = t.k
      /\ tx'[r].read = t.read /\ tx'[r].move = t.move
      /\ tx'[r].moves = t.moves /\ tx'[r].rest = t.rest
      /\ t.read + t.move \in Nat
      /\ tx'[r].stock = [t.stock EXCEPT ![ItemOf(r)] = t.read + t.move]
  BY UpdateItemLocal
<1>2. /\ Quiet /\ t.move \in Int /\ t.read \in Nat /\ t.move # 0 /\ ItemOf(r) \in Item
      /\ t.stock \in [Item -> Nat \cup {None}] /\ None \notin Nat
  BY <1>1, AtLine, StockConstants DEF Alone, Formed, Transaction
<1>3. Serial(r)'
  BY <1>1, <1>2, KeepTaken DEF Serial, PlanHolds
<1>4. ItemOf(r)' = ItemOf(r)
  BY <1>1 DEF ItemOf, DocLine
<1>5. ASSUME SeenAgree(r), NEW i \in Item
      PROVE  /\ SeenMoved(r, i)' = OnHand(r, i)' - MovesBehind(r, i)'
             /\ i \in Fifo => SeenIn(r, i)' = OnHand(r, i)' - LotsBehind(r, i)'
  <2>1. SeenMoved(r, i)' = SeenMoved(r, i) /\ SeenIn(r, i)' = SeenIn(r, i)
    BY <1>1, <1>2, SameLots, SameMoves
  <2>2. /\ SeenMoved(r, i) = OnHand(r, i) - MovesBehind(r, i)
        /\ i \in Fifo => SeenIn(r, i) = OnHand(r, i) - LotsBehind(r, i)
        /\ t.read = OnHand(r, ItemOf(r))
    BY <1>1, <1>5 DEF SeenAgree
  <2>3. OnHand(r, i) \in Nat
    BY OnHandType
  <2>4. CASE i # ItemOf(r)
    <3>1. OnHand(r, i)' = OnHand(r, i)
      <4>1. tx'[r].stock[i] = tx[r].stock[i]
        BY <1>1, <1>2, <2>4
      <4> QED BY <1>2, <4>1, SameOnHand
    <3>2. /\ MovesBehind(r, i) = 0 /\ MovesBehind(r, i)' = 0
          /\ LotsBehind(r, i) = 0 /\ LotsBehind(r, i)' = 0
      BY <1>4, <2>4 DEF MovesBehind, LotsBehind
    <3> QED BY <2>1, <2>2, <3>1, <3>2
  <2>5. CASE i = ItemOf(r)
    <3>1. OnHand(r, i)' = t.read + t.move
      <4>1. tx'[r].stock[i] = t.read + t.move
        BY <1>1, <1>2, <2>5
      <4> QED BY <1>1, <1>2, <4>1 DEF OnHand, QuantityOnHand, ZeroIfNone
    <3>2. MovesBehind(r, i) = 0 /\ MovesBehind(r, i)' = t.move
      BY <1>1, <1>4, <2>5 DEF MovesBehind
    <3>3. /\ LotsBehind(r, i) = IF t.move < 0 THEN -t.move ELSE 0
          /\ LotsBehind(r, i)' = IF t.move > 0 THEN t.move ELSE 0
      BY <1>1, <1>2, <1>4, <2>5 DEF LotsBehind
    <3>4. t.read = OnHand(r, i)
      BY <2>2, <2>5
    <3> HIDE DEF t
    <3> QED BY <1>2, <2>1, <2>2, <2>3, <3>1, <3>2, <3>3, <3>4
  <2> QED BY <2>4, <2>5
<1>6. SeenAgree(r) => SeenAgree(r)'
  BY <1>1, <1>5 DEF SeenAgree
<1> QED BY <1>3, <1>6 DEF Follows

(* The movement catches up. *)
LEMMA InsertMovementFollows ==
    ASSUME StockInv, NEW r \in Req, Serial(r), InsertMovement(r)
    PROVE  Follows(r)
<1> DEFINE t == tx[r]
           u == [tx[r] EXCEPT !.moves = @ \cup {LineMovement(r)}]
           m == LineMovement(r)
<1>1. /\ t.pc = "movement" /\ Quiet /\ u \in Transaction /\ m \in Movement
      /\ u.doc = t.doc /\ u.k = t.k /\ u.read = t.read /\ u.move = t.move
      /\ u.stock = t.stock /\ u.rest = t.rest
      /\ u.moves = t.moves \cup {m} /\ m \notin t.moves /\ m \notin movement
      /\ tx' = [tx EXCEPT ![r] = IF CreatesLot(r) THEN [u EXCEPT !.pc = "lot"]
                                                  ELSE AtNextLine(u)]
  BY InsertMovementLocal
<1>2. /\ tx \in [Req -> Transaction] /\ t.doc \in Document /\ t.k <= Len(t.doc)
      /\ ItemOf(r) \in Item /\ t.move \in Int /\ t.move # 0
  BY <1>1, AtLine DEF Formed, Transaction
<1>3. m.item = ItemOf(r) /\ m.qty = t.move
  BY DEF LineMovement
<1> HIDE DEF t, u, m
<1>4. /\ tx'[r].doc = t.doc /\ tx'[r].stock = t.stock /\ tx'[r].rest = t.rest
      /\ tx'[r].moves = t.moves \cup {m}
      /\ IF CreatesLot(r) THEN tx'[r].pc = "lot" /\ tx'[r].k = t.k /\ tx'[r].move = t.move
                          ELSE tx'[r].pc \in {"item", "audit"}
  <2>1. CASE CreatesLot(r)
    <3>1. tx'[r] = [u EXCEPT !.pc = "lot"]
      BY <1>1, <1>2, <2>1
    <3>2. u \in Transaction
      BY <1>1
    <3>3. /\ tx'[r].pc = "lot" /\ tx'[r].doc = u.doc /\ tx'[r].k = u.k /\ tx'[r].move = u.move
          /\ tx'[r].stock = u.stock /\ tx'[r].rest = u.rest /\ tx'[r].moves = u.moves
      BY <3>1, <3>2 DEF Transaction
    <3> QED BY <1>1, <2>1, <3>3
  <2>2. CASE ~CreatesLot(r)
    <3>1. tx'[r] = AtNextLine(u)
      BY <1>1, <1>2, <2>2
    <3>2. /\ AtNextLine(u).doc = u.doc /\ AtNextLine(u).stock = u.stock
          /\ AtNextLine(u).moves = u.moves /\ AtNextLine(u).rest = u.rest
          /\ AtNextLine(u).pc \in {"item", "audit"}
      BY <1>1, <1>2, NextLine
    <3> QED BY <1>1, <2>2, <3>1, <3>2
  <2> QED BY <2>1, <2>2
<1>5. Serial(r)'
  BY <1>1, <1>4, KeepTaken DEF Serial, PlanHolds, t
<1>6. SeenMoves(r)' = SeenMoves(r) \cup {m} /\ m \notin SeenMoves(r)
  BY <1>1, <1>4 DEF SeenMoves, Quiet, t
<1>7. ASSUME SeenAgree(r), NEW i \in Item
      PROVE  /\ SeenMoved(r, i)' = OnHand(r, i)' - MovesBehind(r, i)'
             /\ i \in Fifo => SeenIn(r, i)' = OnHand(r, i)' - LotsBehind(r, i)'
  <2>1. SeenMoved(r, i)' = SeenMoved(r, i) + (IF m.item = i THEN m.qty ELSE 0)
    BY <1>1, <1>6, MovedMore
  <2>2. SeenIn(r, i)' = SeenIn(r, i) /\ OnHand(r, i)' = OnHand(r, i)
    BY <1>1, <1>4, SameLots, SameOnHand DEF t
  <2>3. /\ SeenMoved(r, i) = OnHand(r, i) - MovesBehind(r, i)
        /\ i \in Fifo => SeenIn(r, i) = OnHand(r, i) - LotsBehind(r, i)
    BY <1>7 DEF SeenAgree
  <2>4. OnHand(r, i) \in Nat
    BY OnHandType
  <2>5. /\ MovesBehind(r, i) = IF ItemOf(r) = i THEN t.move ELSE 0
        /\ MovesBehind(r, i)' = 0
    BY <1>1, <1>4 DEF MovesBehind, t
  <2>6. i \in Fifo => LotsBehind(r, i)' = LotsBehind(r, i)
    <3>1. CASE CreatesLot(r)
      <4>1. ItemOf(r)' = ItemOf(r) /\ t.move > 0
        BY <1>4, <3>1 DEF ItemOf, DocLine, CreatesLot, t
      <4> QED BY <1>1, <1>4, <3>1, <4>1 DEF LotsBehind, t
    <3>2. CASE ~CreatesLot(r)
      <4>1. LotsBehind(r, i)' = 0
        BY <1>4, <3>2 DEF LotsBehind
      <4>2. i \in Fifo => LotsBehind(r, i) = 0
        BY <1>1, <3>2 DEF LotsBehind, CreatesLot, t
      <4> QED BY <4>1, <4>2
    <3> QED BY <3>1, <3>2
  <2>7. SeenMoved(r, i)' = OnHand(r, i)' - MovesBehind(r, i)'
    BY <1>2, <1>3, <2>1, <2>2, <2>3, <2>4, <2>5
  <2> QED BY <2>2, <2>3, <2>6, <2>7
<1>8. SeenAgree(r) => SeenAgree(r)'
  BY <1>4, <1>7 DEF SeenAgree
<1> QED BY <1>5, <1>8 DEF Follows

(* The lots catch up. *)
LEMMA InsertLotFollows ==
    ASSUME StockInv, NEW r \in Req, Serial(r), InsertLot(r)
    PROVE  Follows(r)
<1> DEFINE t == tx[r]
           u == [tx[r] EXCEPT !.rest[<<r, tx[r].k>>] = tx[r].move]
           d == <<r, tx[r].k>>
<1>1. /\ t.pc = "lot" /\ Quiet /\ u \in Transaction
      /\ u.doc = t.doc /\ u.k = t.k /\ u.stock = t.stock /\ u.moves = t.moves
      /\ u.rest = [t.rest EXCEPT ![d] = t.move]
      /\ tx' = [tx EXCEPT ![r] = AtNextLine(u)]
      /\ t.move \in Nat /\ t.move > 0 /\ t.rest[d] = None
  BY InsertLotLocal
<1>2. /\ tx \in [Req -> Transaction] /\ t.doc \in Document /\ t.k <= Len(t.doc)
      /\ ItemOf(r) \in Item /\ d \in Id /\ lot[d] = None
      /\ t.rest \in [Id -> Nat \cup {None}]
  BY <1>1, AtLine DEF Transaction
<1>3. t.doc[d[2]].item = ItemOf(r)
  BY DEF ItemOf, DocLine
<1> HIDE DEF t, u, d
<1>4. /\ tx'[r].doc = t.doc /\ tx'[r].stock = t.stock /\ tx'[r].moves = t.moves
      /\ tx'[r].rest = [t.rest EXCEPT ![d] = t.move]
      /\ tx'[r].pc \in {"item", "audit"}
  <2>1. tx'[r] = AtNextLine(u)
    BY <1>1, <1>2
  <2>2. /\ AtNextLine(u).doc = u.doc /\ AtNextLine(u).stock = u.stock
        /\ AtNextLine(u).moves = u.moves /\ AtNextLine(u).rest = u.rest
        /\ AtNextLine(u).pc \in {"item", "audit"}
    BY <1>1, <1>2, NextLine
  <2> QED BY <1>1, <2>1, <2>2
<1>5. \A x \in Id : tx'[r].rest[x] = IF x = d THEN t.move ELSE t.rest[x]
  BY <1>2, <1>4
<1>6. Serial(r)'
  <2>1. \A x \in Lots : tx'[r].rest[x] = tx[r].rest[x]
    BY <1>2, <1>5 DEF Lots, t
  <2> QED BY <1>1, <1>4, <2>1, KeepTaken DEF Serial, PlanHolds
<1>7. ASSUME SeenAgree(r), NEW i \in Item
      PROVE  /\ SeenMoved(r, i)' = OnHand(r, i)' - MovesBehind(r, i)'
             /\ i \in Fifo => SeenIn(r, i)' = OnHand(r, i)' - LotsBehind(r, i)'
  <2>1. SeenIn(r, i)' = SeenIn(r, i) + (IF ItemOf(r) = i THEN t.move ELSE 0)
    BY <1>1, <1>2, <1>3, <1>4, <1>5, LotsMore DEF t
  <2>2. SeenMoved(r, i)' = SeenMoved(r, i) /\ OnHand(r, i)' = OnHand(r, i)
    BY <1>1, <1>4, SameMoves, SameOnHand DEF t
  <2>3. /\ SeenMoved(r, i) = OnHand(r, i) - MovesBehind(r, i)
        /\ i \in Fifo => SeenIn(r, i) = OnHand(r, i) - LotsBehind(r, i)
    BY <1>7 DEF SeenAgree
  <2>4. OnHand(r, i) \in Nat
    BY OnHandType
  <2>5. /\ LotsBehind(r, i) = IF ItemOf(r) = i THEN t.move ELSE 0
        /\ LotsBehind(r, i)' = 0
        /\ MovesBehind(r, i) = 0 /\ MovesBehind(r, i)' = 0
    BY <1>1, <1>4 DEF LotsBehind, MovesBehind, t
  <2>6. i \in Fifo => SeenIn(r, i)' = OnHand(r, i)' - LotsBehind(r, i)'
    BY <1>1, <2>1, <2>2, <2>3, <2>4, <2>5
  <2> QED BY <2>2, <2>3, <2>5, <2>6
<1>8. SeenAgree(r) => SeenAgree(r)'
  BY <1>4, <1>7 DEF SeenAgree
<1> QED BY <1>6, <1>8 DEF Follows

(* So do all statements before the commit. *)
LEMMA AdvanceFollows ==
    ASSUME StockInv, NEW r \in Req, Serial(r), Advance(r), ~Commit(r), tx'[r].pc \in Running
    PROVE  Follows(r)
<1>1. CASE Answer(r)
  BY <1>1, GotoLocal, PassFollows DEF Answer
<1> QED BY <1>1, InsertItemFollows, ReadItemFollows, ReadLotsFollows, TakeFollows,
           EndTakingFollows, UpdateItemFollows, InsertMovementFollows, InsertLotFollows
        DEF Advance

-----------------------------------------------------------------------------
(* The steps of the program. *)

(* r begins, or goes on as a request that runs alone does. *)
Continues(r) ==
    \/ Begins(r, tx'[r])
    \/ tx[r].pc \in Running /\ (tx'[r].pc \in Running /\ Serial(r) => Follows(r))

(* Every step of the program is of one of these kinds. *)
LEMMA StepKinds ==
    ASSUME StockInv, [Next]_vars
    PROVE  \/ \E r \in Req : (Sound(r) /\ Continues(r)) \/ Commits(r)
           \/ UNCHANGED vars
<1>1. ASSUME NEW r \in Req, Arrive(r) \/ Advance(r) \/ Fail(r)
      PROVE  (Sound(r) /\ Continues(r)) \/ Commits(r)
  <2>1. CASE Arrive(r)
    <3>1. PICK t \in Transaction : Begins(r, t)
      BY <2>1, ArriveLocal
    <3>2. tx'[r] = t
      BY <3>1 DEF Begins, StockInv, TypeOK
    <3> QED BY <2>1, <3>1, <3>2, ArriveSound DEF Continues
  <2>2. CASE Commit(r)
    BY <2>2 DEF Commit, Commits
  <2>3. CASE Advance(r) /\ ~Commit(r)
    <3>1. tx[r].pc \in Running
      BY <2>3 DEF Advance, InsertItem, ReadItem, ReadLots, TakeFromLot, EndTaking, UpdateItem,
                  InsertMovement, InsertLot, Answer
    <3> QED BY <2>3, <3>1, AdvanceSound, AdvanceFollows DEF Continues
  <2>4. CASE Disconnect(r)
    BY <2>4 DEF Disconnect, Commits, InFlight
  <2>5. CASE Timeout(r)
    <3>1. tx[r].pc \in Running /\ tx'[r].pc \notin Running
      BY <2>5, EndLocal DEF Timeout, InFlight
    <3> QED BY <2>5, <3>1, EndSound DEF Timeout, InFlight, Continues
  <2> QED BY <1>1, <2>1, <2>2, <2>3, <2>4, <2>5 DEF Fail
<1> QED BY <1>1 DEF Next, Quiescent

(* Rows that stay say the same. *)
LEMMA RowsSame ==
    ASSUME Quiet
    PROVE  /\ QuantityRecorded => QuantityRecorded'
           /\ Settled => Settled'
<1>1. stock' = stock /\ movement' = movement /\ lot' = lot
  BY DEF Quiet
<1>2. QuantityRecorded => QuantityRecorded'
  BY <1>1 DEF QuantityRecorded
<1>3. ASSUME NEW i \in Item PROVE Moved(i)' = Moved(i) /\ InLots(i)' = InLots(i)
  <2>1. Lots' = Lots
    BY <1>1 DEF Lots
  <2>2. [d \in Lots |-> lot[d].rest]' = [d \in Lots |-> lot[d].rest]
    BY <1>1, <2>1
  <2>3. {d \in Lots : lot[d].item = i}' = {d \in Lots : lot[d].item = i}
    BY <1>1, <2>1
  <2>4. InLots(i)' = InLots(i)
    BY <2>2, <2>3 DEF InLots
  <2>5. Moved(i)' = Moved(i)
    BY <1>1 DEF Moved, Quantities
  <2> QED BY <2>4, <2>5
<1> QED BY <1>1, <1>2, <1>3 DEF Settled, ZeroIfNone

(* A request that begins sees the books as they are. *)
LEMMA BeginsSettled ==
    ASSUME StockInv, NEW r \in Req, Begins(r, tx'[r])
    PROVE  Serial(r)' /\ (Settled => SeenAgree(r)')
<1>1. /\ Quiet /\ tx'[r].pc \in {"insert", "item"} /\ tx'[r].moves = {}
      /\ \A i \in Item : tx'[r].stock[i] = None
      /\ \A d \in Id : tx'[r].rest[d] = None
  BY DEF Begins
<1>2. stock' = stock /\ movement' = movement /\ lot' = lot
  BY <1>1 DEF Quiet
<1>3. Serial(r)'
  <2>1. \A d \in Lots' : tx'[r].rest[d] = None
    BY <1>1 DEF Lots
  <2> QED BY <1>1, <2>1 DEF Serial, PlanHolds, TakenInOrder
<1>4. ASSUME Settled, NEW i \in Item
      PROVE  /\ SeenMoved(r, i)' = OnHand(r, i)' - MovesBehind(r, i)'
             /\ i \in Fifo => SeenIn(r, i)' = OnHand(r, i)' - LotsBehind(r, i)'
  <2>1. SeenMoves(r)' = movement
    BY <1>1, <1>2 DEF SeenMoves
  <2>2. SeenMoved(r, i)' = Moved(i)
    BY <2>1 DEF SeenMoved, Moved, Quantities
  <2>3. SeenLots(r)' = Lots
    BY <1>1, <1>2 DEF SeenLots, Lots
  <2>4. \A d \in Lots : Remaining(r, d)' = lot[d].rest /\ LotItem(r, d)' = lot[d].item
    BY <1>1, <1>2 DEF Lots, Remaining, LotItem
  <2>5. [d \in SeenLots(r) |-> Remaining(r, d)]' = [d \in Lots |-> lot[d].rest]
    BY <2>3, <2>4
  <2>6. {d \in SeenLots(r) : LotItem(r, d) = i}' = {d \in Lots : lot[d].item = i}
    BY <2>3, <2>4
  <2>7. SeenIn(r, i)' = InLots(i)
    BY <2>5, <2>6 DEF SeenIn, InLots
  <2>8. OnHand(r, i)' = ZeroIfNone(stock[i])
    BY <1>1, <1>2 DEF OnHand, QuantityOnHand, ZeroIfNone
  <2>9. MovesBehind(r, i)' = 0 /\ LotsBehind(r, i)' = 0
    BY <1>1 DEF MovesBehind, LotsBehind
  <2>10. ZeroIfNone(stock[i]) \in Nat
    BY DEF StockInv, TypeOK, ZeroIfNone
  <2> QED BY <1>4, <2>2, <2>7, <2>8, <2>9, <2>10 DEF Settled
<1>5. Settled => SeenAgree(r)'
  BY <1>1, <1>4 DEF SeenAgree
<1> QED BY <1>3, <1>5

(* A request that is answered leaves the books as it saw them. *)
LEMMA CommitSettles ==
    ASSUME StockInv, NEW r \in Req, Commits(r), tx[r].pc \in {"answered", "refused"}
    PROVE  /\ QuantityRecorded => QuantityRecorded'
           /\ SeenAgree(r) => Settled'
<1>1. tx[r].pc \in Running /\ Persist(r) /\ Recorded(r) /\ tx[r] \in Transaction
  BY AtLine DEF Commits
<1>2. /\ \A i \in Item : stock'[i] = QuantityOnHand(r, i)
      /\ movement' = SeenMoves(r) /\ Lots' = SeenLots(r)
      /\ \A d \in SeenLots(r) : /\ lot'[d].rest = Remaining(r, d)
                                /\ lot'[d].item = LotItem(r, d)
  BY <1>1, PersistRows
<1>3. ASSUME QuantityRecorded PROVE QuantityRecorded'
  <2>1. ASSUME NEW i \in Item, stock'[i] \notin {None, 0}
        PROVE  \E m \in movement' : m.item = i /\ m.result = stock'[i]
    <3>1. CASE tx[r].stock[i] = None
      BY <1>2, <1>3, <2>1, <3>1 DEF QuantityRecorded, QuantityOnHand, SeenMoves
    <3>2. CASE tx[r].stock[i] # None
      BY <1>1, <1>2, <2>1, <3>2 DEF Recorded, QuantityOnHand, SeenMoves
    <3> QED BY <3>1, <3>2
  <2> QED BY <2>1 DEF QuantityRecorded
<1>4. ASSUME SeenAgree(r), NEW i \in Item
      PROVE  /\ Moved(i)' = ZeroIfNone(stock'[i])
             /\ i \in Fifo => InLots(i)' = ZeroIfNone(stock'[i])
  <2>1. Moved(i)' = SeenMoved(r, i)
    BY <1>2 DEF Moved, SeenMoved, Quantities
  <2>2. [d \in Lots |-> lot[d].rest]' = [d \in SeenLots(r) |-> Remaining(r, d)]
    BY <1>2
  <2>3. {d \in Lots : lot[d].item = i}' = {d \in SeenLots(r) : LotItem(r, d) = i}
    BY <1>2
  <2>4. InLots(i)' = SeenIn(r, i)
    BY <2>2, <2>3 DEF InLots, SeenIn
  <2>5. MovesBehind(r, i) = 0 /\ LotsBehind(r, i) = 0
    BY NothingBehind
  <2>6. OnHand(r, i) = ZeroIfNone(stock'[i]) /\ OnHand(r, i) \in Nat
    BY <1>2, OnHandType DEF OnHand
  <2> QED BY <1>4, <2>1, <2>4, <2>5, <2>6 DEF SeenAgree
<1>5. SeenAgree(r) => Settled'
  BY <1>4 DEF Settled, ZeroIfNone
<1> QED BY <1>3, <1>5

-----------------------------------------------------------------------------
(* The invariant, with the history. *)

(* A step of the history: overlapping is remembered. *)
Remembers == overlapped' = (overlapped \/ Cardinality(InFlight') > 1)

(* A history without overlap has at most one request in flight. *)
LEMMA SerialAfter ==
    ASSUME Remembers, IsFiniteSet(InFlight'), ~overlapped'
    PROVE  ~overlapped /\ \A p, q \in InFlight' : p = q
<1>1. ~overlapped /\ ~(Cardinality(InFlight') > 1)
  BY DEF Remembers
<1> QED BY <1>1, AtMostOne

(* A step that commits nothing keeps it. *)
LEMMA QuietSerial ==
    ASSUME SerialInv, NEW r \in Req, Sound(r), Continues(r), Remembers
    PROVE  SerialInv'
<1>1. StockInv /\ StockInv'
  BY QuietStep DEF SerialInv
<1>2. Quiet /\ \A q \in Req \ {r} : tx'[q] = tx[q]
  BY <1>1, AloneStep DEF Sound, Alone
<1>3. NoneCut' => NoneCut
  BY <1>2 DEF NoneCut, Sound
<1>4. overlapped' \in BOOLEAN
  BY DEF SerialInv, Remembers
<1>5. NoneCut' => QuantityRecorded'
  BY <1>2, <1>3, RowsSame DEF SerialInv
<1>6. ASSUME ~overlapped'
      PROVE  /\ \A p, q \in InFlight' : p = q
             /\ \A q \in InFlight' : Serial(q)'
             /\ NoneCut' => Settled' /\ \A q \in InFlight' : SeenAgree(q)'
  <2>1. ~overlapped /\ \A p, q \in InFlight' : p = q
    BY <1>1, <1>6, SerialAfter DEF StockInv
  <2>2. /\ \A p, q \in InFlight : p = q
        /\ \A q \in InFlight : Serial(q)
        /\ NoneCut => Settled /\ \A q \in InFlight : SeenAgree(q)
    BY <2>1 DEF SerialInv, Serial
  <2>3. NoneCut' => Settled'
    BY <1>2, <1>3, <2>2, RowsSame
  <2>4. ASSUME NEW q \in InFlight' PROVE Serial(q)' /\ (NoneCut' => SeenAgree(q)')
    <3>1. q = r
      <4>1. SUFFICES ASSUME q # r PROVE FALSE
        OBVIOUS
      <4>2. q \in InFlight /\ r \notin InFlight'
        BY <1>2, <2>1, <4>1 DEF InFlight
      <4>3. tx'[r].pc \notin Running
        BY <4>2 DEF InFlight
      <4>4. r \in InFlight
        BY <4>3 DEF Continues, Begins, InFlight
      <4> QED BY <2>2, <4>1, <4>2, <4>4
    <3>2. CASE Begins(r, tx'[r])
      BY <1>1, <1>3, <2>2, <3>1, <3>2, BeginsSettled
    <3>3. CASE tx[r].pc \in Running /\ (tx'[r].pc \in Running /\ Serial(r) => Follows(r))
      <4>1. r \in InFlight /\ tx'[r].pc \in Running
        BY <2>4, <3>1, <3>3 DEF InFlight
      <4> QED BY <1>3, <2>2, <3>1, <3>3, <4>1 DEF Follows
    <3> QED BY <3>2, <3>3 DEF Continues
  <2> QED BY <2>1, <2>3, <2>4
<1> QED BY <1>1, <1>4, <1>5, <1>6 DEF SerialInv, Serial

(* A commit keeps it. *)
LEMMA CommitSerial ==
    ASSUME SerialInv, NEW r \in Req, Commits(r), Remembers
    PROVE  SerialInv'
<1>1. /\ StockInv /\ StockInv' /\ InFlight' = InFlight \ {r}
      /\ tx'[r].pc # "cut" => tx[r].pc \in {"answered", "refused"}
      /\ \A q \in Req \ {r} : tx'[q] = tx[q]
  BY CommitStep DEF SerialInv
<1>2. r \in InFlight /\ tx[r].pc \in Running
  BY DEF Commits, InFlight
<1>3. NoneCut' => NoneCut /\ tx[r].pc \in {"answered", "refused"}
  BY <1>1, <1>2 DEF NoneCut
<1>4. overlapped' \in BOOLEAN
  BY DEF SerialInv, Remembers
<1>5. NoneCut' => QuantityRecorded'
  BY <1>1, <1>3, CommitSettles DEF SerialInv
<1>6. ASSUME ~overlapped'
      PROVE  InFlight' = {} /\ (NoneCut' => Settled')
  <2>1. ~overlapped
    BY <1>1, <1>6, SerialAfter DEF StockInv
  <2>2. InFlight' = {}
    BY <1>1, <1>2, <2>1 DEF SerialInv
  <2>3. NoneCut' => SeenAgree(r)
    BY <1>2, <1>3, <2>1 DEF SerialInv
  <2> QED BY <1>1, <1>3, <2>2, <2>3, CommitSettles
<1> QED BY <1>1, <1>4, <1>5, <1>6 DEF SerialInv

(* Nothing that is said of a state changes while the variables do not. *)
LEMMA StutterSerial ==
    ASSUME SerialInv, UNCHANGED vars, Remembers \/ overlapped' = overlapped
    PROVE  SerialInv'
<1>1. stock' = stock /\ movement' = movement /\ lot' = lot /\ tx' = tx /\ Quiet
  BY DEF vars, Quiet
<1>2. Lots' = Lots /\ InFlight' = InFlight /\ (NoneCut' <=> NoneCut)
  BY <1>1 DEF Lots, InFlight, NoneCut
<1>3. StockInv /\ TypeOK'
  BY <1>1 DEF SerialInv, StockInv, TypeOK
<1>4. ASSUME NEW r \in Req PROVE (Formed(r) /\ Written(r) /\ Recorded(r))'
  <2>1. Formed(r) /\ Written(r) /\ Recorded(r)
    BY <1>3 DEF StockInv
  <2>2. Formed(r)'
    BY <1>1, <2>1 DEF Formed, ItemOf, DocLine
  <2>3. Written(r)'
    BY <1>1, <2>1 DEF Written
  <2>4. Recorded(r)'
    BY <1>1, <2>1 DEF Recorded, ItemOf, DocLine
  <2> QED BY <2>2, <2>3, <2>4
<1>5. StockInv'
  BY <1>1, <1>2, <1>3, <1>4 DEF StockInv
<1>6. /\ QuantityRecorded => QuantityRecorded'
      /\ Settled => Settled'
  BY <1>1, RowsSame
<1>7. ASSUME NEW r \in InFlight PROVE (Serial(r) => Serial(r)') /\ (SeenAgree(r) => SeenAgree(r)')
  <2>1. r \in Req /\ ItemOf(r) \in Item
    BY <1>3, AtLine DEF InFlight
  <2>2. /\ ItemOf(r)' = ItemOf(r) /\ SeenLots(r)' = SeenLots(r)
        /\ \A d : /\ LotItem(r, d)' = LotItem(r, d) /\ LotDate(r, d)' = LotDate(r, d)
                  /\ Remaining(r, d)' = Remaining(r, d)
        /\ \A i \in Item : OnHand(r, i)' = OnHand(r, i)
        /\ \A i \in Item : /\ MovesBehind(r, i)' = MovesBehind(r, i)
                           /\ LotsBehind(r, i)' = LotsBehind(r, i)
    BY <1>1, <2>1, SameView, SameLots, SameOnHand
       DEF ItemOf, DocLine, SeenLots, Remaining, MovesBehind, LotsBehind
  <2>3. PlanHolds(r) => PlanHolds(r)'
    BY <1>1, <2>2 DEF PlanHolds
  <2>4. TakenInOrder(r) => TakenInOrder(r)'
    BY <1>1, <2>1, KeepTaken
  <2>5. SeenAgree(r) => SeenAgree(r)'
    <3>1. Fifo \subseteq Item
      BY StockConstants
    <3>2. SeenAgree(r) => (tx[r].pc \in {"lots", "take", "update"} => tx[r].read = OnHand(r, ItemOf(r)))
      BY DEF SeenAgree
    <3> QED BY <1>1, <1>3, <2>1, <2>2, <3>1, <3>2, KeepAgree
  <2> QED BY <2>3, <2>4, <2>5 DEF Serial
<1>8. overlapped' \in BOOLEAN /\ (~overlapped' => ~overlapped)
  BY DEF SerialInv, Remembers
<1> QED BY <1>2, <1>5, <1>6, <1>7, <1>8 DEF SerialInv, Serial

(* Nothing is there in the beginning. *)
LEMMA SerialStart ==
    ASSUME HistoryInit
    PROVE  SerialInv
<1>1. /\ stock = [i \in Item |-> None] /\ movement = {} /\ lot = [d \in Id |-> None]
      /\ tx = [r \in Req |-> Blank("idle")] /\ overlapped = FALSE
  BY DEF HistoryInit, Init
<1>2. /\ Blank("idle") \in Transaction /\ Blank("idle").pc = "idle"
      /\ Blank("idle").moves = {} /\ Blank("idle").plan = <<>>
      /\ \A i \in Item : Blank("idle").stock[i] = None
      /\ \A d \in Id : Blank("idle").rest[d] = None
  BY BlankType
<1>3. TypeOK
  BY <1>1, <1>2 DEF TypeOK
<1>4. InFlight = {} /\ Lots = {}
  BY <1>1, <1>2 DEF InFlight, Lots
<1>5. ASSUME NEW r \in Req PROVE Formed(r) /\ Written(r) /\ Recorded(r)
  <2>1. tx[r] = Blank("idle") /\ DOMAIN Blank("idle").plan = {}
    BY <1>1, <1>2
  <2>2. Formed(r) /\ Recorded(r)
    BY <1>2, <2>1 DEF Formed, Recorded
  <2>3. Written(r)
    BY <1>2, <2>1, FS_EmptySet DEF Written
  <2> QED BY <2>2, <2>3
<1>6. StockInv
  BY <1>1, <1>3, <1>4, <1>5, FS_EmptySet DEF StockInv
<1>7. QuantityRecorded
  BY <1>1 DEF QuantityRecorded
<1>8. Settled
  <2>1. ASSUME NEW i \in Item PROVE Moved(i) = 0 /\ InLots(i) = 0 /\ ZeroIfNone(stock[i]) = 0
    <3>1. {m \in movement : m.item = i} = {} /\ {d \in Lots : lot[d].item = i} = {}
      BY <1>1, <1>4
    <3> QED BY <1>1, <3>1, SumEmpty DEF Moved, InLots, ZeroIfNone
  <2> QED BY <2>1 DEF Settled
<1> QED BY <1>1, <1>4, <1>6, <1>7, <1>8 DEF SerialInv

(* A step keeps the invariant, and a request that runs alone uses the lots
   oldest first. *)
LEMMA SerialStep ==
    ASSUME SerialInv, [HistoryNext]_<<vars, overlapped>>
    PROVE  SerialInv' /\ [overlapped' \/ OldestFirst]_<<vars, overlapped>>
<1>1. CASE UNCHANGED <<vars, overlapped>>
  BY <1>1, StutterSerial
<1>2. CASE HistoryNext
  <2>1. Next /\ Remembers /\ StockInv
    BY <1>2 DEF HistoryNext, Remembers, SerialInv
  <2>2. CASE lot' = lot
    <3>1. OldestFirst
      BY <2>2 DEF OldestFirst
    <3>2. SerialInv'
      BY <2>1, StepKinds, QuietSerial, CommitSerial, StutterSerial
    <3> QED BY <3>1, <3>2
  <2>3. ASSUME NEW r \in Req, Commits(r) PROVE SerialInv' /\ (overlapped' \/ OldestFirst)
    <3>1. SerialInv'
      BY <2>1, <2>3, CommitSerial
    <3>2. ASSUME ~overlapped' PROVE OldestFirst
      <4>1. TakenInOrder(r)
        <5>1. ~overlapped /\ r \in InFlight
          BY <2>1, <2>3, <3>2 DEF Remembers, Commits, InFlight
        <5> QED BY <5>1 DEF SerialInv
      <4>2. /\ \A d \in SeenLots(r) : lot'[d].rest = Remaining(r, d)
            /\ \A d \in Id : tx[r].rest[d] = None => lot'[d] = lot[d]
        BY <2>1, <2>3, PersistRows DEF Commits
      <4>3. Lots \subseteq SeenLots(r) /\ Lots \subseteq Id
        BY DEF Lots, SeenLots
      <4>4. ASSUME NEW d \in Lots, lot'[d] # lot[d]
            PROVE  /\ lot'[d].rest < lot[d].rest
                   /\ \A b \in Lots : lot[b].item = lot[d].item /\ lot[b].date < lot[d].date
                                        => lot'[b].rest = 0
        <5>1. tx[r].rest[d] # None
          BY <4>2, <4>3, <4>4
        <5>2. lot'[d].rest = tx[r].rest[d]
          BY <4>2, <4>3, <5>1 DEF Remaining
        <5> QED BY <4>1, <4>2, <4>3, <5>1, <5>2 DEF TakenInOrder
      <4> QED BY <4>4 DEF OldestFirst
    <3> QED BY <3>1, <3>2
  <2>4. (\E r \in Req : Commits(r)) \/ lot' = lot
    <3>1. UNCHANGED vars => lot' = lot
      BY DEF vars
    <3>2. \A r \in Req : Sound(r) => lot' = lot
      BY DEF Sound, Alone, Quiet
    <3> QED BY <2>1, <3>1, <3>2, StepKinds
  <2> QED BY <2>2, <2>3, <2>4
<1> QED BY <1>1, <1>2

(* Whatever the requests, documents and dates: rows are well formed and belong
   to requests that are over, every quantity on hand was recorded by a
   movement unless a connection was cut, and documents that come one at a time
   see and leave books that agree. *)
THEOREM StockInvariance == HistorySpec => []SerialInv
<1>1. HistoryInit => SerialInv
  BY SerialStart
<1>2. SerialInv /\ [HistoryNext]_<<vars, overlapped>> => SerialInv'
  BY SerialStep
<1> QED BY <1>1, <1>2, PTL DEF HistorySpec

(* Books that settle agree. *)
LEMMA SettledAgree ==
    ASSUME Settled
    PROVE  BooksAgree
BY DEF Settled, BooksAgree, ZeroIfNone

(* Unless a connection was cut, the quantity on hand is the result of a
   recorded movement however the documents interleave; and documents that come
   one at a time leave item, movements and lots in agreement, also when a
   later line is refused and the earlier ones stay. *)
THEOREM StockBooksSettle == HistorySpec => []BooksSettle
<1>1. SerialInv => BooksSettle
  BY SettledAgree DEF SerialInv, BooksSettle
<1> QED BY <1>1, StockInvariance, PTL

(* Documents that come one at a time use the lots of an item oldest first and
   never put anything back, also when the connection is cut. *)
THEOREM LotsAreUsedOldestFirst == HistorySpec => SerialOldestFirst
<1>1. SerialInv /\ [HistoryNext]_<<vars, overlapped>>
        => [overlapped' \/ OldestFirst]_<<vars, overlapped>>
  BY SerialStep
<1> QED BY <1>1, StockInvariance, PTL DEF HistorySpec, SerialOldestFirst
=============================================================================
