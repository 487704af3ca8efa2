------------------------------- MODULE Stock -------------------------------
(***************************************************************************)
(* Stock items, their movements and the FIFO lots, and the documents that  *)
(* change them: a new item with its initial stock, goods received (NIR),   *)
(* consumption and inventory.                                              *)
(*                                                                         *)
(* The transaction discipline is that of Ledger.  prisma.$transaction      *)
(* inside a request runs in the request's own transaction without a        *)
(* savepoint, so an HttpError thrown on a later line leaves what earlier   *)
(* statements wrote, and the answer commits it.                            *)
(*                                                                         *)
(* Quantities are thousandths after roundQty, where the epsilon of the     *)
(* code separates zero from one; 0 is a positive quantity that rounds      *)
(* down.  A movement, and the lot it creates, is identified by the request *)
(* and the line.  Costs are left out: they decide nothing but whether an   *)
(* inventory surplus is refused.                                           *)
(***************************************************************************)
EXTENDS Integers, FiniteSets, Sequences, SequencesExt, Functions

CONSTANTS
    Req,          \* requests
    Item,         \* stock items, by code
    Fifo,         \* the items valued FIFO; the others are CMP
    Document,     \* line sequences a user may submit
    Date,         \* movement dates a user may type
    MaxLines,     \* bound: lines of a document
    Concurrency,  \* bound: requests in flight at once
    Disconnects,  \* may clients drop the connection before the answer?
    None

Op == {"ITEM", "NIR", "CONSUMPTION", "INVENTORY"}

Running  == {"insert", "item", "lots", "take", "update", "movement", "lot",
             "audit", "answered", "refused"}
Finished == {"committed", "cut", "rejected", "rolledback"}

DocumentLine == [item : Item, qty : Nat]

Id == Req \X (1 .. MaxLines)

Movement == [id : Id, item : Item, qty : Int, result : Nat]
Lot      == [item : Item, date : Date, initial : Nat, rest : Nat]

ASSUME StockConstants ==
    /\ Fifo \subseteq Item
    /\ \A d \in Document : d \in Seq(DocumentLine) /\ Len(d) \in 1 .. MaxLines
    /\ Date \subseteq Nat /\ Date # {}
    /\ Concurrency \in Nat \ {0}
    /\ Disconnects \in BOOLEAN
    /\ MaxLines \in Nat \ {0}
    /\ None \notin Nat \cup Lot

VARIABLES
    stock,     \* committed quantityOnHand of each item
    movement,  \* committed StockMovement rows
    lot,       \* committed StockLot rows
    tx         \* the request transactions

vars == <<stock, movement, lot, tx>>

(* Of a transaction: the document, the line k it is at, the quantity read of
   its item, the signed quantity it moves, what is still to be taken from
   which lots as they were read, and its uncommitted writes. *)
Transaction == [op : Op, pc : {"idle"} \cup Running \cup Finished,
                doc : Seq(DocumentLine), date : Date, k : 1 .. MaxLines,
                read : Nat, move : Int, need : Nat, plan : Seq(Id \X Nat),
                stock : [Item -> Nat \cup {None}], moves : SUBSET Movement,
                rest : [Id -> Nat \cup {None}]]

TypeOK ==
    /\ stock \in [Item -> Nat \cup {None}]
    /\ movement \subseteq Movement
    /\ lot \in [Id -> Lot \cup {None}]
    /\ tx \in [Req -> Transaction]

-----------------------------------------------------------------------------
InFlight == {r \in Req : tx[r].pc \in Running}
Lots     == {d \in Id : lot[d] # None}

DocLine(r) == tx[r].doc[tx[r].k]
ItemOf(r)  == DocLine(r).item

(* What r sees: its own writes over the committed rows. *)
QuantityOnHand(r, i) == IF tx[r].stock[i] # None THEN tx[r].stock[i] ELSE stock[i]
Remaining(r, d)      == IF tx[r].rest[d] # None THEN tx[r].rest[d] ELSE lot[d].rest
LotItem(r, d)        == IF lot[d] # None THEN lot[d].item ELSE tx[r].doc[d[2]].item
LotDate(r, d)        == IF lot[d] # None THEN lot[d].date ELSE tx[r].date

Blank(label) == [op |-> "ITEM", pc |-> label, doc |-> <<>>, date |-> CHOOSE d \in Date : TRUE,
                 k |-> 1, read |-> 0, move |-> 0, need |-> 0, plan |-> <<>>,
                 stock |-> [i \in Item |-> None], moves |-> {},
                 rest |-> [d \in Id |-> None]]

Init ==
    /\ stock = [i \in Item |-> None]
    /\ movement = {}
    /\ lot = [d \in Id |-> None]
    /\ tx = [r \in Req |-> Blank("idle")]

Quiet == UNCHANGED <<stock, movement, lot>>
Goto(r, label) == tx' = [tx EXCEPT ![r].pc = label]
End(r, label)  == tx' = [tx EXCEPT ![r] = Blank(label)]

-----------------------------------------------------------------------------
(* A request arrives. *)

Start(r, t) ==
    /\ tx[r].pc = "idle"
    /\ Cardinality(InFlight) < Concurrency
    /\ tx' = [tx EXCEPT ![r] = t]
    /\ Quiet

CreateItem(r) ==
    \E d \in Document, t \in Date :
        /\ Len(d) = 1
        /\ Start(r, [Blank("insert") EXCEPT !.doc = d, !.date = t, !.move = d[1].qty])

Submit(r, op) ==
    \E d \in Document, t \in Date :
        Start(r, [Blank("item") EXCEPT !.op = op, !.doc = d, !.date = t])

Receive(r)       == Submit(r, "NIR")
Consume(r)       == Submit(r, "CONSUMPTION")
TakeInventory(r) == Submit(r, "INVENTORY")

-----------------------------------------------------------------------------
(* The statements of the handlers. *)

(* The code of an item is unique: the insert waits for one under way and
   fails with P2002 when the code is taken. *)
InsertItem(r) ==
    /\ tx[r].pc = "insert"
    /\ \A q \in Req \ {r} : tx[q].stock[ItemOf(r)] = None \/ stock[ItemOf(r)] # None
    /\ IF stock[ItemOf(r)] # None THEN End(r, "rolledback")
       ELSE tx' = [tx EXCEPT ![r].pc = IF tx[r].move > 0 THEN "update" ELSE "audit",
                             ![r].stock[ItemOf(r)] = 0]
    /\ Quiet

(* The signed quantity that line moves an item of which n are on hand. *)
Difference(r, n) == CASE tx[r].op = "NIR"         -> DocLine(r).qty
                      [] tx[r].op = "CONSUMPTION" -> -DocLine(r).qty
                      [] OTHER                    -> DocLine(r).qty - n

AtNextLine(t) == IF t.k < Len(t.doc) THEN [t EXCEPT !.k = @ + 1, !.pc = "item"]
                                     ELSE [t EXCEPT !.pc = "audit"]

(* The checks of applyInboundMovement and applyOutboundMovement. *)
Allowed(r, m, n) == m # 0 /\ -m <= n

(* getCompanyStockItem and what follows before the next statement.  A closed
   period stops the request before its first line; an inventory surplus is
   refused when no cost is known. *)
ReadItem(r) ==
    /\ tx[r].pc = "item"
    /\ LET n == QuantityOnHand(r, ItemOf(r))
           m == Difference(r, n)
       IN IF n = None THEN Goto(r, "refused")
          ELSE \/ /\ tx[r].op = "INVENTORY" /\ m = 0
                  /\ tx' = [tx EXCEPT ![r] = AtNextLine(@)]
               \/ /\ Allowed(r, m, n)
                  /\ tx' = [tx EXCEPT ![r].read = n, ![r].move = m,
                                      ![r].need = IF m < 0 THEN -m ELSE 0,
                                      ![r].pc = IF m < 0 /\ ItemOf(r) \in Fifo THEN "lots"
                                                                              ELSE "update"]
               \/ /\ \/ tx[r].k = 1
                     \/ IF tx[r].op = "INVENTORY" THEN m > 0 ELSE ~Allowed(r, m, n)
                  /\ Goto(r, "refused")
    /\ Quiet

(* Fault: lots in no particular order. *)
FaultyInOrder(r, s) == TRUE

(* By receivedAt, then createdAt; lots of different requests with the same
   date may come in any order. *)
InOrder(r, s) ==
    \A i, j \in DOMAIN s : i < j =>
        /\ LotDate(r, s[i]) <= LotDate(r, s[j])
        /\ s[i][1] = s[j][1] => s[i][2] < s[j][2]

ReadLots(r) ==
    /\ tx[r].pc = "lots"
    /\ LET open == {d \in Id : /\ lot[d] # None \/ tx[r].rest[d] # None
                               /\ LotItem(r, d) = ItemOf(r)
                               /\ Remaining(r, d) > 0}
       IN \E s \in SetToSeqs(open) :
            /\ InOrder(r, s)
            /\ tx' = [tx EXCEPT ![r].pc = "take",
                                ![r].plan = [i \in DOMAIN s |-> <<s[i], Remaining(r, s[i])>>]]
    /\ Quiet

Taken(r) == IF Head(tx[r].plan)[2] < tx[r].need THEN Head(tx[r].plan)[2] ELSE tx[r].need

(* stockLot.update to the quantity that was read, less what is taken. *)
TakeFromLot(r) ==
    /\ tx[r].pc = "take" /\ tx[r].need > 0 /\ tx[r].plan # <<>>
    /\ LET d == Head(tx[r].plan)[1]
           n == Head(tx[r].plan)[2]
       IN /\ \A q \in Req \ {r} : tx[q].rest[d] = None
          /\ tx' = [tx EXCEPT ![r].rest[d] = n - Taken(r), ![r].need = @ - Taken(r),
                              ![r].plan = Tail(@)]
    /\ Quiet

(* Every lot is used up before the quantity is reached: the request is
   refused, and what it took is not put back. *)
EndTaking(r) ==
    /\ tx[r].pc = "take" /\ (tx[r].need = 0 \/ tx[r].plan = <<>>)
    /\ tx' = [tx EXCEPT ![r].plan = <<>>,
                        ![r].pc = IF tx[r].need = 0 THEN "update" ELSE "refused"]
    /\ Quiet

UpdateItem(r) ==
    /\ tx[r].pc = "update"
    /\ \A q \in Req \ {r} : tx[q].stock[ItemOf(r)] = None
    /\ tx' = [tx EXCEPT ![r].pc = "movement", ![r].stock[ItemOf(r)] = tx[r].read + tx[r].move]
    /\ Quiet

(* Fault: a receipt creates no lot when the item had stock before. *)
FaultyCreatesLot(r) == ItemOf(r) \in Fifo /\ tx[r].move > 0 /\ tx[r].read = 0

CreatesLot(r) == ItemOf(r) \in Fifo /\ tx[r].move > 0

InsertMovement(r) ==
    /\ tx[r].pc = "movement"
    /\ LET m == [id |-> <<r, tx[r].k>>, item |-> ItemOf(r), qty |-> tx[r].move,
                 result |-> tx[r].read + tx[r].move]
           t == [tx[r] EXCEPT !.moves = @ \cup {m}]
       IN tx' = [tx EXCEPT ![r] = IF CreatesLot(r) THEN [t EXCEPT !.pc = "lot"]
                                                   ELSE AtNextLine(t)]
    /\ Quiet

InsertLot(r) ==
    /\ tx[r].pc = "lot"
    /\ tx' = [tx EXCEPT ![r] = AtNextLine([@ EXCEPT !.rest[<<r, tx[r].k>>] = tx[r].move])]
    /\ Quiet

(* writeAudit, then res.json. *)
Answer(r) == tx[r].pc = "audit" /\ Goto(r, "answered") /\ Quiet

-----------------------------------------------------------------------------
(* COMMIT of whatever r has written so far. *)
Persist(r) ==
    /\ stock' = [i \in Item |-> QuantityOnHand(r, i)]
    /\ movement' = movement \cup tx[r].moves
    /\ lot' = [d \in Id |->
                 IF tx[r].rest[d] = None THEN lot[d]
                 ELSE IF lot[d] # None THEN [lot[d] EXCEPT !.rest = tx[r].rest[d]]
                 ELSE [item |-> LotItem(r, d), date |-> tx[r].date,
                       initial |-> (CHOOSE m \in tx[r].moves : m.id = d).qty,
                       rest |-> tx[r].rest[d]]]

(* The answer, an error too, commits. *)
Commit(r) ==
    /\ tx[r].pc \in {"answered", "refused"}
    /\ Persist(r)
    /\ End(r, IF tx[r].pc = "answered" THEN "committed" ELSE "rejected")

(* The connection closes before the answer: see Ledger. *)
Disconnect(r) ==
    /\ Disconnects
    /\ r \in InFlight /\ tx[r].pc \notin {"answered", "refused"}
    /\ Persist(r)
    /\ End(r, "cut")

(* The time limit, a crash, or PostgreSQL ending a deadlock. *)
Timeout(r) == r \in InFlight /\ End(r, "rolledback") /\ Quiet

-----------------------------------------------------------------------------
Arrive(r) == CreateItem(r) \/ Receive(r) \/ Consume(r) \/ TakeInventory(r)

Advance(r) == \/ InsertItem(r) \/ ReadItem(r) \/ ReadLots(r) \/ TakeFromLot(r) \/ EndTaking(r)
              \/ UpdateItem(r) \/ InsertMovement(r) \/ InsertLot(r) \/ Answer(r) \/ Commit(r)

Fail(r) == Disconnect(r) \/ Timeout(r)

(* Every request has been served. *)
Quiescent == (\A r \in Req : tx[r].pc \in Finished) /\ UNCHANGED vars

Next == (\E r \in Req : Arrive(r) \/ Advance(r) \/ Fail(r)) \/ Quiescent

Spec == Init /\ [][Next]_vars

-----------------------------------------------------------------------------
(* Properties. *)

Quantities(moves) == [m \in moves |-> m.qty]
Moved(i)  == SumFunctionOnSet(Quantities(movement), {m \in movement : m.item = i})
InLots(i) == SumFunctionOnSet([d \in Lots |-> lot[d].rest], {d \in Lots : lot[d].item = i})

(* The quantity on hand is what the movements add up to and, for a FIFO item,
   what is left in its lots. *)
BooksAgree ==
    \A i \in Item : stock[i] # None =>
        /\ stock[i] = Moved(i)
        /\ i \in Fifo => stock[i] = InLots(i)

(* The quantity on hand is one that a movement of the item recorded as its
   result: the item and its movement commit together. *)
QuantityRecorded ==
    \A i \in Item : stock[i] \notin {None, 0} =>
        \E m \in movement : m.item = i /\ m.result = stock[i]

(* Lots are only ever used up, and an older lot before a younger one. *)
OldestFirst ==
    \A d \in Lots : lot'[d] # lot[d] =>
        /\ lot'[d].rest < lot[d].rest
        /\ \A c \in Lots : lot[c].item = lot[d].item /\ lot[c].date < lot[d].date
                             => lot'[c].rest = 0

-----------------------------------------------------------------------------
(* The inductive invariant. *)

(* The line is not yet through: its movement is still to be inserted. *)
Pending == {"insert", "item", "lots", "take", "update", "movement"}
Moving  == {"lots", "take", "update", "movement", "lot"}

(* Where a handler is and what it has written by then; a request that does not
   run holds nothing. *)
Formed(r) ==
    LET t == tx[r]
    IN  IF t.pc \notin Running THEN t = Blank(t.pc)
        ELSE /\ t.doc \in Document /\ t.k <= Len(t.doc)
             /\ t.pc = "insert" => /\ t = [Blank("insert") EXCEPT !.doc = t.doc, !.date = t.date,
                                                                  !.move = t.doc[1].qty]
             /\ t.pc \in Moving => t.move # 0 /\ t.read + t.move \in Nat
             /\ t.pc \in {"lots", "take"} => t.move < 0 /\ ItemOf(r) \in Fifo
             /\ t.pc = "lots" => t.need = -t.move
             /\ t.pc = "lot" => t.move > 0 /\ t.rest[<<r, t.k>>] = None

(* Movements and lots are those of their lines. *)
Written(r) ==
    LET t == tx[r]
    IN  /\ IsFiniteSet(t.moves)
        /\ \A m \in t.moves : /\ m.id[1] = r /\ m.id[2] <= t.k /\ m.item = t.doc[m.id[2]].item
                              /\ t.pc \in Pending => m.id[2] # t.k
        /\ t.pc = "lot" => \E m \in t.moves : m.id = <<r, t.k>> /\ m.qty > 0
        /\ \A m, n \in t.moves : m.id = n.id => m = n
        /\ \A d \in Id : t.rest[d] # None =>
             lot[d] # None \/ \E m \in t.moves : m.id = d /\ m.qty > 0
        /\ \A n \in DOMAIN t.plan : lot[t.plan[n][1]] # None \/ t.rest[t.plan[n][1]] # None

(* The quantities r has written are results of its movements. *)
Recorded(r) ==
    \A i \in Item : tx[r].stock[i] \notin {None, 0} =>
        \/ \E m \in tx[r].moves : m.item = i /\ m.result = tx[r].stock[i]
        \/ tx[r].pc = "movement" /\ i = ItemOf(r) /\ tx[r].stock[i] = tx[r].read + tx[r].move

(* Rows in the tables are those of requests that are over. *)
StockInv ==
    /\ TypeOK
    /\ IsFiniteSet(InFlight) /\ IsFiniteSet(movement) /\ IsFiniteSet(Lots)
    /\ \A m \in movement : tx[m.id[1]].pc \in Finished
    /\ \A d \in Lots : tx[d[1]].pc \in Finished
    /\ \A r \in Req : Formed(r) /\ Written(r) /\ Recorded(r)

(* What r sees of the lots and the movements. *)
SeenLots(r)    == {d \in Id : lot[d] # None \/ tx[r].rest[d] # None}
SeenMoves(r)   == movement \cup tx[r].moves
SeenMoved(r, i) == SumFunctionOnSet(Quantities(SeenMoves(r)), {m \in SeenMoves(r) : m.item = i})
SeenIn(r, i)   == SumFunctionOnSet([d \in SeenLots(r) |-> Remaining(r, d)],
                                   {d \in SeenLots(r) : LotItem(r, d) = i})
ZeroIfNone(n)  == IF n = None THEN 0 ELSE n
OnHand(r, i)   == ZeroIfNone(QuantityOnHand(r, i))

(* The lots a request that runs alone has read: they are as they were, in
   order, and until enough is taken no other lot of the item has a rest. *)
PlanHolds(r) ==
    LET t == tx[r]
    IN  t.pc = "take" =>
          /\ \A n \in DOMAIN t.plan :
               /\ LotItem(r, t.plan[n][1]) = ItemOf(r)
               /\ Remaining(r, t.plan[n][1]) = t.plan[n][2] /\ t.plan[n][2] > 0
          /\ \A m, n \in DOMAIN t.plan : m < n =>
               /\ t.plan[m][1] # t.plan[n][1]
               /\ LotDate(r, t.plan[m][1]) <= LotDate(r, t.plan[n][1])
          /\ t.need > 0 => \A d \in SeenLots(r) : LotItem(r, d) = ItemOf(r) /\ Remaining(r, d) > 0
                             => \E n \in DOMAIN t.plan : t.plan[n][1] = d

(* What it has taken, it has taken oldest first. *)
TakenInOrder(r) ==
    \A d \in Lots : tx[r].rest[d] # None =>
        /\ tx[r].rest[d] < lot[d].rest
        /\ \A c \in Lots : lot[c].item = lot[d].item /\ lot[c].date < lot[d].date
                             => Remaining(r, c) = 0

(* How far, between two statements of a line, movements and lots are behind
   the quantity on hand of an item. *)
MovesBehind(r, i) == IF tx[r].pc = "movement" /\ i = ItemOf(r) THEN tx[r].move ELSE 0

LotsBehind(r, i) ==
    LET t == tx[r]
    IN  IF i # ItemOf(r) THEN 0
        ELSE CASE t.pc = "take"                    -> -t.move - t.need
               [] t.pc = "update" /\ t.move < 0    -> -t.move
               [] t.pc = "movement" /\ t.move > 0  -> t.move
               [] t.pc = "lot"                     -> t.move
               [] OTHER                            -> 0

(* BooksAgree, and an item that does not exist has neither movements nor lots. *)
Settled ==
    \A i \in Item : /\ Moved(i) = ZeroIfNone(stock[i])
                    /\ i \in Fifo => InLots(i) = ZeroIfNone(stock[i])

(* To a request that runs alone the books agree, up to the line it is at. *)
SeenAgree(r) ==
    /\ tx[r].pc \in {"lots", "take", "update"} => tx[r].read = OnHand(r, ItemOf(r))
    /\ \A i \in Item :
         /\ SeenMoved(r, i) = OnHand(r, i) - MovesBehind(r, i)
         /\ i \in Fifo => SeenIn(r, i) = OnHand(r, i) - LotsBehind(r, i)
=============================================================================
