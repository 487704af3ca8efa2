------------------------------ MODULE MCStock ------------------------------
(* A small instance of the stocks for TLC. *)
EXTENDS Stock

CONSTANTS r1, r2, r3, a, c

L(i, n) == [item |-> i, qty |-> n]

(* One line, a quantity that rounds to zero, the same item twice, and two
   items in one document. *)
Documents == {<<L(a, 0)>>, <<L(a, 2)>>, <<L(a, 1), L(a, 2)>>, <<L(a, 1), L(c, 1)>>, <<L(c, 1)>>}

RequestSymmetry == Permutations(Req)

(* History: whether two requests were ever in flight together. *)
VARIABLE overlapped

HistoryInit == Init /\ overlapped = FALSE
HistoryNext == Next /\ overlapped' = (overlapped \/ Cardinality(InFlight') > 1)
HistorySpec == HistoryInit /\ [][HistoryNext]_<<vars, overlapped>>

NoneCut == \A r \in Req : tx[r].pc # "cut"

(* Unless a connection was cut, the quantity on hand is the result of a
   recorded movement, however concurrent documents overwrite each other.
   Documents that come one at a time moreover leave item, movements and lots
   in agreement, also when a later line is refused and the earlier ones
   stay. *)
BooksSettle ==
    NoneCut => /\ QuantityRecorded
               /\ ~overlapped => BooksAgree

(* Documents that come one at a time, cut or not, use the lots of an item
   oldest first and never put anything back. *)
SerialOldestFirst == [][overlapped' \/ OldestFirst]_<<vars, overlapped>>

(* The inductive invariant behind BooksSettle and SerialOldestFirst. *)
SerialInv ==
    /\ StockInv
    /\ overlapped \in BOOLEAN
    /\ NoneCut => QuantityRecorded
    /\ ~overlapped => /\ \A p, q \in InFlight : p = q
                      /\ \A r \in InFlight : PlanHolds(r) /\ TakenInOrder(r)
    /\ ~overlapped /\ NoneCut => Settled /\ \A r \in InFlight : SeenAgree(r)
=============================================================================
