--------------------------- MODULE FilingsProofs ---------------------------
(***************************************************************************)
(* Proofs about what is exchanged with outside services: transports,       *)
(* Revisal exports and e-Factura, for any set of requests, codes,          *)
(* references, employees and invoices, any number of polls, with or        *)
(* without disconnecting clients; and the bank feed, for any connections,  *)
(* movements, windows, files and requests, any number of days, restarts    *)
(* and synchronisations at once.                                           *)
(***************************************************************************)
EXTENDS MCFilings, SumProofs, MCBankFeed

USE DEF ShipmentStatus, Op, Running, Finished, Verdict, Channel, Operation, Efactura

-----------------------------------------------------------------------------
(* What is known of the uploads stays true: ANAF forgets none and its verdict
   is final. *)

UploadsStay ==
    \A u \in Uploads :
        /\ u \in Uploads' /\ upload'[u].invoice = upload[u].invoice
        /\ upload[u].verdict # "PENDING" => upload'[u].verdict = upload[u].verdict

(* An upload stays known under its invoice, an accepted one accepted. *)
LEMMA KnownStays ==
    ASSUME UploadsStay
    PROVE  /\ \A u, i : Known(u, i) => Known(u, i)'
           /\ \A i : Accepted(i) => Accepted(i)'
<1>1. ASSUME NEW u, NEW i, Known(u, i) PROVE Known(u, i)'
  BY <1>1 DEF UploadsStay, Known
<1>2. ASSUME NEW i, Accepted(i) PROVE Accepted(i)'
  <2>1. PICK u \in Uploads : upload[u].invoice = i /\ upload[u].verdict = "ACCEPTED"
    BY <1>2 DEF Accepted
  <2>2. u \in Uploads' /\ upload'[u].invoice = i /\ upload'[u].verdict = "ACCEPTED"
    BY <2>1 DEF UploadsStay
  <2> QED BY <2>2 DEF Accepted
<1> QED BY <1>1, <1>2

(* Columns that name uploads of their invoice go on doing so. *)
LEMMA ColumnsStay ==
    ASSUME UploadsStay
    PROVE  \A c, i : OwnColumns(c, i) => OwnColumns(c, i)'
BY KnownStays DEF OwnColumns

(* Columns that agree with the uploads they name go on agreeing. *)
LEMMA AgreeStays ==
    ASSUME UploadsStay, NEW i
    PROVE  \A c : OwnColumns(c, i) /\ Agree(c) => Agree(c)'
<1> SUFFICES ASSUME NEW c, OwnColumns(c, i), Agree(c) PROVE Agree(c)'
  OBVIOUS
<1>1. /\ c.index # None => c.index \in Uploads
      /\ c.signed # None => c.signed \in Uploads
  BY DEF OwnColumns, Known
<1> QED BY <1>1, FilingsConstants DEF Agree, UploadsStay

-----------------------------------------------------------------------------
(* What a request knows stays true while others commit nothing. *)

(* The tables are in order whenever requests have come one at a time. *)
TablesAgree ==
    /\ \A i \in Invoice : Agree(efactura[i])
    /\ \A s \in Shipments :
          shipment[s].status \in {"IN_TRANSIT", "DELIVERED"} => shipment[s].departed

Current(r) == CurrentFiling(r) /\ CurrentEfactura(r)

(* A step of another request leaves a request in a sound state. *)
LEMMA OthersStay ==
    ASSUME FilingInv, UploadsStay, UNCHANGED Tables, NEW q \in Req, tx'[q] = tx[q],
           upload[q] = None => upload'[q] = None
    PROVE  /\ FilingFormed(q)' /\ EfacturaFormed(q)'
           /\ Current(q) => Current(q)'
<1> DEFINE t == tx[q]
<1>1. /\ FilingFormed(q) /\ EfacturaFormed(q) /\ t \in Request
      /\ shipment' = shipment /\ delivery' = delivery /\ efactura' = efactura
      /\ Shipments' = Shipments /\ Deliveries' = Deliveries
  BY DEF FilingInv, TypeOK, Tables, Shipments, Deliveries
<1>2. FilingFormed(q)'
  BY <1>1 DEF FilingFormed
<1>3. /\ \A u, i : Known(u, i) => Known(u, i)'
      /\ \A c, i : OwnColumns(c, i) => OwnColumns(c, i)'
      /\ \A u \in Uploads :
            upload[u].verdict # "PENDING" => upload'[u].verdict = upload[u].verdict
  BY KnownStays, ColumnsStay DEF UploadsStay
<1>4. Asked(q)' = Asked(q)
  BY DEF Asked
<1>5. EfacturaFormed(q)'
  <2>1. Known(Asked(q), t.doc) => Asked(q) \in Uploads
    BY DEF Known
  <2> QED BY <1>1, <1>3, <1>4, <2>1 DEF EfacturaFormed
<1>6. ASSUME Current(q) PROVE Current(q)'
  <2>1. CurrentFiling(q)'
    BY <1>1, <1>6 DEF Current, CurrentFiling, CanTransition, AllowedTransitions
  <2>2. CurrentEfactura(q)'
    <3> SUFFICES ASSUME t.op \in Efactura, t.pc # "read"
                 PROVE  /\ t.op = "POLL" => t.row.index = efactura[t.doc].index
                        /\ t.row.signed # None => upload'[t.row.signed].verdict = "ACCEPTED"
                        /\ t.op = "POLL" /\ t.row.download # None => t.row.download = t.row.index
                        /\ t.file # None => t.file = Asked(q)
                        /\ t.pc = "answer" => Agree(tx[q].row)'
      BY <1>1, <1>4 DEF CurrentEfactura
    <3>1. OwnColumns(t.row, t.doc)
      BY <1>1 DEF EfacturaFormed
    <3>2. t.row.signed # None => t.row.signed \in Uploads
      BY <3>1 DEF OwnColumns, Known
    <3>3. /\ t.op = "POLL" => t.row.index = efactura[t.doc].index
          /\ t.row.signed # None => upload[t.row.signed].verdict = "ACCEPTED"
          /\ t.op = "POLL" /\ t.row.download # None => t.row.download = t.row.index
          /\ t.file # None => t.file = Asked(q)
          /\ t.pc = "answer" => Agree(t.row)
      BY <1>6 DEF Current, CurrentEfactura
    <3>4. t.pc = "answer" => Agree(tx[q].row)'
      <4>1. \A c : OwnColumns(c, t.doc) /\ Agree(c) => Agree(c)'
        BY AgreeStays
      <4> QED BY <3>1, <3>3, <4>1
    <3> QED BY <1>3, <3>2, <3>3, <3>4
  <2> QED BY <2>1, <2>2 DEF Current
<1> QED BY <1>2, <1>5, <1>6

(* The tables stay in order too. *)
LEMMA TablesStay ==
    ASSUME FilingInv, UploadsStay, UNCHANGED Tables
    PROVE  /\ \A i \in Invoice : OwnColumns(efactura[i], i)'
           /\ TablesAgree => TablesAgree'
<1>1. /\ shipment' = shipment /\ efactura' = efactura /\ Shipments' = Shipments
      /\ \A i \in Invoice : OwnColumns(efactura[i], i)
  BY DEF FilingInv, Tables, Shipments
<1>2. \A i \in Invoice : OwnColumns(efactura[i], i)'
  BY <1>1, ColumnsStay
<1>3. ASSUME NEW i \in Invoice, Agree(efactura[i]) PROVE Agree(efactura[i])'
  BY <1>1, <1>3, AgreeStays
<1> QED BY <1>1, <1>2, <1>3 DEF TablesAgree

-----------------------------------------------------------------------------
(* Steps that commit nothing. *)

(* A step of r that leaves the tables alone and r with a sound request. *)
Sound(r) ==
    /\ tx' = [tx EXCEPT ![r] = tx'[r]] /\ tx'[r] \in Request
    /\ UNCHANGED Tables /\ UploadsStay /\ upload' \in [Req -> UploadRow \cup {None}]
    /\ \A q \in Req \ {r} : upload[q] = None => upload'[q] = None
    /\ FilingFormed(r)' /\ EfacturaFormed(r)'
    /\ TablesAgree /\ Current(r) => Current(r)'

(* A request that holds nothing. *)
LEMMA BlankType ==
    ASSUME NEW label \in {"idle"} \cup Running \cup Finished
    PROVE  /\ Blank(label) \in Request /\ Blank(label).op = "SHIP"
           /\ Blank(label).pc = label /\ Blank(label).file = None
<1>1. 0 \in Nat
  OBVIOUS
<1> QED BY <1>1 DEF Blank, Request

(* A request that ends without writing. *)
LEMMA EndSound ==
    ASSUME FilingInv, NEW r \in Req, NEW label \in Finished, End(r, label), Quiet
    PROVE  Sound(r)
<1>1. tx \in [Req -> Request] /\ upload \in [Req -> UploadRow \cup {None}]
  BY DEF FilingInv, TypeOK
<1>2. Blank(label) \in Request /\ Blank(label).op = "SHIP" /\ Blank(label).pc = label
  BY BlankType
<1>3. tx' = [tx EXCEPT ![r] = tx'[r]] /\ tx'[r] = Blank(label)
  BY <1>1, <1>2 DEF End
<1>4. UNCHANGED Tables /\ upload' = upload /\ UploadsStay
  BY DEF Quiet, UploadsStay, Uploads
<1>5. FilingFormed(r)' /\ EfacturaFormed(r)' /\ Current(r)'
  BY <1>2, <1>3 DEF FilingFormed, EfacturaFormed, Current, CurrentFiling, CurrentEfactura
<1> QED BY <1>1, <1>2, <1>3, <1>4, <1>5 DEF Sound

(* A refusal. *)
LEMMA RejectSound ==
    ASSUME FilingInv, NEW r \in Req, Reject(r)
    PROVE  Sound(r)
<1>1. CASE tx[r].open
  BY <1>1, EndSound DEF Reject
<1>2. CASE ~tx[r].open
  BY <1>2, EndSound DEF Reject
<1> QED BY <1>1, <1>2

(* A step of r that changes nothing but its own request. *)
LEMMA StepLocal ==
    ASSUME FilingInv, NEW r \in Req, NEW t \in Request, Step(r, t)
    PROVE  /\ tx'[r] = t
           /\ shipment' = shipment /\ delivery' = delivery /\ efactura' = efactura
           /\ upload' = upload /\ Shipments' = Shipments /\ Deliveries' = Deliveries
           /\ \A u, i : Known(u, i)' <=> Known(u, i)
           /\ \A i : Accepted(i)' <=> Accepted(i)
           /\ \A c, i : OwnColumns(c, i)' <=> OwnColumns(c, i)
           /\ \A c : Agree(c)' <=> Agree(c)
           /\ /\ FilingFormed(r)' /\ EfacturaFormed(r)'
              /\ TablesAgree /\ Current(r) => Current(r)'
              => Sound(r)
<1>1. tx \in [Req -> Request] /\ upload \in [Req -> UploadRow \cup {None}]
  BY DEF FilingInv, TypeOK
<1>2. tx' = [tx EXCEPT ![r] = tx'[r]] /\ tx'[r] = t
  BY <1>1 DEF Step
<1>3. UNCHANGED Tables /\ upload' = upload /\ UploadsStay
  BY DEF Step, Quiet, UploadsStay, Uploads
<1>4. /\ shipment' = shipment /\ delivery' = delivery /\ efactura' = efactura
      /\ Shipments' = Shipments /\ Deliveries' = Deliveries
  BY <1>3 DEF Tables, Shipments, Deliveries
<1>5. /\ \A u, i : Known(u, i)' <=> Known(u, i)
      /\ \A i : Accepted(i)' <=> Accepted(i)
      /\ \A c, i : OwnColumns(c, i)' <=> OwnColumns(c, i)
      /\ \A c : Agree(c)' <=> Agree(c)
  BY <1>3 DEF Known, Accepted, OwnColumns, Agree, Uploads
<1> QED BY <1>1, <1>2, <1>3, <1>4, <1>5 DEF Sound

(* How a request begins. *)
FirstStep(t) ==
    /\ t.file = None
    /\ \/ t.pc = "reserve" /\ t.op = "SHIP"
       \/ /\ t.pc = "read"
          /\ \/ t.op = "MOVE" /\ t.doc \in Shipments /\ t.want \in ShipmentStatus
             \/ t.op = "EXPORT" /\ t.doc \in Reference /\ t.month \in Month
             \/ t.op = "DELIVER" /\ t.doc \in Deliveries /\ t.want \in Channel
             \/ t.op \in Efactura /\ t.doc \in Invoice

(* A request starts with nothing read. *)
LEMMA ArriveSound ==
    ASSUME FilingInv, NEW r \in Req, Arrive(r)
    PROVE  Sound(r)
<1>1. tx[r].pc = "idle"
  BY DEF Arrive, CreateShipment, UpdateShipment, ExportRevisal, DeliverRevisal, SendEfactura,
         PollEfactura, Start
<1>2. shipment[r] = None /\ delivery[r] = None /\ upload[r] = None
  BY <1>1 DEF FilingInv, FilingFormed, EfacturaFormed
<1>3. ASSUME NEW t \in Request, Start(r, t), FirstStep(t) PROVE Sound(r)
  <2>1. Step(r, t)
    BY <1>3 DEF Start
  <2>2. FilingFormed(r)' /\ EfacturaFormed(r)' /\ Current(r)'
    BY <1>2, <1>3, <2>1, StepLocal
       DEF FirstStep, FilingFormed, EfacturaFormed, Current, CurrentFiling, CurrentEfactura
  <2> QED BY <1>3, <2>1, <2>2, StepLocal
<1>4. 0 \in Nat /\ Shipments \subseteq Req /\ Deliveries \subseteq Req /\ Month \subseteq Nat
  BY FilingsConstants DEF Shipments, Deliveries
<1>5. CASE CreateShipment(r)
  <2>1. Blank("reserve") \in Request /\ FirstStep(Blank("reserve"))
    BY BlankType DEF FirstStep
  <2> QED BY <1>3, <1>5, <2>1 DEF CreateShipment
<1>6. CASE UpdateShipment(r)
  <2>1. PICK s \in Shipments, want \in ShipmentStatus :
            Start(r, [Blank("read") EXCEPT !.op = "MOVE", !.doc = s, !.want = want])
    BY <1>6 DEF UpdateShipment
  <2> DEFINE t == [Blank("read") EXCEPT !.op = "MOVE", !.doc = s, !.want = want]
  <2>2. t \in Request /\ FirstStep(t)
    BY <1>4 DEF Blank, Request, FirstStep
  <2>3. Start(r, t)
    BY <2>1
  <2> HIDE DEF t
  <2> QED BY <1>3, <2>2, <2>3
<1>7. CASE ExportRevisal(r)
  <2>1. PICK ref \in Reference, m \in Month :
            Start(r, [Blank("read") EXCEPT !.op = "EXPORT", !.doc = ref, !.month = m])
    BY <1>7 DEF ExportRevisal
  <2> DEFINE t == [Blank("read") EXCEPT !.op = "EXPORT", !.doc = ref, !.month = m]
  <2>2. t \in Request /\ FirstStep(t)
    BY <1>4 DEF Blank, Request, FirstStep
  <2>3. Start(r, t)
    BY <2>1
  <2> HIDE DEF t
  <2> QED BY <1>3, <2>2, <2>3
<1>8. CASE DeliverRevisal(r)
  <2>1. PICK d \in Deliveries, ch \in Channel :
            Start(r, [Blank("read") EXCEPT !.op = "DELIVER", !.doc = d, !.want = ch])
    BY <1>8 DEF DeliverRevisal
  <2> DEFINE t == [Blank("read") EXCEPT !.op = "DELIVER", !.doc = d, !.want = ch]
  <2>2. t \in Request /\ FirstStep(t)
    BY <1>4 DEF Blank, Request, FirstStep
  <2>3. Start(r, t)
    BY <2>1
  <2> HIDE DEF t
  <2> QED BY <1>3, <2>2, <2>3
<1>9. ASSUME NEW op \in Efactura, NEW i \in Invoice, NEW wait \in BOOLEAN,
             Start(r, [Blank("read") EXCEPT !.op = op, !.doc = i, !.wait = wait])
      PROVE  Sound(r)
  <2> DEFINE t == [Blank("read") EXCEPT !.op = op, !.doc = i, !.wait = wait]
  <2>2. t \in Request /\ FirstStep(t)
    BY <1>4 DEF Blank, Request, FirstStep
  <2>3. Start(r, t)
    BY <1>9
  <2> HIDE DEF t
  <2> QED BY <1>3, <2>2, <2>3
<1>10. CASE SendEfactura(r)
  BY <1>9, <1>10 DEF SendEfactura
<1>11. CASE PollEfactura(r)
  BY <1>9, <1>11 DEF PollEfactura
<1> QED BY <1>5, <1>6, <1>7, <1>8, <1>10, <1>11 DEF Arrive

-----------------------------------------------------------------------------
(* Transports and Revisal exports. *)

(* A Revisal export lists well-formed rows. *)
LEMMA ContractRowsType ==
    ASSUME NEW m \in Month
    PROVE  buildContractRows(m)
             \in SUBSET [employee : Employee, active : BOOLEAN, operation : Operation]
<1>1. \A e \in Eligible(m) :
         ContractRow(e, m) \in [employee : Employee, active : BOOLEAN, operation : Operation]
  BY FilingsConstants DEF ContractRow, Eligible
<1> QED BY <1>1 DEF buildContractRows

(* Statements of the transport and Revisal handlers before their commit. *)
LEMMA FilingSound ==
    ASSUME FilingInv, NEW r \in Req,
           \/ ReserveUit(r) \/ InsertShipment(r) \/ ReadShipment(r) \/ WriteShipment(r)
           \/ ReadForExport(r) \/ InsertExport(r) \/ ReadDelivery(r) \/ WriteDelivery(r)
    PROVE  Sound(r)
<1> DEFINE u == tx[r]
<1>1. u \in Request /\ FilingFormed(r) /\ EfacturaFormed(r)
  BY DEF FilingInv, TypeOK
<1>2. /\ \A s \in Shipments : shipment[s] \in ShipmentRow
      /\ \A d \in Deliveries : delivery[d] \in DeliveryRow
  BY DEF FilingInv, TypeOK, Shipments, Deliveries
<1>3. CASE Reject(r)
  BY <1>3, RejectSound
<1>4. CASE ReserveUit(r)
  <2>1. ASSUME NEW x \in Uit, Step(r, [u EXCEPT !.pc = "insert", !.want = x]) PROVE Sound(r)
    <3> DEFINE t == [u EXCEPT !.pc = "insert", !.want = x]
    <3>1. t \in Request /\ t.pc = "insert" /\ t.op = "SHIP" /\ t.want = x
      BY ZenonT(60), <1>1, <1>4 DEF Request, ReserveUit, At
    <3>2. Step(r, t)
      BY <2>1
    <3> HIDE DEF t
    <3>3. FilingFormed(r)' /\ EfacturaFormed(r)' /\ Current(r)'
      BY <1>1, <1>4, <3>1, <3>2, StepLocal
         DEF ReserveUit, At, FilingFormed, EfacturaFormed, Current, CurrentFiling, CurrentEfactura
    <3> QED BY <3>1, <3>2, <3>3, StepLocal
  <2> QED BY <1>3, <1>4, <2>1 DEF ReserveUit
<1>5. CASE InsertShipment(r)
  <2> DEFINE row == [uit |-> u.want, status |-> "GENERATED", departed |-> FALSE, arrived |-> FALSE]
             t == [u EXCEPT !.pc = "answer", !.row = row]
  <2>1. CASE End(r, "rolledback") /\ Quiet
    BY <2>1, EndSound
  <2>2. CASE Step(r, t)
    <3>1. row \in ShipmentRow
      BY <1>1, <1>5 DEF InsertShipment, At, FilingFormed, ShipmentRow
    <3>2. /\ t \in Request /\ t.pc = "answer" /\ t.op = "SHIP" /\ t.row = row
          /\ row.status = "GENERATED"
      BY ZenonT(60), <1>1, <1>5, <3>1 DEF Request, InsertShipment, At
    <3> HIDE DEF t, row
    <3>3. FilingFormed(r)' /\ EfacturaFormed(r)' /\ Current(r)'
      BY <1>1, <1>5, <2>2, <3>1, <3>2, StepLocal
         DEF InsertShipment, At, FilingFormed, EfacturaFormed, Current, CurrentFiling,
             CurrentEfactura
    <3> QED BY <2>2, <3>2, <3>3, StepLocal
  <2> QED BY <1>5, <2>1, <2>2 DEF InsertShipment
<1>6. CASE ReadShipment(r)
  <2> DEFINE t == [u EXCEPT !.pc = "update"]
  <2>1. CASE CanTransition(shipment[u.doc].status, u.want) /\ Step(r, t)
    <3>1. /\ t \in Request /\ t.pc = "update" /\ t.op = "MOVE" /\ t.doc = u.doc
          /\ t.want = u.want
      BY <1>1, <1>6 DEF Request, ReadShipment, At
    <3> HIDE DEF t
    <3>2. FilingFormed(r)' /\ EfacturaFormed(r)'
      BY <1>1, <1>6, <2>1, <3>1, StepLocal DEF ReadShipment, At, FilingFormed, EfacturaFormed
    <3>3. Current(r)'
      BY <2>1, <3>1, StepLocal DEF Current, CurrentFiling, CurrentEfactura, CanTransition,
                                   AllowedTransitions
    <3> QED BY <2>1, <3>1, <3>2, <3>3, StepLocal
  <2> QED BY <1>3, <1>6, <2>1 DEF ReadShipment
<1>7. CASE WriteShipment(r)
  <2> DEFINE s == shipment[u.doc]
             row == [s EXCEPT !.status = u.want, !.departed = @ \/ u.want = "IN_TRANSIT",
                              !.arrived = @ \/ u.want = "DELIVERED"]
             t == [u EXCEPT !.pc = "answer", !.row = row]
  <2>1. /\ u.op = "MOVE" /\ u.pc = "update" /\ u.doc \in Shipments /\ u.want \in ShipmentStatus
        /\ s \in ShipmentRow /\ Step(r, t)
    BY <1>1, <1>2, <1>7 DEF WriteShipment, At, FilingFormed
  <2>2. s.departed \in BOOLEAN /\ s.arrived \in BOOLEAN /\ s.uit \in Uit
    BY <2>1 DEF ShipmentRow
  <2> DEFINE dep == s.departed \/ u.want = "IN_TRANSIT"
             arr == s.arrived \/ u.want = "DELIVERED"
  <2>7. dep \in BOOLEAN /\ arr \in BOOLEAN
    BY <2>2, Zenon
  <2>8. row = [s EXCEPT !.status = u.want, !.departed = dep, !.arrived = arr]
    OBVIOUS
  <2> HIDE DEF dep, arr, row
  <2>9. row \in ShipmentRow /\ row.status = u.want /\ row.uit = s.uit /\ row.departed = dep
    BY <2>1, <2>7, <2>8 DEF ShipmentRow
  <2>3. /\ row \in ShipmentRow /\ row.status = u.want /\ row.uit = s.uit
        /\ row.departed = (s.departed \/ u.want = "IN_TRANSIT")
    BY <2>9 DEF dep
  <2>4. t \in Request /\ t.pc = "answer" /\ t.op = "MOVE" /\ t.row = row /\ t.doc = u.doc
        /\ t.want = u.want
    BY <1>1, <2>1, <2>3 DEF Request
  <2> HIDE DEF t
  <2>5. FilingFormed(r)' /\ EfacturaFormed(r)'
    BY <1>1, <2>1, <2>3, <2>4, StepLocal DEF FilingFormed, EfacturaFormed
  <2>6. ASSUME TablesAgree, Current(r) PROVE Current(r)'
    <3>1. CanTransition(s.status, u.want)
      BY <2>1, <2>6 DEF Current, CurrentFiling
    <3>2. s.status \in {"IN_TRANSIT", "DELIVERED"} => s.departed
      BY <2>1, <2>6 DEF TablesAgree
    <3>3. row.status \in {"IN_TRANSIT", "DELIVERED"} => row.departed
      BY <2>1, <2>3, <3>1, <3>2 DEF CanTransition, AllowedTransitions, ShipmentRow
    <3> QED BY ZenonT(60), <2>1, <2>3, <2>4, <3>1, <3>3, StepLocal
            DEF Current, CurrentFiling, CurrentEfactura, CanTransition, AllowedTransitions
  <2> QED BY <2>1, <2>4, <2>5, <2>6, StepLocal
<1>8. CASE ReadForExport(r)
  <2> DEFINE row == [ref |-> u.doc, month |-> u.month, rows |-> buildContractRows(u.month),
                     status |-> "GENERATED", channel |-> None, receipt |-> FALSE]
             t == [u EXCEPT !.pc = "insert", !.row = row]
  <2>1. CASE Step(r, t)
    <3>1. u.op = "EXPORT" /\ u.pc = "read" /\ u.doc \in Reference /\ u.month \in Month
      BY <1>1, <1>8 DEF ReadForExport, At, FilingFormed
    <3>2. row \in DeliveryRow
      BY <3>1, ContractRowsType DEF DeliveryRow
    <3> HIDE DEF row
    <3>3. t \in Request /\ t.pc = "insert" /\ t.op = "EXPORT" /\ t.row = row /\ t.doc = u.doc
          /\ t.month = u.month
      BY <1>1, <3>1, <3>2 DEF Request
    <3> HIDE DEF t
    <3>4. FilingFormed(r)' /\ EfacturaFormed(r)' /\ Current(r)'
      BY <1>1, <2>1, <3>1, <3>2, <3>3, StepLocal
         DEF FilingFormed, EfacturaFormed, Current, CurrentFiling, CurrentEfactura
    <3> QED BY <2>1, <3>3, <3>4, StepLocal
  <2> QED BY <1>3, <1>8, <2>1 DEF ReadForExport
<1>9. CASE InsertExport(r)
  <2> DEFINE t == [u EXCEPT !.pc = "answer"]
  <2>1. CASE End(r, "rolledback") /\ Quiet
    BY <2>1, EndSound
  <2>2. CASE Step(r, t)
    <3>1. u.op = "EXPORT" /\ u.pc = "insert"
      BY <1>9 DEF InsertExport, At
    <3>2. t \in Request /\ t.pc = "answer" /\ t.op = "EXPORT" /\ t.row = u.row /\ t.doc = u.doc
          /\ t.month = u.month
      BY <1>1, <3>1 DEF Request
    <3> HIDE DEF t
    <3>3. FilingFormed(r)' /\ EfacturaFormed(r)' /\ Current(r)'
      BY <1>1, <2>2, <3>1, <3>2, StepLocal
         DEF FilingFormed, EfacturaFormed, Current, CurrentFiling, CurrentEfactura
    <3> QED BY <2>2, <3>2, <3>3, StepLocal
  <2> QED BY <1>9, <2>1, <2>2 DEF InsertExport
<1>10. CASE ReadDelivery(r)
  <2> DEFINE t == [u EXCEPT !.pc = "update"]
  <2>1. CASE delivery[u.doc].status # "DELIVERED" /\ Step(r, t)
    <3>1. u.op = "DELIVER" /\ u.pc = "read"
      BY <1>10 DEF ReadDelivery, At
    <3>2. t \in Request /\ t.pc = "update" /\ t.op = "DELIVER" /\ t.doc = u.doc /\ t.want = u.want
      BY <1>1, <3>1 DEF Request
    <3> HIDE DEF t
    <3>3. FilingFormed(r)' /\ EfacturaFormed(r)' /\ Current(r)'
      BY <1>1, <2>1, <3>1, <3>2, StepLocal
         DEF FilingFormed, EfacturaFormed, Current, CurrentFiling, CurrentEfactura
    <3> QED BY <2>1, <3>2, <3>3, StepLocal
  <2> QED BY <1>3, <1>10, <2>1 DEF ReadDelivery
<1>11. CASE WriteDelivery(r)
  <2>1. PICK receipt \in BOOLEAN :
           Step(r, [u EXCEPT !.pc = "answer",
                             !.row = [delivery[u.doc] EXCEPT !.status = "DELIVERED",
                                        !.channel = u.want, !.receipt = receipt]])
    BY <1>11 DEF WriteDelivery
  <2> DEFINE d == delivery[u.doc]
             row == [d EXCEPT !.status = "DELIVERED", !.channel = u.want, !.receipt = receipt]
             t == [u EXCEPT !.pc = "answer", !.row = row]
  <2>2. /\ u.op = "DELIVER" /\ u.pc = "update" /\ u.doc \in Deliveries /\ u.want \in Channel
        /\ d \in DeliveryRow
    BY <1>1, <1>2, <1>11 DEF WriteDelivery, At, FilingFormed
  <2>3. row \in DeliveryRow /\ row.rows = d.rows
    BY <2>2 DEF DeliveryRow
  <2>4. Step(r, t)
    BY <2>1
  <2> HIDE DEF row
  <2>5. t \in Request /\ t.pc = "answer" /\ t.op = "DELIVER" /\ t.row = row /\ t.doc = u.doc
        /\ t.want = u.want
    BY <1>1, <2>2, <2>3 DEF Request
  <2> HIDE DEF t
  <2>6. FilingFormed(r)' /\ EfacturaFormed(r)'
    BY <1>1, <2>2, <2>3, <2>4, <2>5, StepLocal DEF FilingFormed, EfacturaFormed
  <2>7. Current(r) => Current(r)'
    BY <2>2, <2>3, <2>4, <2>5, StepLocal DEF Current, CurrentFiling, CurrentEfactura
  <2> QED BY <2>4, <2>5, <2>6, <2>7, StepLocal
<1> QED BY <1>4, <1>5, <1>6, <1>7, <1>8, <1>9, <1>10, <1>11

-----------------------------------------------------------------------------
(* e-Factura. *)

Calls == {"upload", "poll", "download", "store", "update", "answer"}

(* A handler that goes on with the same invoice. *)
LEMMA SameInvoice ==
    ASSUME FilingInv, NEW r \in Req, NEW t \in Request, Step(r, t), tx[r].pc \in Running,
           tx[r].op \in Efactura, t.op = tx[r].op, t.doc = tx[r].doc, t.pc \in Calls
    PROVE  FilingFormed(r)' /\ CurrentFiling(r)'
<1>1. FilingFormed(r)
  BY DEF FilingInv
<1> QED BY <1>1, StepLocal DEF FilingFormed, CurrentFiling, Calls

(* A handler that goes on with the columns it has read. *)
LEMMA SameColumns ==
    ASSUME FilingInv, NEW r \in Req, NEW t \in Request, Step(r, t),
           tx[r].op \in Efactura, tx[r].pc \in {"poll", "download", "store"},
           t.op = tx[r].op, t.doc = tx[r].doc, t.row = tx[r].row,
           t.pc \in {"poll", "download", "store", "update"},
           t.file # None => Known(t.file, t.doc),
           t.pc \in {"download", "store"} => t.file # None /\ t.answer = "ACCEPTED",
           t.pc # "poll" => /\ t.answer \in Verdict
                            /\ t.answer # "PENDING" => upload[Asked(r)].verdict = t.answer,
           Current(r) => (t.file # None => t.file = Asked(r))
    PROVE  Sound(r)
<1>1. EfacturaFormed(r) /\ Asked(r)' = Asked(r) /\ tx'[r] = t /\ upload' = upload
  BY StepLocal DEF FilingInv, Asked
<1>2. FilingFormed(r)' /\ CurrentFiling(r)'
  BY SameInvoice DEF Calls
<1>3. EfacturaFormed(r)'
  BY <1>1, StepLocal DEF EfacturaFormed
<1>4. Current(r) => CurrentEfactura(r)'
  BY <1>1, StepLocal DEF Current, CurrentEfactura
<1> QED BY <1>2, <1>3, <1>4, StepLocal DEF Current

(* Sending or polling reads the e-Factura columns of its invoice. *)
LEMMA ReadInvoiceSound ==
    ASSUME FilingInv, NEW r \in Req, ReadInvoice(r)
    PROVE  Sound(r)
<1> DEFINE u == tx[r]
           row == efactura[u.doc]
<1>1. /\ u \in Request /\ FilingFormed(r) /\ EfacturaFormed(r)
      /\ u.op \in Efactura /\ u.pc = "read" /\ u.doc \in Invoice
  BY DEF FilingInv, TypeOK, ReadInvoice, FilingFormed
<1>2. row \in Columns /\ OwnColumns(row, u.doc)
  BY <1>1 DEF FilingInv, TypeOK
<1>3. ASSUME NEW label \in {"upload", "poll"}, Step(r, [u EXCEPT !.pc = label, !.row = row]),
             IF label = "upload" THEN u.op = "SEND" ELSE u.op = "POLL" /\ row.index # None
      PROVE  Sound(r)
  <2> DEFINE t == [u EXCEPT !.pc = label, !.row = row]
  <2> HIDE DEF row
  <2>1. /\ t \in Request /\ t.pc = label /\ t.row = row /\ t.op = u.op /\ t.doc = u.doc
        /\ t.file = None
    BY ZenonT(60), <1>1, <1>2 DEF Request, EfacturaFormed
  <2>2. Step(r, t)
    BY <1>3
  <2> HIDE DEF t
  <2>3. FilingFormed(r)' /\ CurrentFiling(r)'
    BY <1>1, <1>3, <2>1, <2>2, SameInvoice DEF Calls
  <2>4. label = "poll" => Asked(r)' \in Req /\ Known(Asked(r), tx[r].doc)'
    <3>1. label = "poll" => Asked(r)' = row.index /\ row.index \in Req /\ Known(row.index, u.doc)
      BY <1>2, <1>3, <2>1, <2>2, StepLocal DEF Asked, OwnColumns, Columns
    <3>2. tx'[r].doc = u.doc /\ \A x, i : Known(x, i)' <=> Known(x, i)
      BY <2>1, <2>2, StepLocal
    <3> QED BY <3>1, <3>2 DEF Known, Uploads
  <2>5. EfacturaFormed(r)'
    BY <1>1, <1>2, <1>3, <2>1, <2>2, <2>4, StepLocal DEF EfacturaFormed
  <2>6. TablesAgree => CurrentEfactura(r)'
    <3>1. TablesAgree => Agree(row)
      BY <1>1 DEF TablesAgree, row
    <3> QED BY <1>1, <1>3, <2>1, <2>2, <3>1, StepLocal DEF CurrentEfactura, Agree, row
  <2> QED BY <2>1, <2>2, <2>3, <2>5, <2>6, StepLocal DEF Current
<1>4. CASE Reject(r)
  BY <1>4, RejectSound
<1> QED BY <1>1, <1>3, <1>4 DEF ReadInvoice

(* The upload to ANAF is known under the index of the request that made it. *)
LEMMA UploadSound ==
    ASSUME FilingInv, NEW r \in Req, Upload(r)
    PROVE  Sound(r)
<1> DEFINE u == tx[r]
           new == [invoice |-> u.doc, verdict |-> "PENDING"]
<1>1. /\ u \in Request /\ FilingFormed(r) /\ EfacturaFormed(r) /\ tx \in [Req -> Request]
      /\ upload \in [Req -> UploadRow \cup {None}]
      /\ u.pc = "upload" /\ u.op = "SEND" /\ u.doc \in Invoice /\ upload[r] = None
  BY DEF FilingInv, TypeOK, Upload, FilingFormed, EfacturaFormed
<1>2. new \in UploadRow /\ new # None /\ new.invoice = u.doc
  BY <1>1, FilingsConstants DEF UploadRow
<1>3. /\ upload'[r] = new /\ \A q \in Req \ {r} : upload'[q] = upload[q]
      /\ upload' \in [Req -> UploadRow \cup {None}]
  BY <1>1, <1>2 DEF Upload
<1> HIDE DEF new
<1>4. UploadsStay
  BY <1>1, <1>3 DEF UploadsStay, Uploads
<1>5. r \in Uploads' /\ upload'[r].invoice = u.doc
  BY <1>2, <1>3 DEF Uploads
<1>6. UNCHANGED Tables /\ Shipments' = Shipments /\ Deliveries' = Deliveries
      /\ shipment' = shipment /\ delivery' = delivery /\ efactura' = efactura
  BY DEF Upload, Tables, Shipments, Deliveries
<1>7. CASE tx' = [tx EXCEPT ![r].pc = "poll"]
  <2> DEFINE t == [u EXCEPT !.pc = "poll"]
  <2>1. tx' = [tx EXCEPT ![r] = tx'[r]] /\ tx'[r] = t
    BY <1>1, <1>7
  <2>2. /\ t \in Request /\ t.pc = "poll" /\ t.row = u.row /\ t.op = "SEND" /\ t.doc = u.doc
        /\ t.file = u.file /\ u.file = None
    BY <1>1 DEF Request, EfacturaFormed
  <2> HIDE DEF t
  <2>3. FilingFormed(r)'
    BY <1>1, <1>6, <2>1, <2>2 DEF FilingFormed
  <2>4. OwnColumns(tx[r].row, tx[r].doc)'
    <3>1. OwnColumns(u.row, u.doc)
      BY <1>1 DEF EfacturaFormed
    <3>2. \A c, i : OwnColumns(c, i) => OwnColumns(c, i)'
      BY <1>4, ColumnsStay
    <3>3. tx'[r].row = u.row /\ tx'[r].doc = u.doc
      BY <2>1, <2>2
    <3> QED BY <3>1, <3>2, <3>3 DEF OwnColumns, Known, Accepted
  <2>5. EfacturaFormed(r)'
    <3>1. Asked(r)' = r /\ Known(Asked(r), tx[r].doc)'
      BY <1>5, <2>1, <2>2 DEF Asked, Known
    <3> QED BY <1>1, <2>1, <2>2, <2>4, <3>1 DEF EfacturaFormed
  <2>6. Current(r) => Current(r)'
    <3>1. u.row.signed # None => u.row.signed \in Uploads
      BY <1>1 DEF EfacturaFormed, OwnColumns, Known
    <3> QED BY <1>1, <1>4, <2>1, <2>2, <3>1
            DEF Current, CurrentFiling, CurrentEfactura, UploadsStay
  <2> QED BY <1>3, <1>4, <1>6, <2>1, <2>2, <2>3, <2>5, <2>6 DEF Sound
<1>8. ASSUME NEW label \in Finished, End(r, label) PROVE Sound(r)
  <2>1. Blank(label) \in Request /\ Blank(label).op = "SHIP" /\ Blank(label).pc = label
    BY BlankType
  <2>2. tx' = [tx EXCEPT ![r] = tx'[r]] /\ tx'[r] = Blank(label)
    BY <1>1, <1>8, <2>1 DEF End
  <2>3. FilingFormed(r)' /\ EfacturaFormed(r)' /\ Current(r)'
    BY <2>1, <2>2 DEF FilingFormed, EfacturaFormed, Current, CurrentFiling, CurrentEfactura
  <2> QED BY <1>3, <1>4, <1>6, <2>1, <2>2, <2>3 DEF Sound
<1>9. CASE End(r, IF u.open THEN "rejected" ELSE "rolledback")
  <2>1. CASE u.open
    BY <1>8, <1>9, <2>1
  <2>2. CASE ~u.open
    BY <1>8, <1>9, <2>2
  <2> QED BY <2>1, <2>2
<1> QED BY <1>7, <1>9 DEF Upload

(* What an answer of ANAF changes in a request. *)
LEMMA Polled ==
    ASSUME NEW u \in Request, NEW n \in Nat, NEW a \in Verdict \cup {None}
    PROVE  /\ [u EXCEPT !.polls = n, !.answer = a] \in Request
           /\ [u EXCEPT !.polls = n, !.answer = a].op = u.op
           /\ [u EXCEPT !.polls = n, !.answer = a].doc = u.doc
           /\ [u EXCEPT !.polls = n, !.answer = a].row = u.row
           /\ [u EXCEPT !.polls = n, !.answer = a].answer = a
<1>1. [u EXCEPT !.polls = n, !.answer = a] \in Request
  BY ZenonT(60) DEF Request
<1>2. /\ [u EXCEPT !.polls = n, !.answer = a].op = u.op
      /\ [u EXCEPT !.polls = n, !.answer = a].doc = u.doc
      /\ [u EXCEPT !.polls = n, !.answer = a].row = u.row
      /\ [u EXCEPT !.polls = n, !.answer = a].answer = a
  BY DEF Request
<1> QED BY <1>1, <1>2

(* The answer of a poll is the verdict on the upload that was asked about. *)
LEMMA PollSound ==
    ASSUME FilingInv, NEW r \in Req, Poll(r)
    PROVE  Sound(r)
<1> DEFINE u == tx[r]
           v == upload[Asked(r)].verdict
           status == classifyStatus(v = "REJECTED", v = "ACCEPTED")
<1>1. /\ u \in Request /\ FilingFormed(r) /\ EfacturaFormed(r)
      /\ u.pc = "poll" /\ u.op \in Efactura
  BY DEF FilingInv, TypeOK, Poll, FilingFormed
<1>2. Asked(r) \in Req /\ Known(Asked(r), u.doc) /\ OwnColumns(u.row, u.doc) /\ u.row \in Columns
  BY <1>1 DEF EfacturaFormed
<1>3. v \in Verdict
  <2>1. upload[Asked(r)] \in UploadRow
    BY <1>2 DEF FilingInv, TypeOK, Known, Uploads
  <2> QED BY <2>1 DEF UploadRow
<1>4. status = v
  BY <1>3 DEF classifyStatus
<1>5. PICK named \in {None, Asked(r)} :
         Step(r, [u EXCEPT !.polls = @ + 1, !.answer = status, !.file = Resolved(r, named),
                    !.pc = IF Fetches(r, status, named) THEN "download"
                           ELSE IF u.op = "SEND" /\ status = "PENDING" /\ u.polls + 1 < MaxPolls
                           THEN "poll" ELSE "update"])
  BY DEF Poll
<1> DEFINE label == IF Fetches(r, status, named) THEN "download"
                    ELSE IF u.op = "SEND" /\ status = "PENDING" /\ u.polls + 1 < MaxPolls
                    THEN "poll" ELSE "update"
           file == Resolved(r, named)
           polls == u.polls + 1
           t == [u EXCEPT !.polls = polls, !.answer = status, !.file = file, !.pc = label]
<1>6. Step(r, t)
  BY <1>5
<1>7. /\ label \in {"poll", "download", "update"}
      /\ label = "download" => file # None /\ status = "ACCEPTED"
  BY DEF Fetches
<1>8. file # None => file \in Req /\ Known(file, u.doc)
  BY <1>2 DEF Resolved, OwnColumns, Columns
<1>9. Current(r) => (file # None => file = Asked(r))
  <2>1. Current(r) /\ u.op = "POLL" /\ u.row.download # None => u.row.download = Asked(r)
    BY <1>1 DEF Current, CurrentEfactura, Asked
  <2> QED BY <1>1, <2>1 DEF Resolved
<1>16. polls \in Nat
  BY <1>1 DEF Request
<1> HIDE DEF v, status, label, file, polls
<1>10. /\ t \in Request /\ t.pc = label /\ t.op = u.op /\ t.doc = u.doc /\ t.row = u.row
       /\ t.file = file /\ t.answer = status
  <2> DEFINE s == [u EXCEPT !.polls = polls, !.answer = status]
  <2>1. status \in Verdict \cup {None} /\ file \in Req \cup {None} /\ label \in Running
    BY <1>3, <1>4, <1>7, <1>8
  <2>2. /\ s \in Request /\ s.op = u.op /\ s.doc = u.doc /\ s.row = u.row /\ s.answer = status
    <3>1. u \in Request
      BY <1>1
    <3> HIDE DEF u
    <3>2. \A n \in Nat, a \in Verdict \cup {None} :
             /\ [u EXCEPT !.polls = n, !.answer = a] \in Request
             /\ [u EXCEPT !.polls = n, !.answer = a].op = u.op
             /\ [u EXCEPT !.polls = n, !.answer = a].doc = u.doc
             /\ [u EXCEPT !.polls = n, !.answer = a].row = u.row
             /\ [u EXCEPT !.polls = n, !.answer = a].answer = a
      BY <3>1, Polled, Zenon
    <3> QED BY <1>16, <2>1, <3>2, Zenon
  <2>3. t = [s EXCEPT !.file = file, !.pc = label]
    OBVIOUS
  <2> HIDE DEF s, t
  <2> QED BY <2>1, <2>2, <2>3 DEF Request
<1> HIDE DEF t
<1>11. t.file # None => Known(t.file, t.doc)
  BY <1>8, <1>10
<1>12. t.pc \in {"download", "store"} => t.file # None /\ t.answer = "ACCEPTED"
  BY <1>7, <1>10
<1>13. t.answer \in Verdict /\ upload[Asked(r)].verdict = t.answer
  BY <1>3, <1>4, <1>10 DEF v
<1>14. Current(r) => (t.file # None => t.file = Asked(r))
  BY <1>9, <1>10
<1>15. t.pc \in {"poll", "download", "store", "update"}
  BY <1>7, <1>10
<1> QED BY <1>1, <1>6, <1>10, <1>11, <1>12, <1>13, <1>14, <1>15, SameColumns

(* Only the file of an accepted upload is fetched. *)
LEMMA DownloadSound ==
    ASSUME FilingInv, NEW r \in Req, Download(r)
    PROVE  Sound(r)
<1> DEFINE u == tx[r]
           t == [u EXCEPT !.pc = "store"]
<1>1. /\ u \in Request /\ FilingFormed(r) /\ EfacturaFormed(r) /\ Step(r, t)
      /\ u.pc = "download" /\ u.op \in Efactura
  BY DEF FilingInv, TypeOK, Download, FilingFormed
<1>2. /\ t \in Request /\ t.pc = "store" /\ t.op = u.op /\ t.doc = u.doc /\ t.row = u.row
      /\ t.file = u.file /\ t.answer = u.answer
  BY <1>1 DEF Request
<1> HIDE DEF t
<1>3. /\ t.file # None /\ Known(t.file, t.doc)
      /\ t.answer = "ACCEPTED" /\ upload[Asked(r)].verdict = t.answer
  BY <1>1, <1>2 DEF EfacturaFormed
<1>4. Current(r) => (t.file # None => t.file = Asked(r))
  BY <1>1, <1>2 DEF Current, CurrentEfactura
<1> QED BY <1>1, <1>2, <1>3, <1>4, SameColumns

(* Storing the file makes it the one the columns name. *)
LEMMA StoreSound ==
    ASSUME FilingInv, NEW r \in Req, Store(r)
    PROVE  Sound(r)
<1> DEFINE u == tx[r]
<1>1. /\ u \in Request /\ FilingFormed(r) /\ EfacturaFormed(r)
      /\ u.pc = "store" /\ u.op \in Efactura
  BY DEF FilingInv, TypeOK, Store, FilingFormed
<1>2. /\ u.row \in Columns /\ OwnColumns(u.row, u.doc) /\ u.file # None /\ Known(u.file, u.doc)
      /\ Asked(r) \in Req /\ Known(Asked(r), u.doc) /\ upload[Asked(r)].verdict = "ACCEPTED"
  BY <1>1 DEF EfacturaFormed
<1>3. u.answer = "ACCEPTED"
  BY <1>1 DEF EfacturaFormed
<1>4. CASE Step(r, [u EXCEPT !.pc = "update"])
  <2> DEFINE t == [u EXCEPT !.pc = "update"]
  <2>1. /\ t \in Request /\ t.pc = "update" /\ t.op = u.op /\ t.doc = u.doc /\ t.row = u.row
        /\ t.file = u.file /\ t.answer = u.answer /\ Step(r, t)
    BY <1>1, <1>4 DEF Request
  <2> HIDE DEF t
  <2>2. Current(r) => (t.file # None => t.file = Asked(r))
    BY <1>1, <2>1 DEF Current, CurrentEfactura
  <2> QED BY <1>1, <1>2, <1>3, <2>1, <2>2, SameColumns
<1>5. CASE Step(r, [u EXCEPT !.pc = "update", !.row.signed = u.file])
  <2> DEFINE row == [u.row EXCEPT !.signed = u.file]
             t == [u EXCEPT !.pc = "update", !.row = row]
  <2>1. Step(r, t)
    BY <1>1, <1>5
  <2>2. /\ row \in Columns /\ row.signed = u.file /\ row.index = u.row.index
        /\ row.download = u.row.download
    BY <1>1, <1>2 DEF Columns, Request
  <2> HIDE DEF row
  <2>3. /\ t \in Request /\ t.pc = "update" /\ t.op = u.op /\ t.doc = u.doc /\ t.row = row
        /\ t.file = u.file /\ t.answer = u.answer
    BY ZenonT(60), <1>1, <2>2 DEF Request
  <2> HIDE DEF t
  <2>4. /\ tx'[r] = t /\ Asked(r)' = Asked(r) /\ upload' = upload
        /\ FilingFormed(r)' /\ CurrentFiling(r)'
    BY <1>1, <2>1, <2>2, <2>3, StepLocal, SameInvoice DEF Asked, Calls
  <2>5. OwnColumns(row, u.doc)
    <3>1. Accepted(u.doc)
      BY <1>2 DEF Known, Accepted
    <3> QED BY <1>2, <2>2, <3>1 DEF OwnColumns
  <2>6. EfacturaFormed(r)'
    BY <1>1, <1>2, <1>3, <2>1, <2>2, <2>3, <2>4, <2>5, StepLocal DEF EfacturaFormed
  <2>7. Current(r) => CurrentEfactura(r)'
    BY <1>1, <1>2, <2>1, <2>2, <2>3, <2>4, StepLocal DEF Current, CurrentEfactura
  <2> QED BY <2>1, <2>3, <2>4, <2>6, <2>7, StepLocal DEF Current
<1> QED BY <1>4, <1>5 DEF Store

(* The columns are written with what the handler learnt. *)
LEMMA WriteInvoiceSound ==
    ASSUME FilingInv, NEW r \in Req, WriteInvoice(r)
    PROVE  Sound(r)
<1> DEFINE u == tx[r]
           row == [status |-> u.answer, index |-> Asked(r), download |-> u.file,
                   signed |-> u.row.signed]
           t == [u EXCEPT !.pc = "answer", !.row = row]
<1>1. /\ u \in Request /\ FilingFormed(r) /\ EfacturaFormed(r) /\ Step(r, t)
      /\ u.pc = "update" /\ u.op \in Efactura
  BY DEF FilingInv, TypeOK, WriteInvoice, FilingFormed, RecordedIndex
<1>2. /\ u.row \in Columns /\ OwnColumns(u.row, u.doc)
      /\ u.file # None => Known(u.file, u.doc)
      /\ Asked(r) \in Req /\ Known(Asked(r), u.doc)
      /\ u.answer \in Verdict /\ (u.answer # "PENDING" => upload[Asked(r)].verdict = u.answer)
  BY <1>1 DEF EfacturaFormed
<1>3. /\ row \in Columns /\ row.status = u.answer /\ row.index = Asked(r)
      /\ row.download = u.file /\ row.signed = u.row.signed
  BY <1>1, <1>2 DEF Columns, Request
<1> HIDE DEF row
<1>4. /\ t \in Request /\ t.pc = "answer" /\ t.op = u.op /\ t.doc = u.doc /\ t.row = row
      /\ t.file = u.file
  BY ZenonT(60), <1>1, <1>3 DEF Request
<1> HIDE DEF t
<1>5. /\ tx'[r] = t /\ Asked(r)' = Asked(r) /\ upload' = upload /\ efactura' = efactura
      /\ FilingFormed(r)' /\ CurrentFiling(r)'
  BY <1>1, <1>3, <1>4, StepLocal, SameInvoice DEF Asked, Calls
<1>6. OwnColumns(row, u.doc)
  BY <1>2, <1>3 DEF OwnColumns
<1>7. EfacturaFormed(r)'
  BY <1>1, <1>2, <1>3, <1>4, <1>5, <1>6, StepLocal DEF EfacturaFormed
<1>8. ASSUME Current(r) PROVE CurrentEfactura(r)'
  <2>1. /\ u.file # None => u.file = Asked(r)
        /\ u.row.signed # None => upload[u.row.signed].verdict = "ACCEPTED"
        /\ u.op = "POLL" => u.row.index = efactura[u.doc].index
    BY <1>1, <1>8 DEF Current, CurrentEfactura
  <2>2. Asked(r) # None /\ (u.op = "POLL" => Asked(r) = u.row.index)
    BY <1>1, <1>2, FilingsConstants DEF Asked
  <2>3. Agree(row)
    BY <1>2, <1>3, <2>1, <2>2 DEF Agree
  <2> QED BY <1>1, <1>3, <1>4, <1>5, <2>1, <2>2, <2>3, StepLocal DEF CurrentEfactura
<1> QED BY <1>1, <1>4, <1>5, <1>7, <1>8, StepLocal DEF Current

-----------------------------------------------------------------------------
(* Every step is a sound one or a commit. *)

Commits(r) == /\ tx[r].pc = "answer" /\ tx[r].open /\ Persist(r)
              /\ \E label \in Finished : End(r, label)

(* A request that has written nothing leaves nothing. *)
LEMMA PersistNothing ==
    ASSUME NEW r \in Req, Persist(r), ~(tx[r].pc = "answer" /\ tx[r].open)
    PROVE  Quiet
BY DEF Persist, Quiet, Tables

(* A handler that waits for ANAF may lose its transaction. *)
LEMMA ClosedSound ==
    ASSUME FilingInv, NEW r \in Req, Calling(r), Step(r, [tx[r] EXCEPT !.open = FALSE])
    PROVE  Sound(r)
<1> DEFINE u == tx[r]
           t == [u EXCEPT !.open = FALSE]
<1>1. u \in Request /\ FilingFormed(r) /\ EfacturaFormed(r) /\ Step(r, t)
  BY DEF FilingInv, TypeOK
<1>2. /\ t \in Request /\ t.pc = u.pc /\ t.op = u.op /\ t.doc = u.doc /\ t.row = u.row
      /\ t.file = u.file /\ t.answer = u.answer
  <2>1. t \in Request
    BY ZenonT(60), <1>1 DEF Request
  <2>2. t.pc = u.pc /\ t.op = u.op /\ t.doc = u.doc /\ t.row = u.row
    BY <1>1 DEF Request
  <2>3. t.file = u.file /\ t.answer = u.answer
    BY <1>1 DEF Request
  <2> QED BY <2>1, <2>2, <2>3
<1> HIDE DEF t
<1>3. u.op \in Efactura /\ u.pc \in Calls /\ u.pc \in Running
  BY <1>1 DEF Calling, FilingFormed, Calls
<1>4. FilingFormed(r)' /\ CurrentFiling(r)'
  BY <1>1, <1>2, <1>3, SameInvoice
<1>5. tx'[r] = t /\ Asked(r)' = Asked(r) /\ upload' = upload /\ efactura' = efactura
  BY <1>1, <1>2, StepLocal DEF Asked
<1>6. EfacturaFormed(r)'
  BY <1>1, <1>2, <1>3, <1>5, StepLocal DEF EfacturaFormed
<1>7. Current(r) => CurrentEfactura(r)'
  BY <1>1, <1>2, <1>3, <1>5, StepLocal DEF Current, CurrentEfactura
<1> QED BY <1>1, <1>2, <1>4, <1>6, <1>7, StepLocal DEF Current

(* A verdict of ANAF changes nothing a request relies on. *)
LEMMA DecideSound ==
    ASSUME FilingInv, NEW u \in Req, Decide(u)
    PROVE  Sound(u)
<1>1. /\ tx \in [Req -> Request] /\ tx' = tx /\ upload \in [Req -> UploadRow \cup {None}]
      /\ UNCHANGED Tables /\ upload[u] # None /\ upload[u].verdict = "PENDING"
  BY DEF FilingInv, TypeOK, Decide, Uploads
<1>2. PICK v \in {"ACCEPTED", "REJECTED"} : upload' = [upload EXCEPT ![u].verdict = v]
  BY DEF Decide
<1> DEFINE new == [upload[u] EXCEPT !.verdict = v]
<1>3. upload' = [upload EXCEPT ![u] = new]
  BY <1>2
<1>4. new \in UploadRow /\ new.invoice = upload[u].invoice
  BY <1>1 DEF UploadRow
<1>5. new # None
  BY <1>4, FilingsConstants
<1> HIDE DEF new
<1>6. /\ upload' \in [Req -> UploadRow \cup {None}] /\ upload'[u] = new
      /\ \A q \in Req \ {u} : upload'[q] = upload[q]
  BY <1>1, <1>3, <1>4
<1>7. UploadsStay
  BY <1>1, <1>4, <1>5, <1>6 DEF UploadsStay, Uploads
<1>8. FilingFormed(u)' /\ EfacturaFormed(u)' /\ (Current(u) => Current(u)')
  BY <1>1, <1>7, OthersStay
<1> QED BY <1>1, <1>6, <1>7, <1>8 DEF Sound

(* Every step is a sound step, a commit or a stutter. *)
LEMMA StepKinds ==
    ASSUME FilingInv, [Next]_vars
    PROVE  (\E r \in Req : Sound(r) \/ Commits(r)) \/ UNCHANGED vars
<1>1. ASSUME NEW r \in Req, Advance(r) PROVE Sound(r) \/ Commits(r)
  <2>1. CASE Commit(r)
    <3>1. CASE tx[r].open
      BY <2>1, <3>1 DEF Commit, Commits
    <3>2. CASE ~tx[r].open
      BY <2>1, <3>2, PersistNothing, EndSound DEF Commit
    <3> QED BY <3>1, <3>2
  <2> QED BY <1>1, <2>1, FilingSound, ReadInvoiceSound, UploadSound, RejectSound, PollSound,
             DownloadSound, StoreSound, WriteInvoiceSound DEF Advance, CallFails
<1>2. ASSUME NEW r \in Req, Disconnect(r) PROVE Sound(r) \/ Commits(r)
  <2>1. CASE Calling(r)
    <3>1. Quiet /\ tx' = [tx EXCEPT ![r].open = FALSE]
      BY <1>2, <2>1, PersistNothing DEF Disconnect, Calling
    <3> QED BY <2>1, <3>1, ClosedSound DEF Step
  <2>2. CASE ~Calling(r) /\ tx[r].pc = "answer"
    BY <1>2, <2>2 DEF Disconnect, Commits
  <2>3. CASE ~Calling(r) /\ tx[r].pc # "answer"
    BY <1>2, <2>3, PersistNothing, EndSound DEF Disconnect
  <2> QED BY <2>1, <2>2, <2>3
<1>3. ASSUME NEW r \in Req, Timeout(r) PROVE Sound(r)
  BY <1>3, ClosedSound, EndSound DEF Timeout
<1>4. ASSUME NEW r \in Req, Fails(r) PROVE Sound(r)
  BY <1>4, EndSound DEF Fails
<1> QED BY <1>1, <1>2, <1>3, <1>4, ArriveSound, DecideSound DEF Next, Fail, Quiescent

-----------------------------------------------------------------------------
(* The invariant of any interleaving. *)

(* At most one request more is in flight after a step. *)
LEMMA InFlightFinite ==
    ASSUME FilingInv, NEW r \in Req, \A q \in Req \ {r} : tx'[q] = tx[q]
    PROVE  IsFiniteSet(InFlight')
<1>1. InFlight' \in SUBSET (InFlight \union {r})
  BY DEF InFlight
<1>2. IsFiniteSet(InFlight \union {r})
  BY FS_AddElement DEF FilingInv
<1> QED BY <1>1, <1>2, FS_Subset

(* A sound step keeps the invariant and what other requests count on. *)
LEMMA QuietFiling ==
    ASSUME FilingInv, NEW r \in Req, Sound(r)
    PROVE  /\ FilingInv'
           /\ \A q \in Req \ {r} : Current(q) => Current(q)'
           /\ TablesAgree => TablesAgree'
<1>1. /\ tx \in [Req -> Request] /\ TypeOK
      /\ tx' = [tx EXCEPT ![r] = tx'[r]] /\ tx'[r] \in Request
      /\ UNCHANGED Tables /\ UploadsStay /\ upload' \in [Req -> UploadRow \cup {None}]
  BY DEF FilingInv, TypeOK, Sound
<1>2. \A q \in Req \ {r} : tx'[q] = tx[q]
  BY <1>1
<1>3. TypeOK'
  <2>1. tx' \in [Req -> Request]
    BY <1>1
  <2> QED BY <1>1, <2>1 DEF TypeOK, Tables
<1>4. ASSUME NEW q \in Req \ {r}
      PROVE  FilingFormed(q)' /\ EfacturaFormed(q)' /\ (Current(q) => Current(q)')
  <2>1. upload[q] = None => upload'[q] = None
    BY DEF Sound
  <2> QED BY <1>1, <1>2, <2>1, OthersStay
<1>5. FilingFormed(r)' /\ EfacturaFormed(r)'
  BY DEF Sound
<1>6. \A q \in Req : FilingFormed(q)' /\ EfacturaFormed(q)'
  BY <1>4, <1>5
<1>7. (\A i \in Invoice : OwnColumns(efactura[i], i)') /\ (TablesAgree => TablesAgree')
  BY <1>1, TablesStay
<1>8. IsFiniteSet(InFlight')
  BY <1>2, InFlightFinite
<1> QED BY <1>3, <1>4, <1>6, <1>7, <1>8 DEF FilingInv

(* What a commit does to the tables. *)
LEMMA PersistEffect ==
    ASSUME FilingInv, NEW r \in Req, Commits(r)
    PROVE  /\ shipment' \in [Req -> ShipmentRow \cup {None}]
           /\ delivery' \in [Req -> DeliveryRow \cup {None}]
           /\ efactura' \in [Invoice -> Columns]
           /\ upload' = upload
           /\ \A q \in Req \ {r} : /\ shipment[q] = None => shipment'[q] = None
                                   /\ delivery[q] = None => delivery'[q] = None
           /\ Shipments \subseteq Shipments' /\ Deliveries \subseteq Deliveries'
           /\ \A i \in Invoice : OwnColumns(efactura[i], i)'
           /\ TablesAgree /\ Current(r) => FilingsFinal /\ TablesAgree'
<1> DEFINE t == tx[r]
           row == IF t.op = "POLL" THEN [t.row EXCEPT !.index = efactura[t.doc].index] ELSE t.row
<1>1. /\ t \in Request /\ FilingFormed(r) /\ EfacturaFormed(r) /\ t.pc = "answer"
      /\ shipment \in [Req -> ShipmentRow \cup {None}]
      /\ delivery \in [Req -> DeliveryRow \cup {None}]
      /\ efactura \in [Invoice -> Columns]
      /\ \A i \in Invoice : OwnColumns(efactura[i], i)
  BY DEF FilingInv, TypeOK, Commits
<1>2. None \notin ShipmentRow /\ None \notin DeliveryRow
  BY FilingsConstants
<1>3. /\ upload' = upload
      /\ \A u, i : Known(u, i)' <=> Known(u, i)
      /\ \A c, i : OwnColumns(c, i)' <=> OwnColumns(c, i)
      /\ \A c : Agree(c)' <=> Agree(c)
  BY DEF Commits, Persist, Known, OwnColumns, Accepted, Agree, Uploads
<1>4. /\ shipment[r] = None /\ delivery[r] = None /\ r \notin Shipments /\ r \notin Deliveries
  BY <1>1 DEF FilingFormed, Shipments, Deliveries
<1>5. /\ \A s \in Shipments : s \in Req /\ shipment[s] \in ShipmentRow
      /\ \A d \in Deliveries : d \in Req /\ delivery[d] \in DeliveryRow
  BY <1>1 DEF Shipments, Deliveries
<1>6. ASSUME shipment' = shipment, delivery' = delivery, TablesAgree
      PROVE  FilingsFinal
  BY <1>6 DEF TablesAgree, FilingsFinal, CanTransition
<1>7. CASE t.op = "SHIP"
  <2>1. shipment' = [shipment EXCEPT ![r] = t.row] /\ delivery' = delivery /\ efactura' = efactura
    BY <1>7 DEF Commits, Persist
  <2>2. t.row \in ShipmentRow
    BY <1>1, <1>7 DEF FilingFormed
  <2>3. shipment'[r] = t.row /\ \A q \in Req \ {r} : shipment'[q] = shipment[q]
    BY <1>1, <2>1
  <2>4. Shipments' = Shipments \cup {r} /\ Deliveries' = Deliveries
    BY <1>2, <2>1, <2>2, <2>3 DEF Shipments, Deliveries
  <2>5. ASSUME TablesAgree, Current(r) PROVE FilingsFinal /\ TablesAgree'
    <3>1. t.row.status = "GENERATED"
      BY <1>1, <1>7, <2>5 DEF Current, CurrentFiling
    <3>2. \A s \in Shipments : shipment'[s] = shipment[s]
      BY <1>4, <1>5, <2>3
    <3>3. FilingsFinal
      BY <2>1, <2>5, <3>2 DEF TablesAgree, FilingsFinal, CanTransition
    <3>4. \A s \in Shipments' :
             shipment'[s].status \in {"IN_TRANSIT", "DELIVERED"} => shipment'[s].departed
      BY <2>3, <2>4, <2>5, <3>1, <3>2 DEF TablesAgree
    <3> QED BY <1>3, <2>1, <2>5, <3>3, <3>4 DEF TablesAgree
  <2> QED BY <1>1, <1>3, <2>1, <2>2, <2>3, <2>4, <2>5
<1>8. CASE t.op = "MOVE"
  <2>1. /\ shipment' = [shipment EXCEPT ![t.doc] = t.row]
        /\ delivery' = delivery /\ efactura' = efactura
    BY <1>8 DEF Commits, Persist
  <2>2. t.row \in ShipmentRow /\ t.doc \in Shipments /\ t.doc \in Req
    BY <1>1, <1>5, <1>8 DEF FilingFormed
  <2>3. shipment'[t.doc] = t.row /\ \A q \in Req \ {t.doc} : shipment'[q] = shipment[q]
    BY <1>1, <2>1, <2>2
  <2>4. Shipments' = Shipments /\ Deliveries' = Deliveries
    BY <1>2, <2>1, <2>2, <2>3 DEF Shipments, Deliveries
  <2>5. ASSUME TablesAgree, Current(r) PROVE FilingsFinal /\ TablesAgree'
    <3>1. /\ CanTransition(shipment[t.doc].status, t.row.status)
          /\ t.row.uit = shipment[t.doc].uit
          /\ t.row.status \in {"IN_TRANSIT", "DELIVERED"} => t.row.departed
      BY <1>1, <1>8, <2>5 DEF Current, CurrentFiling
    <3>2. shipment[t.doc].status \in {"DELIVERED", "CANCELLED"} =>
             t.row.status = shipment[t.doc].status
      BY <3>1 DEF CanTransition, AllowedTransitions
    <3>3. \A s \in Shipments \ {t.doc} : shipment'[s] = shipment[s]
      BY <1>5, <2>3
    <3>4. FilingsFinal
      <4>1. ASSUME NEW s \in Shipments
            PROVE  /\ CanTransition(shipment[s].status, shipment'[s].status)
                   /\ shipment'[s].uit = shipment[s].uit
                   /\ shipment'[s].status = "DELIVERED" => shipment'[s].departed
                   /\ shipment[s].status \in {"DELIVERED", "CANCELLED"} =>
                        shipment'[s].status = shipment[s].status
        <5>1. CASE s = t.doc
          BY <2>3, <3>1, <3>2, <5>1
        <5>2. CASE s # t.doc
          BY <2>5, <3>3, <5>2 DEF TablesAgree, CanTransition
        <5> QED BY <5>1, <5>2
      <4> QED BY <2>1, <4>1 DEF FilingsFinal
    <3>5. \A s \in Shipments' :
             shipment'[s].status \in {"IN_TRANSIT", "DELIVERED"} => shipment'[s].departed
      BY <2>3, <2>4, <2>5, <3>1, <3>3 DEF TablesAgree
    <3> QED BY <1>3, <2>1, <2>5, <3>4, <3>5 DEF TablesAgree
  <2> QED BY <1>1, <1>3, <1>4, <2>1, <2>2, <2>3, <2>4, <2>5 DEF Shipments
<1>9. CASE t.op = "EXPORT"
  <2>1. delivery' = [delivery EXCEPT ![r] = t.row] /\ shipment' = shipment /\ efactura' = efactura
    BY <1>9 DEF Commits, Persist
  <2>2. t.row \in DeliveryRow
    BY <1>1, <1>9 DEF FilingFormed
  <2>3. delivery'[r] = t.row /\ \A q \in Req \ {r} : delivery'[q] = delivery[q]
    BY <1>1, <2>1
  <2>4. Deliveries' = Deliveries \cup {r} /\ Shipments' = Shipments
    BY <1>2, <2>1, <2>2, <2>3 DEF Shipments, Deliveries
  <2>5. ASSUME TablesAgree PROVE FilingsFinal /\ TablesAgree'
    <3>1. \A d \in Deliveries : delivery'[d] = delivery[d]
      BY <1>4, <1>5, <2>3
    <3> QED BY <1>3, <2>1, <2>4, <2>5, <3>1 DEF TablesAgree, FilingsFinal, CanTransition
  <2> QED BY <1>1, <1>3, <2>1, <2>2, <2>3, <2>4, <2>5
<1>10. CASE t.op = "DELIVER"
  <2>1. /\ delivery' = [delivery EXCEPT ![t.doc] = t.row]
        /\ shipment' = shipment /\ efactura' = efactura
    BY <1>10 DEF Commits, Persist
  <2>2. t.row \in DeliveryRow /\ t.doc \in Deliveries /\ t.doc \in Req
    BY <1>1, <1>5, <1>10 DEF FilingFormed
  <2>3. delivery'[t.doc] = t.row /\ \A q \in Req \ {t.doc} : delivery'[q] = delivery[q]
    BY <1>1, <2>1, <2>2
  <2>4. Shipments' = Shipments /\ Deliveries' = Deliveries
    BY <1>2, <2>1, <2>2, <2>3 DEF Shipments, Deliveries
  <2>5. ASSUME TablesAgree, Current(r) PROVE FilingsFinal /\ TablesAgree'
    <3>1. delivery[t.doc].status # "DELIVERED" /\ t.row.rows = delivery[t.doc].rows
      BY <1>1, <1>10, <2>5 DEF Current, CurrentFiling
    <3>2. \A d \in Deliveries \ {t.doc} : delivery'[d] = delivery[d]
      BY <1>5, <2>3
    <3>3. FilingsFinal
      BY <2>1, <2>3, <2>5, <3>1, <3>2 DEF TablesAgree, FilingsFinal, CanTransition
    <3> QED BY <1>3, <2>1, <2>4, <2>5, <3>3 DEF TablesAgree
  <2> QED BY <1>1, <1>3, <1>4, <2>1, <2>2, <2>3, <2>4, <2>5 DEF Deliveries
<1>11. CASE t.op \in Efactura
  <2>1. /\ efactura' = [efactura EXCEPT ![t.doc] = row]
        /\ shipment' = shipment /\ delivery' = delivery
    BY <1>11 DEF Commits, Persist
  <2>2. t.row \in Columns /\ OwnColumns(t.row, t.doc) /\ t.doc \in Invoice
    BY <1>1, <1>11 DEF EfacturaFormed, FilingFormed
  <2>3. efactura[t.doc] \in Columns /\ OwnColumns(efactura[t.doc], t.doc)
    BY <1>1, <2>2
  <2>4. row \in Columns /\ OwnColumns(row, t.doc)
    <3>1. CASE t.op = "POLL"
      <4>1. /\ row \in Columns /\ row.index = efactura[t.doc].index
            /\ row.download = t.row.download /\ row.signed = t.row.signed
        BY <2>2, <2>3, <3>1 DEF Columns
      <4> QED BY <2>2, <2>3, <4>1 DEF OwnColumns
    <3>2. CASE t.op # "POLL"
      BY <2>2, <3>2
    <3> QED BY <3>1, <3>2
  <2>5. ASSUME Current(r) PROVE Agree(row)
    <3>1. Agree(t.row) /\ (t.op = "POLL" => t.row.index = efactura[t.doc].index)
      BY <1>1, <1>11, <2>5 DEF Current, CurrentEfactura
    <3>2. row = t.row
      BY <2>2, <3>1 DEF Columns
    <3> QED BY <3>1, <3>2
  <2> HIDE DEF row
  <2>6. efactura'[t.doc] = row /\ \A i \in Invoice \ {t.doc} : efactura'[i] = efactura[i]
    BY <1>1, <2>1, <2>2
  <2>7. efactura' \in [Invoice -> Columns]
    BY <1>1, <2>1, <2>4
  <2>8. \A i \in Invoice : OwnColumns(efactura[i], i)'
    <3>1. ASSUME NEW i \in Invoice PROVE OwnColumns(efactura'[i], i)
      BY <1>1, <2>4, <2>6
    <3> QED BY <1>3, <3>1
  <2>9. Shipments' = Shipments /\ Deliveries' = Deliveries
    BY <2>1 DEF Shipments, Deliveries
  <2>10. ASSUME TablesAgree, Current(r) PROVE FilingsFinal /\ TablesAgree'
    <3>1. ASSUME NEW i \in Invoice PROVE Agree(efactura'[i])
      BY <2>5, <2>6, <2>10 DEF TablesAgree
    <3>2. \A i \in Invoice : Agree(efactura[i])'
      BY <1>3, <3>1
    <3> QED BY <1>6, <2>1, <2>9, <2>10, <3>2 DEF TablesAgree
  <2> QED BY <1>1, <1>3, <2>1, <2>7, <2>8, <2>9, <2>10
<1> QED BY <1>1, <1>7, <1>8, <1>9, <1>10, <1>11 DEF Request

(* A commit keeps the invariant. *)
LEMMA CommitFiling ==
    ASSUME FilingInv, NEW r \in Req, Commits(r)
    PROVE  FilingInv'
<1>1. PICK label \in Finished : End(r, label)
  BY DEF Commits
<1>2. /\ tx \in [Req -> Request] /\ Blank(label) \in Request
      /\ Blank(label).op = "SHIP" /\ Blank(label).pc = label
  BY BlankType DEF FilingInv, TypeOK
<1>3. tx' \in [Req -> Request] /\ tx'[r] = Blank(label) /\ \A q \in Req \ {r} : tx'[q] = tx[q]
  BY <1>1, <1>2 DEF End
<1>4. TypeOK'
  BY <1>3, PersistEffect DEF FilingInv, TypeOK
<1>5. FilingFormed(r)' /\ EfacturaFormed(r)'
  BY <1>2, <1>3 DEF FilingFormed, EfacturaFormed
<1>6. ASSUME NEW q \in Req \ {r} PROVE FilingFormed(q)' /\ EfacturaFormed(q)'
  <2>1. FilingFormed(q) /\ EfacturaFormed(q) /\ tx'[q] = tx[q] /\ upload' = upload
    BY <1>3, PersistEffect DEF FilingInv
  <2>2. /\ Shipments \subseteq Shipments' /\ Deliveries \subseteq Deliveries'
        /\ shipment[q] = None => shipment'[q] = None
        /\ delivery[q] = None => delivery'[q] = None
    BY PersistEffect
  <2>3. FilingFormed(q)'
    BY <2>1, <2>2 DEF FilingFormed
  <2>4. /\ Asked(q)' = Asked(q)
        /\ \A u, i : Known(u, i)' <=> Known(u, i)
        /\ \A c, i : OwnColumns(c, i)' <=> OwnColumns(c, i)
    BY <2>1 DEF Asked, Known, OwnColumns, Accepted, Uploads
  <2>5. EfacturaFormed(q)'
    BY <2>1, <2>4 DEF EfacturaFormed
  <2> QED BY <2>3, <2>5
<1>7. IsFiniteSet(InFlight')
  BY <1>3, InFlightFinite
<1> QED BY <1>4, <1>5, <1>6, <1>7, PersistEffect DEF FilingInv

(* A stuttering step too. *)
LEMMA StutterFiling ==
    ASSUME FilingInv, UNCHANGED vars
    PROVE  /\ FilingInv' /\ InFlight' = InFlight /\ (TablesAgree => TablesAgree')
           /\ \A r \in Req : Current(r) => Current(r)'
<1>1. UNCHANGED Tables /\ upload' = upload /\ tx' = tx /\ UploadsStay
  BY DEF vars, Tables, UploadsStay, Uploads
<1>2. ASSUME NEW r \in Req
      PROVE  FilingFormed(r)' /\ EfacturaFormed(r)' /\ (Current(r) => Current(r)')
  BY <1>1, OthersStay
<1>3. (\A i \in Invoice : OwnColumns(efactura[i], i)') /\ (TablesAgree => TablesAgree')
  BY <1>1, TablesStay
<1>4. TypeOK' /\ InFlight' = InFlight
  BY <1>1 DEF FilingInv, TypeOK, Tables, InFlight
<1> QED BY <1>2, <1>3, <1>4 DEF FilingInv

(* The invariant is inductive. *)
LEMMA FilingStep == FilingInv /\ [Next]_vars => FilingInv'
<1> SUFFICES ASSUME FilingInv, [Next]_vars PROVE FilingInv'
  OBVIOUS
<1>1. ASSUME NEW r \in Req, Sound(r) PROVE FilingInv'
  BY <1>1, QuietFiling
<1>2. ASSUME NEW r \in Req, Commits(r) PROVE FilingInv'
  BY <1>2, CommitFiling
<1>3. CASE UNCHANGED vars
  BY <1>3, StutterFiling
<1> QED BY <1>1, <1>2, <1>3, StepKinds

(* The invariant holds when nothing has been filed. *)
LEMMA FilingInit == Init => FilingInv /\ TablesAgree /\ InFlight = {} /\ \A r \in Req : Current(r)
<1> SUFFICES ASSUME Init
             PROVE  FilingInv /\ TablesAgree /\ InFlight = {} /\ \A r \in Req : Current(r)
  OBVIOUS
<1>1. /\ Blank("idle") \in Request /\ Blank("idle").op = "SHIP"
      /\ Blank("idle").pc = "idle" /\ Blank("idle").file = None
  BY BlankType
<1>2. NeverSent \in Columns /\ NeverSent.index = None /\ NeverSent.download = None
      /\ NeverSent.signed = None /\ NeverSent.status = None
  BY DEF NeverSent, Columns
<1>3. TypeOK /\ Shipments = {} /\ InFlight = {}
  BY <1>1, <1>2 DEF Init, TypeOK, Shipments, InFlight
<1>4. \A r \in Req : FilingFormed(r) /\ EfacturaFormed(r) /\ Current(r)
  BY <1>1 DEF Init, FilingFormed, EfacturaFormed, Current, CurrentFiling, CurrentEfactura
<1>5. \A i \in Invoice : OwnColumns(efactura[i], i) /\ Agree(efactura[i])
  BY <1>2 DEF Init, OwnColumns, Agree
<1> QED BY <1>3, <1>4, <1>5, FS_EmptySet DEF FilingInv, TablesAgree

(* Every reachable state satisfies the inductive invariant of the filing
   handlers, whatever overlaps and wherever transactions end early. *)
THEOREM FilingInvariance == Spec => []FilingInv
<1>1. Init => FilingInv
  BY FilingInit
<1>2. FilingInv /\ [Next]_vars => FilingInv'
  BY FilingStep
<1> QED BY <1>1, <1>2, PTL DEF Spec

-----------------------------------------------------------------------------
(* Requests that come one at a time. *)

(* A step of the history: overlapping is remembered. *)
Remembers == overlapped' = (overlapped \/ Cardinality(InFlight') > 1)

(* Requests that have not overlapped after a step had not before it. *)
LEMMA SerialAfter ==
    ASSUME SerialFilingInv, Remembers, IsFiniteSet(InFlight'), ~overlapped'
    PROVE  /\ ~overlapped /\ (\A p, q \in InFlight' : p = q)
           /\ (\A p, q \in InFlight : p = q)
           /\ TablesAgree /\ \A r \in Req : Current(r)
<1>1. ~overlapped /\ ~(Cardinality(InFlight') > 1)
  BY DEF Remembers
<1> QED BY <1>1, AtMostOne DEF SerialFilingInv, TablesAgree, Current

(* Filings move along their life as long as requests come one at a time. *)
LEMMA SerialStep ==
    ASSUME SerialFilingInv, [HistoryNext]_<<vars, overlapped>>
    PROVE  SerialFilingInv' /\ (overlapped' \/ FilingsFinal)
<1>1. FilingInv /\ [Next]_vars /\ overlapped \in BOOLEAN
  BY DEF SerialFilingInv, HistoryNext
<1>2. FilingInv' /\ IsFiniteSet(InFlight')
  BY <1>1, FilingStep DEF FilingInv
<1>3. ASSUME UNCHANGED Tables, TablesAgree PROVE FilingsFinal
  BY <1>3 DEF Tables, TablesAgree, FilingsFinal, CanTransition
<1>4. CASE UNCHANGED vars
  <2>1. overlapped' \in BOOLEAN /\ (~overlapped' => ~overlapped) /\ UNCHANGED Tables
    BY <1>1, <1>4 DEF HistoryNext, vars, Tables
  <2>2. /\ InFlight' = InFlight /\ (TablesAgree => TablesAgree')
        /\ \A r \in Req : Current(r) => Current(r)'
    BY <1>1, <1>4, StutterFiling
  <2> QED BY <1>2, <1>3, <2>1, <2>2 DEF SerialFilingInv, TablesAgree, Current
<1>5. CASE HistoryNext /\ ~UNCHANGED vars
  <2>1. Remembers /\ overlapped' \in BOOLEAN
    BY <1>1, <1>5 DEF HistoryNext, Remembers
  <2>2. SUFFICES ASSUME ~overlapped'
                 PROVE  /\ TablesAgree' /\ FilingsFinal /\ \A q \in Req : Current(q)'
    BY <1>2, <2>1, SerialAfter DEF SerialFilingInv, TablesAgree, Current
  <2>3. /\ (\A p, q \in InFlight : p = q) /\ TablesAgree /\ \A r \in Req : Current(r)
    BY <1>2, <2>1, <2>2, SerialAfter
  <2>4. ASSUME NEW r \in Req, Sound(r)
        PROVE  /\ TablesAgree' /\ FilingsFinal /\ \A q \in Req : Current(q)'
    <3>1. TablesAgree' /\ \A q \in Req \ {r} : Current(q)'
      BY <1>1, <2>3, <2>4, QuietFiling
    <3>2. Current(r)' /\ UNCHANGED Tables
      BY <2>3, <2>4 DEF Sound
    <3> QED BY <1>3, <2>3, <3>1, <3>2
  <2>5. ASSUME NEW r \in Req, Commits(r)
        PROVE  /\ TablesAgree' /\ FilingsFinal /\ \A q \in Req : Current(q)'
    <3>1. TablesAgree' /\ FilingsFinal
      BY <1>1, <2>3, <2>5, PersistEffect
    <3>2. ASSUME NEW q \in Req PROVE tx'[q].op = "SHIP" /\ tx'[q].pc # "answer"
      <4>1. PICK label \in Finished : End(r, label)
        BY <2>5 DEF Commits
      <4>2. Blank(label).op = "SHIP" /\ Blank(label).pc = label
        BY BlankType
      <4>3. tx \in [Req -> Request] /\ r \in InFlight
        BY <1>1, <2>5 DEF FilingInv, TypeOK, Commits, InFlight
      <4>4. CASE q = r
        BY <4>1, <4>2, <4>3, <4>4 DEF End
      <4>5. CASE q # r
        <5>1. q \notin InFlight /\ tx'[q] = tx[q] /\ tx[q] \in Request /\ FilingFormed(q)
          BY <1>1, <2>3, <4>1, <4>3, <4>5 DEF End, FilingInv
        <5> QED BY <5>1 DEF InFlight, FilingFormed, Request
      <4> QED BY <4>4, <4>5
    <3>3. \A q \in Req : Current(q)'
      BY <3>2 DEF Current, CurrentFiling, CurrentEfactura
    <3> QED BY <3>1, <3>3
  <2> QED BY <1>1, <1>5, <2>4, <2>5, StepKinds
<1> QED BY <1>4, <1>5

(* Every reachable state satisfies the invariant of filings that come one at
   a time. *)
THEOREM SerialFilingInvariance == HistorySpec => []SerialFilingInv
<1>1. HistoryInit => SerialFilingInv
  BY FilingInit DEF HistoryInit, SerialFilingInv, TablesAgree, Current
<1>2. SerialFilingInv /\ [HistoryNext]_<<vars, overlapped>> => SerialFilingInv'
  BY SerialStep
<1> QED BY <1>1, <1>2, PTL DEF HistorySpec

(* Requests that come one at a time move transports along their life and leave
   a delivered Revisal export alone: what updateShipmentStatus and
   deliverRevisal check when they read still holds when they write. *)
THEOREM FilingsAreFinal == HistorySpec => SerialFilingsFinal
<1>1. SerialFilingInv /\ [HistoryNext]_<<vars, overlapped>>
        => [overlapped' \/ FilingsFinal]_<<vars, overlapped>>
  BY SerialStep
<1> QED BY <1>1, SerialFilingInvariance, PTL DEF HistorySpec, SerialFilingsFinal

(* The status recorded for an invoice is ANAF's verdict on the upload recorded
   with it, as long as sends and polls do not overlap, wherever the
   transaction ends while ANAF is being asked. *)
THEOREM StatusIsOfUpload == HistorySpec => []SerialStatusOfUpload
<1>1. SerialFilingInv => SerialStatusOfUpload
  <2> SUFFICES ASSUME SerialFilingInv, ~overlapped, NEW i \in Invoice, efactura[i].status # None
               PROVE  /\ efactura[i].index \in Uploads
                      /\ upload[efactura[i].index].invoice = i
                      /\ efactura[i].status # "PENDING" =>
                            upload[efactura[i].index].verdict = efactura[i].status
    BY DEF SerialStatusOfUpload, StatusOfUpload
  <2>1. OwnColumns(efactura[i], i) /\ Agree(efactura[i])
    BY DEF SerialFilingInv, FilingInv
  <2> QED BY <2>1 DEF OwnColumns, Agree, Known
<1> QED BY <1>1, SerialFilingInvariance, PTL

(* A signed file kept for an invoice was issued by ANAF for an upload of that
   invoice, and ANAF has accepted the invoice, whatever overlaps; it is the
   file of an accepted upload when requests come one at a time. *)
THEOREM ArchivesAreAccepted == HistorySpec => []ArchivedIsAccepted
<1>1. SerialFilingInv => ArchivedIsAccepted
  <2> SUFFICES ASSUME SerialFilingInv PROVE ArchivedIsAccepted
    OBVIOUS
  <2>1. \A i \in Invoice : OwnColumns(efactura[i], i)
    BY DEF SerialFilingInv, FilingInv
  <2>2. ArchivedIsOwn
    BY <2>1 DEF OwnColumns, ArchivedIsOwn
  <2> QED BY <2>2 DEF SerialFilingInv, Agree, ArchivedIsAccepted
<1> QED BY <1>1, SerialFilingInvariance, PTL
-----------------------------------------------------------------------------
(* The largest and the smallest of some numbers. *)

(* The smallest of some numbers is one of them, and none is smaller. *)
LEMMA MinOf ==
    ASSUME NEW S, IsFiniteSet(S), S # {}, \A x \in S : x \in Int
    PROVE  Min(S) \in S /\ \A x \in S : Min(S) <= x
<1> DEFINE Beyond(x) == {y \in S : y < x}
           B == {Beyond(x) : x \in S}
<1>1. B \subseteq SUBSET S /\ B # {}
  OBVIOUS
<1>2. PICK V \in B : \A W \in B : ~(W \subseteq V /\ W # V)
  <2>1. B \in SUBSET (SUBSET S)
    BY <1>1
  <2> HIDE DEF B, Beyond
  <2> QED BY <1>1, <2>1, Smallest
<1>3. PICK x \in S : V = Beyond(x)
  OBVIOUS
<1>4. ASSUME NEW y \in S, y < x PROVE FALSE
  <2>1. Beyond(y) \in B
    OBVIOUS
  <2>2. \A z \in S : z \in Int
    OBVIOUS
  <2>3. Beyond(y) \subseteq V /\ y \in V /\ y \notin Beyond(y)
    BY <1>3, <1>4, <2>2
  <2> QED BY <1>2, <2>1, <2>3
<1>5. \A y \in S : x =< y
  BY <1>4
<1> QED BY <1>5 DEF Min

-----------------------------------------------------------------------------
(* Rows and what is to be written of them. *)

(* What is written of a row leaves a row, with the cursor written or its own. *)
LEMMA PatchedRow ==
    ASSUME NEW row \in ConnectionRow, NEW p \in Patches
    PROVE  /\ Patched(row, p) \in ConnectionRow
           /\ Patched(row, p).cursor = IF "cursor" \in DOMAIN p THEN p.cursor ELSE row.cursor
<1> DEFINE q == Patched(row, p)
<1>1. CASE p = NoColumns
  <2>1. q = [status |-> row.status, token |-> row.token, refresh |-> row.refresh,
             cursor |-> row.cursor, synced |-> row.synced]
    BY <1>1 DEF NoColumns, Patched, ConnectionRow
  <2> QED BY <1>1, <2>1 DEF ConnectionRow, NoColumns
<1>2. CASE p \in [status : Status]
  <2>1. q = [status |-> p.status, token |-> row.token, refresh |-> row.refresh,
             cursor |-> row.cursor, synced |-> row.synced]
    BY <1>2 DEF Patched, ConnectionRow
  <2> QED BY <1>2, <2>1 DEF ConnectionRow
<1>3. CASE p \in [status : Status, token : BOOLEAN, refresh : BOOLEAN]
  <2>1. q = [status |-> p.status, token |-> p.token, refresh |-> p.refresh,
             cursor |-> row.cursor, synced |-> row.synced]
    BY <1>3 DEF Patched, ConnectionRow
  <2> QED BY <1>3, <2>1 DEF ConnectionRow
<1>4. CASE p \in [status : Status, cursor : Date, synced : Date]
  <2>1. q = [status |-> p.status, token |-> row.token, refresh |-> row.refresh,
             cursor |-> p.cursor, synced |-> p.synced]
    BY <1>4 DEF Patched, ConnectionRow
  <2> QED BY <1>4, <2>1 DEF ConnectionRow
<1>5. CASE p \in ConnectionRow
  <2>1. q = [status |-> p.status, token |-> p.token, refresh |-> p.refresh,
             cursor |-> p.cursor, synced |-> p.synced]
    BY <1>5 DEF Patched, ConnectionRow
  <2> QED BY <1>5, <2>1 DEF ConnectionRow
<1> QED BY <1>1, <1>2, <1>3, <1>4, <1>5 DEF Patches

(* The error of a failed synchronisation joins what there is to write. *)
LEMMA PatchedStatus ==
    ASSUME NEW p \in Patches, NEW n \in [status : Status]
    PROVE  /\ Patched(p, n) \in Patches /\ Patched(p, n) # NoColumns
           /\ "cursor" \in DOMAIN Patched(p, n) => "cursor" \in DOMAIN p /\ Patched(p, n).cursor = p.cursor
<1> DEFINE q == Patched(p, n)
<1>1. CASE p = NoColumns
  <2>1. q = [status |-> n.status]
    BY <1>1 DEF NoColumns, Patched
  <2> QED BY <1>1, <2>1 DEF Patches, NoColumns
<1>2. CASE p \in [status : Status]
  <2>1. q = [status |-> n.status]
    BY <1>2 DEF Patched
  <2> QED BY <1>2, <2>1 DEF Patches, NoColumns
<1>3. CASE p \in [status : Status, token : BOOLEAN, refresh : BOOLEAN]
  <2>1. q = [status |-> n.status, token |-> p.token, refresh |-> p.refresh]
    BY <1>3 DEF Patched
  <2> QED BY <1>3, <2>1 DEF Patches, NoColumns
<1>4. CASE p \in [status : Status, cursor : Date, synced : Date]
  <2>1. q = [status |-> n.status, cursor |-> p.cursor, synced |-> p.synced]
    BY <1>4 DEF Patched
  <2> QED BY <1>4, <2>1 DEF Patches, NoColumns
<1>5. CASE p \in ConnectionRow
  <2>1. q = [status |-> n.status, token |-> p.token, refresh |-> p.refresh,
             cursor |-> p.cursor, synced |-> p.synced]
    BY <1>5 DEF Patched, ConnectionRow
  <2> QED BY <1>5, <2>1 DEF Patches, ConnectionRow, NoColumns
<1> QED BY <1>1, <1>2, <1>3, <1>4, <1>5 DEF Patches

(* The same of the cursor of one that succeeds. *)
LEMMA PatchedCursor ==
    ASSUME NEW p \in Patches, NEW n \in [status : Status, cursor : Date, synced : Date]
    PROVE  /\ Patched(p, n) \in Patches /\ Patched(p, n) # NoColumns
           /\ Patched(p, n).cursor = n.cursor
<1> DEFINE q == Patched(p, n)
<1>1. CASE p = NoColumns \/ p \in [status : Status] \/ p \in [status : Status, cursor : Date, synced : Date]
  <2>1. q = [status |-> n.status, cursor |-> n.cursor, synced |-> n.synced]
    BY <1>1 DEF NoColumns, Patched
  <2> QED BY <1>1, <2>1 DEF Patches, NoColumns
<1>2. CASE p \in [status : Status, token : BOOLEAN, refresh : BOOLEAN] \/ p \in ConnectionRow
  <2>1. q = [status |-> n.status, token |-> p.token, refresh |-> p.refresh,
             cursor |-> n.cursor, synced |-> n.synced]
    BY <1>2 DEF Patched, ConnectionRow
  <2> QED BY <1>2, <2>1 DEF Patches, ConnectionRow, NoColumns
<1> QED BY <1>1, <1>2 DEF Patches

-----------------------------------------------------------------------------
(* What a task knows stays true. *)

(* A task that holds nothing. *)
LEMMA NewTaskType ==
    ASSUME NEW label \in {"idle", "done"} \cup Stage
    PROVE  /\ NewTask(label) \in FeedTask /\ NewTask(label).pc = label
           /\ NewTask(label).put = NoColumns /\ NewTask(label).lines = {}
           /\ NewTask(label).statements = {} /\ NewTask(label).op = "CREATE"
           /\ NewTask(label).batch = {} /\ NewTask(label).fresh = {}
<1>1. 0 \in 0..LastDay /\ FALSE \in Flag
  BY BankFeedConstants DEF Flag
<1>2. NoColumns \in Patches /\ Nil \in Date
  BY DEF Patches, Date
<1> QED BY <1>1, <1>2 DEF NewTask, FeedTask

(* Nothing is written without columns. *)
LEMMA NoColumnsEmpty == DOMAIN NoColumns = {} /\ \A p \in Patches : DOMAIN p = {} => p = NoColumns
<1>1. DOMAIN NoColumns = {}
  BY DEF NoColumns
<1>2. ASSUME NEW p \in Patches, p # NoColumns PROVE "status" \in DOMAIN p
  BY <1>2 DEF Patches, ConnectionRow
<1> QED BY <1>1, <1>2

(* The calendar moves on, the bank books on the present day, lines stay. *)
Grows == /\ day \in Int /\ day' \in Int /\ day <= day' /\ line \subseteq line'
         /\ booked \in [Movement -> 1..day \cup {Nil}]
         /\ booked' \in [Movement -> 1..day' \cup {Nil}]
         /\ \A m \in Movement : booked'[m] = booked[m] \/ (booked[m] = Nil /\ booked'[m] = day)

(* Days before the present one, once covered, stay so. *)
LEMMA CoversStays ==
    ASSUME Grows, NEW L, NEW L2, L \subseteq L2, NEW A, NEW B, B \subseteq A,
           NEW lo \in Int, NEW lo2 \in Int, lo <= lo2, NEW hi \in Int, hi < day,
           Covers(L, A, lo, hi)
    PROVE  Covers(L2, B, lo2, hi)'
<1> SUFFICES ASSUME NEW m \in BookedIn(B, lo2, hi)' PROVE Entered(L2, m)
  BY DEF Covers, Entered, RightAmount
<1>1. /\ m \in Movement /\ booked'[m] # Nil /\ booked'[m] \in lo2..hi
      /\ Payload[m].account \in B /\ Payload[m].value # 0
  BY DEF BookedIn, Booked
<1>2. booked'[m] = booked[m]
  BY <1>1 DEF Grows
<1>3. m \in BookedIn(A, lo, hi)
  BY <1>1, <1>2 DEF BookedIn, Booked
<1> QED BY <1>3 DEF Covers, Entered

(* What the bank has booked stays booked, and of the days gone by it books no
   more. *)
LEMMA BookedStays ==
    ASSUME Grows, NEW A, NEW lo \in Int, NEW hi \in Int
    PROVE  /\ BookedIn(A, lo, hi) \subseteq BookedIn(A, lo, hi)'
           /\ hi < day => BookedIn(A, lo, hi)' = BookedIn(A, lo, hi)
<1>1. \A m \in Movement : booked[m] # Nil => booked'[m] = booked[m]
  BY DEF Grows
<1>2. BookedIn(A, lo, hi) \subseteq BookedIn(A, lo, hi)'
  BY <1>1 DEF BookedIn, Booked
<1>3. ASSUME hi < day, NEW m \in BookedIn(A, lo, hi)' PROVE m \in BookedIn(A, lo, hi)
  <2>1. m \in Movement /\ booked'[m] # Nil /\ booked'[m] \in lo..hi
    BY DEF BookedIn, Booked
  <2>2. booked'[m] = booked[m]
    BY <1>3, <2>1 DEF Grows
  <2> QED BY <2>1, <2>2 DEF BookedIn, Booked
<1> QED BY <1>2, <1>3

(* What a task has seen to stays so, also from a later day on. *)
LEMMA SyncStays ==
    ASSUME Grows, NEW t \in FeedTask, NEW s \in Int, NEW s2 \in Int, s <= s2, SyncSound(t, s)
    PROVE  SyncSound(t, s2)'
<1> DEFINE mine == pickAccounts(t.conn)
<1>1. PICK L : L = line \cup t.lines
  OBVIOUS
<1>2. PICK L2 : L2 = line' \cup t.lines
  OBVIOUS
<1>3. /\ L \subseteq L2 /\ t.from \in Int /\ t.to \in Int /\ day \in Int /\ day' \in Int /\ day <= day'
      /\ t.latest \in Date /\ t.put \in Patches
  BY <1>1, <1>2, BankFeedConstants DEF Grows, FeedTask
<1>6. "cursor" \in DOMAIN t.put /\ t.put.cursor # Nil =>
          t.put.cursor <= day' /\ Covers(L2, mine, s2, t.put.cursor - 1)'
  <2> SUFFICES ASSUME "cursor" \in DOMAIN t.put, t.put.cursor # Nil
               PROVE  t.put.cursor <= day' /\ Covers(L2, mine, s2, t.put.cursor - 1)'
    OBVIOUS
  <2>1. t.put.cursor <= day /\ Covers(L, mine, s, t.put.cursor - 1)
    BY <1>1 DEF SyncSound
  <2>2. t.put.cursor \in Int
    BY <1>3, BankFeedConstants DEF Patches, NoColumns, ConnectionRow, Date
  <2>3. t.put.cursor - 1 \in Int /\ t.put.cursor - 1 < day
    BY <1>3, <2>1, <2>2
  <2> QED BY <1>3, <2>1, <2>2, <2>3, CoversStays
<1>4. CASE t.pc \in {"token", "fetch", "existing", "lines", "finish"}
  <2>1. t.from <= t.to /\ t.to \in 1..day /\ Covers(L, mine, s, t.from - 1)
    BY <1>1, <1>4 DEF SyncSound
  <2>2. t.from - 1 \in Int /\ t.from - 1 < day /\ t.to - 1 \in Int /\ t.to - 1 < day /\ t.to \in 1..day'
    BY <1>3, <2>1
  <2>3. Covers(L2, mine, s2, t.from - 1)'
    BY <1>3, <2>1, <2>2, CoversStays
  <2>4. ASSUME t.pc # "token"
        PROVE  Covers(L2, mine \ t.todo, t.from, t.to - 1)' /\ (t.latest # Nil => t.latest <= t.to)
    <3>1. Covers(L, mine \ t.todo, t.from, t.to - 1) /\ (t.latest # Nil => t.latest <= t.to)
      BY <1>1, <1>4, <2>4 DEF SyncSound
    <3> QED BY <1>3, <2>2, <3>1, CoversStays
  <2>5. ASSUME t.pc = "existing"
        PROVE  /\ BookedIn({t.account}, t.from, t.to - 1)' \subseteq t.batch
               /\ t.batch \subseteq BookedIn({t.account}, t.from, t.to)'
    <3>1. /\ BookedIn({t.account}, t.from, t.to - 1) \subseteq t.batch
          /\ t.batch \subseteq BookedIn({t.account}, t.from, t.to)
      BY <2>5 DEF SyncSound
    <3>2. /\ BookedIn({t.account}, t.from, t.to) \subseteq BookedIn({t.account}, t.from, t.to)'
          /\ BookedIn({t.account}, t.from, t.to - 1)' = BookedIn({t.account}, t.from, t.to - 1)
      BY <1>3, <2>2, BookedStays
    <3> QED BY <3>1, <3>2
  <2>6. ASSUME t.pc = "lines"
        PROVE  /\ \A m \in BookedIn({t.account}, t.from, t.to - 1)' \ t.fresh : Entered(L2, m)
               /\ t.fresh \subseteq BookedIn({t.account}, t.from, t.to)'
    <3>1. /\ \A m \in BookedIn({t.account}, t.from, t.to - 1) \ t.fresh : Entered(L, m)
          /\ t.fresh \subseteq BookedIn({t.account}, t.from, t.to)
      BY <1>1, <2>6 DEF SyncSound
    <3>2. /\ BookedIn({t.account}, t.from, t.to) \subseteq BookedIn({t.account}, t.from, t.to)'
          /\ BookedIn({t.account}, t.from, t.to - 1)' = BookedIn({t.account}, t.from, t.to - 1)
      BY <1>3, <2>2, BookedStays
    <3>3. \A m : Entered(L, m) => Entered(L2, m)
      BY <1>3 DEF Entered
    <3> QED BY <3>1, <3>2, <3>3
  <2>7. t.pc = "finish" => t.todo = {}
    BY DEF SyncSound
  <2> QED BY <1>2, <1>4, <2>1, <2>2, <2>3, <2>4, <2>5, <2>6, <2>7, <1>6 DEF SyncSound
<1>5. CASE t.pc \notin {"token", "fetch", "existing", "lines", "finish"}
  BY <1>2, <1>5, <1>6 DEF SyncSound
<1> QED BY <1>4, <1>5

(* A cursor that stays is as good on a later day. *)
LEMMA CursorStays ==
    ASSUME Grows, NEW c, conn[c].cursor \in Date, conn'[c].cursor = conn[c].cursor,
           NEW s \in Int, NEW s2 \in Int, s <= s2, CursorSound(c, s)
    PROVE  CursorSound(c, s2)'
<1> SUFFICES ASSUME conn[c].cursor # Nil
             PROVE  /\ conn'[c].cursor <= day'
                    /\ Covers(line, pickAccounts(c), s2, conn[c].cursor - 1)'
  BY DEF CursorSound
<1>1. PICK k : k = conn[c].cursor
  OBVIOUS
<1>2. PICK L : L = line
  OBVIOUS
<1>3. PICK L2 : L2 = line'
  OBVIOUS
<1>4. /\ k \in Int /\ k - 1 \in Int /\ k - 1 < day /\ k <= day' /\ L \subseteq L2
      /\ Covers(L, pickAccounts(c), s, k - 1)
  BY <1>1, <1>2, <1>3, BankFeedConstants DEF Grows, CursorSound, Date
<1>5. Covers(L2, pickAccounts(c), s2, k - 1)'
  BY <1>4, CoversStays
<1> QED BY <1>1, <1>3, <1>4, <1>5

(* What is sound about the tables and about the task that moves makes the whole
   state sound. *)
LEMMA FeedKeeps ==
    ASSUME FeedInv, Grows, NEW r \in Task, NEW u \in FeedTask, task' = [task EXCEPT ![r] = u],
           NEW s2 \in Int, since' = s2, since <= s2,
           conn' \in [Connection -> ConnectionRow \cup {Nil}], Connections \subseteq Connections',
           statement' \in SUBSET StatementRow, line' \in SUBSET LineRow,
           \A l \in line' : RightAmount(l),
           day' \in 1..LastDay, due' \in SUBSET (Connections' \X Date),
           r \in Ongoing \/ u.pc \in Stage, TaskFormed(u)',
           crossed' = (crossed \/ Cardinality(Ongoing') > 1), chosen' \in BOOLEAN,
           ~chosen' => /\ ~chosen /\ SyncSound(u, s2)'
                       /\ \A c \in Connections' : CursorSound(c, s2)',
           ~crossed => ImportedOnce' /\ OnceSound(u)'
    PROVE  FeedInv'
<1>1. /\ task \in [Task -> FeedTask] /\ since \in Int /\ crossed \in BOOLEAN
      /\ IsFiniteSet(Ongoing) /\ \A q \in Task : TaskFormed(task[q])
  BY DEF FeedInv, FeedTypeOK
<1>2. task'[r] = u /\ \A q \in Task \ {r} : task'[q] = task[q]
  BY <1>1
<1>3. FeedTypeOK'
  <2>1. task' \in [Task -> FeedTask]
    BY <1>1
  <2> QED BY <2>1 DEF FeedTypeOK, Grows
<1>4. IsFiniteSet(Ongoing')
  <2>1. Ongoing' \in SUBSET (Ongoing \cup {r})
    BY <1>2 DEF Ongoing
  <2>2. IsFiniteSet(Ongoing \cup {r})
    BY <1>1, FS_AddElement
  <2> QED BY <2>1, <2>2, FS_Subset
<1>5. ASSUME NEW q \in Task PROVE TaskFormed(task[q])'
  <2>1. CASE q = r
    BY <1>2, <2>1
  <2>2. CASE q # r
    <3>1. PICK v : v = task[q]
      OBVIOUS
    <3>2. TaskFormed(v)
      BY <1>1, <3>1
    <3>3. TaskFormed(v)'
      <4>1. Booked \subseteq Booked'
        BY BankFeedConstants DEF Booked, Grows
      <4> QED BY <3>2, <4>1 DEF TaskFormed, RightAmount
    <3>4. task'[q] = v
      BY <1>2, <2>2, <3>1
    <3> QED BY <3>3, <3>4
  <2> QED BY <2>1, <2>2
<1>6. ASSUME ~chosen', NEW q \in Task PROVE SyncSound(task[q], s2)'
  <2>1. CASE q = r
    BY <1>2, <1>6, <2>1
  <2>2. CASE q # r
    <3>1. PICK v : v = task[q]
      OBVIOUS
    <3>2. PICK s : s = since
      OBVIOUS
    <3>3. v \in FeedTask /\ SyncSound(v, s) /\ s \in Int /\ s <= s2
      BY <1>1, <1>6, <3>1, <3>2 DEF FeedInv
    <3>4. SyncSound(v, s2)'
      BY <3>3, SyncStays
    <3> QED BY <1>2, <2>2, <3>1, <3>4
  <2> QED BY <2>1, <2>2
<1>7. ASSUME ~crossed'
      PROVE  /\ \A p, q \in Ongoing' : p = q
             /\ ImportedOnce' /\ \A q \in Task : OnceSound(task[q])'
  <2>1. ~crossed /\ (\A p, q \in Ongoing : p = q) /\ ~(Cardinality(Ongoing') > 1)
    BY <1>7 DEF FeedInv
  <2>2. \A p, q \in Ongoing' : p = q
    BY <1>4, <2>1, AtMostOne
  <2>3. ASSUME NEW q \in Task, q # r PROVE OnceSound(task[q])'
    <3>1. q \notin Ongoing
      <4>1. CASE r \in Ongoing
        BY <2>1, <2>3, <4>1
      <4>2. CASE u.pc \in Stage
        <5>1. r \in Ongoing'
          BY <1>2, <4>2 DEF Ongoing
        <5> QED BY <1>2, <2>2, <2>3, <5>1 DEF Ongoing
      <4> QED BY <4>1, <4>2
    <3>2. PICK v : v = task[q]
      OBVIOUS
    <3>3. v.pc \in {"idle", "done"} /\ v.lines = {} /\ v.statements = {} /\ task'[q] = v
      BY <1>1, <1>2, <2>3, <3>1, <3>2 DEF Ongoing, FeedTask, TaskFormed
    <3>4. line' \cup v.lines = line' /\ statement' \cup v.statements = statement'
      BY <3>3
    <3>5. OnceSound(v)'
      BY <2>1, <3>3, <3>4 DEF OnceSound, OnceIn, ImportedOnce
    <3> QED BY <3>3, <3>5
  <2> QED BY <1>2, <2>1, <2>2, <2>3 DEF ImportedOnce
<1> QED BY <1>1, <1>3, <1>4, <1>5, <1>6, <1>7 DEF FeedInv

-----------------------------------------------------------------------------
(* How a task moves. *)

(* What a step remembers. *)
Notes == /\ crossed' = (crossed \/ Cardinality(Ongoing') > 1)
         /\ chosen' \in BOOLEAN /\ (chosen => chosen')

(* What t says of a task is sound, given the tables as they are. *)
Ready(t, s) ==
    /\ t \in FeedTask /\ TaskFormed(t)
    /\ ~chosen' => SyncSound(t, s)
    /\ ~crossed => OnceSound(t)

(* What writing does to the tables. *)
LEMMA ApplyEffect ==
    ASSUME FeedInv, NEW r \in Task, NEW t \in FeedTask, TaskFormed(t), t.pc \in Stage, Apply(t, r)
    PROVE  /\ conn' \in [Connection -> ConnectionRow \cup {Nil}] /\ Connections \subseteq Connections'
           /\ line' = line \cup t.lines /\ statement' = statement \cup t.statements
           /\ line' \in SUBSET LineRow /\ statement' \in SUBSET StatementRow
           /\ \A l \in line' : RightAmount(l)
           /\ \A c \in Connections' :
                 \/ c \in Connections /\ conn'[c].cursor = conn[c].cursor
                 \/ /\ c = t.conn /\ "cursor" \in DOMAIN t.put
                    /\ conn'[c].cursor = t.put.cursor
<1>1. /\ conn \in [Connection -> ConnectionRow \cup {Nil}] /\ t.put \in Patches
      /\ t.lines \in SUBSET LineRow /\ t.statements \in SUBSET StatementRow
      /\ line \in SUBSET LineRow /\ statement \in SUBSET StatementRow /\ Nil \notin ConnectionRow
  BY BankFeedConstants DEF FeedInv, FeedTypeOK, FeedTask
<1>2. /\ line' = line \cup t.lines /\ statement' = statement \cup t.statements
      /\ \A l \in line' : RightAmount(l)
  BY DEF Apply, FeedInv, TaskFormed
<1>3. CASE DOMAIN t.put = {}
  <2>1. conn' = conn
    BY <1>3 DEF Apply
  <2> QED BY <1>1, <1>2, <2>1 DEF Connections
<1>4. CASE DOMAIN t.put # {} /\ t.op = "CREATE"
  <2>1. conn' = [conn EXCEPT ![t.conn] = t.put]
    BY <1>4 DEF Apply
  <2>2. t.conn \in Connection /\ t.put \in ConnectionRow /\ "cursor" \in DOMAIN t.put
    BY <1>1, <1>4, NoColumnsEmpty DEF TaskFormed, ConnectionRow
  <2> QED BY <1>1, <1>2, <2>1, <2>2 DEF Connections
<1>5. CASE DOMAIN t.put # {} /\ t.op # "CREATE"
  <2>1. conn' = [conn EXCEPT ![t.conn] = Patched(@, t.put)]
    BY <1>5 DEF Apply
  <2>2. t.conn \in Connections
    BY <1>1, <1>5, NoColumnsEmpty DEF TaskFormed
  <2>3. conn[t.conn] \in ConnectionRow
    BY <1>1, <2>2 DEF Connections
  <2>4. PICK row : row = conn[t.conn]
    OBVIOUS
  <2>5. PICK p : p = t.put
    OBVIOUS
  <2>6. /\ Patched(row, p) \in ConnectionRow
        /\ Patched(row, p).cursor = IF "cursor" \in DOMAIN p THEN p.cursor ELSE row.cursor
    BY <1>1, <2>3, <2>4, <2>5, PatchedRow
  <2>7. PICK new : new = Patched(row, p)
    OBVIOUS
  <2>8. conn' = [conn EXCEPT ![t.conn] = new]
    BY <2>1, <2>4, <2>5, <2>7
  <2>9. /\ conn'[t.conn] = new /\ new \in ConnectionRow /\ t.conn \in Connection
        /\ \A c \in Connection : c # t.conn => conn'[c] = conn[c]
        /\ conn' \in [Connection -> ConnectionRow \cup {Nil}]
    BY <1>1, <2>2, <2>6, <2>7, <2>8 DEF Connections
  <2> QED BY <1>1, <1>2, <2>2, <2>4, <2>5, <2>6, <2>7, <2>9 DEF Connections
<1> QED BY <1>3, <1>4, <1>5

(* A task goes on and keeps its writes to itself. *)
LEMMA HoldKeeps ==
    ASSUME FeedInv, Notes, NEW r \in Task, NEW t, NEW s2 \in Int, since' = s2, since <= s2,
           Ready(t, s2), task' = [task EXCEPT ![r] = t], r \in Ongoing \/ t.pc \in Stage,
           UNCHANGED <<conn, statement, line, booked, day>>,
           due' \in SUBSET (Connections \X Date)
    PROVE  FeedInv'
<1>1. /\ conn' = conn /\ statement' = statement /\ line' = line /\ booked' = booked /\ day' = day
      /\ Connections' = Connections /\ Booked' = Booked
  BY DEF Connections, Booked
<1>2. Grows
  BY <1>1, BankFeedConstants DEF Grows, FeedInv, FeedTypeOK
<1>3. TaskFormed(t)' /\ (~crossed => ImportedOnce' /\ OnceSound(t)')
  BY <1>1 DEF Ready, FeedInv, TaskFormed, RightAmount, ImportedOnce, OnceSound, OnceIn
<1>4. PICK s : s = since
  OBVIOUS
<1>5. s \in Int /\ s <= s2
  BY <1>4 DEF FeedInv
<1>6. ASSUME ~chosen' PROVE SyncSound(t, s2)' /\ \A c \in Connections' : CursorSound(c, s2)'
  <2>1. SyncSound(t, s2)'
    BY <1>2, <1>6, SyncStays DEF Ready
  <2>2. ASSUME NEW c \in Connections PROVE CursorSound(c, s2)'
    <3>1. CursorSound(c, s)
      BY <1>4, <1>6 DEF FeedInv, Notes
    <3>2. conn[c].cursor \in Date
      BY DEF FeedInv, FeedTypeOK, Connections, ConnectionRow
    <3> QED BY <1>1, <1>2, <1>5, <3>1, <3>2, CursorStays
  <2> QED BY <1>1, <2>1, <2>2
<1> QED BY <1>1, <1>2, <1>3, <1>6, FeedKeeps DEF FeedInv, FeedTypeOK, Notes, Ready

(* What r has written reaches the tables; r goes on as u, with nothing to
   write. *)
LEMMA WriteKeeps ==
    ASSUME FeedInv, Notes, NEW r \in Task, NEW t, NEW u \in FeedTask, NEW s2 \in Int, since' = s2,
           since <= s2, Ready(t, s2), t.pc \in Stage, Apply(t, r), task' = [task EXCEPT ![r] = u],
           u.put = NoColumns /\ u.lines = {} /\ u.statements = {},
           r \in Ongoing \/ u.pc \in Stage, TaskFormed(u),
           \/ u.pc = "done"
           \/ /\ u.pc = t.pc /\ u.conn = t.conn /\ u.from = t.from /\ u.to = t.to /\ u.todo = t.todo
              /\ u.account = t.account /\ u.batch = t.batch /\ u.fresh = t.fresh /\ u.latest = t.latest,
           UNCHANGED <<booked, day, due>>
    PROVE  FeedInv'
<1>1. /\ booked' = booked /\ day' = day /\ due' = due /\ Booked' = Booked
      /\ t \in FeedTask /\ TaskFormed(t) /\ t.pc \in Stage
  BY DEF Booked, Ready
<1>2. /\ conn' \in [Connection -> ConnectionRow \cup {Nil}] /\ Connections \subseteq Connections'
      /\ line' = line \cup t.lines /\ statement' = statement \cup t.statements
      /\ line' \in SUBSET LineRow /\ statement' \in SUBSET StatementRow
      /\ \A l \in line' : RightAmount(l)
      /\ \A c \in Connections' :
            \/ c \in Connections /\ conn'[c].cursor = conn[c].cursor
            \/ c = t.conn /\ "cursor" \in DOMAIN t.put /\ conn'[c].cursor = t.put.cursor
  BY <1>1, ApplyEffect
<1>3. Grows
  BY <1>1, <1>2, BankFeedConstants DEF Grows, FeedInv, FeedTypeOK
<1>4. TaskFormed(u)'
  BY <1>1, <1>2 DEF TaskFormed, RightAmount
<1>5. line' \cup u.lines = line \cup t.lines /\ statement' \cup u.statements = statement \cup t.statements
  BY <1>2
<1>6. ~crossed => ImportedOnce' /\ OnceSound(u)'
  BY <1>2, <1>5 DEF Ready, OnceSound, OnceIn, ImportedOnce
<1>7. ASSUME ~chosen' PROVE SyncSound(u, s2)' /\ \A c \in Connections' : CursorSound(c, s2)'
  <2>1. SyncSound(t, s2)
    BY <1>7 DEF Ready
  <2>2. SyncSound(u, s2)'
    <3>1. DOMAIN u.put = {}
      BY NoColumnsEmpty
    <3>2. CASE u.pc = "done"
      BY <3>1, <3>2 DEF SyncSound
    <3>3. CASE u.pc # "done"
      BY <1>1, <1>5, <2>1, <3>1, <3>3 DEF SyncSound, Covers, BookedIn, Entered, Booked, RightAmount
    <3> QED BY <3>2, <3>3
  <2>3. ASSUME NEW c \in Connections' PROVE CursorSound(c, s2)'
    <3>1. CASE c \in Connections /\ conn'[c].cursor = conn[c].cursor
      <4>1. PICK s : s = since
        OBVIOUS
      <4>2. s \in Int /\ s <= s2 /\ CursorSound(c, s)
        BY <1>7, <3>1, <4>1 DEF FeedInv, Notes
      <4>3. conn[c].cursor \in Date
        BY <3>1 DEF FeedInv, FeedTypeOK, Connections, ConnectionRow
      <4> QED BY <1>3, <3>1, <4>2, <4>3, CursorStays
    <3>2. CASE c = t.conn /\ "cursor" \in DOMAIN t.put /\ conn'[c].cursor = t.put.cursor
      <4>1. t.put.cursor # Nil =>
               t.put.cursor <= day /\ Covers(line \cup t.lines, pickAccounts(c), s2, t.put.cursor - 1)
        BY <2>1, <3>2 DEF SyncSound
      <4> QED BY <1>1, <1>2, <3>2, <4>1
              DEF CursorSound, Covers, BookedIn, Entered, Booked, RightAmount
    <3> QED BY <1>2, <3>1, <3>2
  <2> QED BY <2>2, <2>3
<1>8. due' \in SUBSET (Connections' \X Date)
  BY <1>1, <1>2 DEF FeedInv, FeedTypeOK
<1> QED BY <1>1, <1>2, <1>3, <1>4, <1>6, <1>7, <1>8, FeedKeeps DEF FeedInv, FeedTypeOK, Notes

(* A task goes on; one of the scheduler commits each statement. *)
LEMMA ContinueKeeps ==
    ASSUME FeedInv, Notes, NEW r \in Task, NEW t, NEW s2 \in Int, since' = s2, since <= s2,
           Ready(t, s2), t.pc \in Stage, Continue(r, t)
    PROVE  FeedInv'
<1>1. UNCHANGED <<booked, day, due>> /\ due \in SUBSET (Connections \X Date)
  BY DEF Continue, World, FeedInv, FeedTypeOK
<1>2. CASE t.op = "DAILY"
  <2>1. Apply(t, r) /\ task' = [task EXCEPT ![r] = Flushed(t)]
    BY <1>2 DEF Continue
  <2>2. /\ Flushed(t) \in FeedTask /\ Flushed(t).put = NoColumns /\ Flushed(t).lines = {}
        /\ Flushed(t).statements = {} /\ Flushed(t).op = "DAILY"
        /\ Flushed(t).pc = t.pc /\ Flushed(t).conn = t.conn /\ Flushed(t).from = t.from
        /\ Flushed(t).to = t.to /\ Flushed(t).todo = t.todo /\ Flushed(t).account = t.account
        /\ Flushed(t).batch = t.batch /\ Flushed(t).fresh = t.fresh /\ Flushed(t).latest = t.latest
    <3>1. t \in FeedTask /\ NoColumns \in Patches
      BY DEF Ready, Patches
    <3> QED BY <1>2, <3>1 DEF Flushed, FeedTask
  <2>3. PICK u : u = Flushed(t)
    OBVIOUS
  <2>4. TaskFormed(u)
    BY <2>2, <2>3, <1>2 DEF Ready, TaskFormed
  <2> QED BY <1>1, <2>1, <2>2, <2>3, <2>4, WriteKeeps
<1>3. CASE t.op # "DAILY"
  <2>1. task' = [task EXCEPT ![r] = t] /\ UNCHANGED <<conn, statement, line>>
    BY <1>3 DEF Continue, rows
  <2> QED BY <1>1, <2>1, HoldKeeps
<1> QED BY <1>2, <1>3

(* What a task has seen to from one day on it has from a later one. *)
LEMMA SyncLater ==
    ASSUME FeedInv, NEW r \in Task, NEW s2 \in Int, since <= s2, ~chosen
    PROVE  SyncSound(task[r], s2)
<1>1. PICK t : t = task[r]
  OBVIOUS
<1>2. PICK s : s = since
  OBVIOUS
<1>3. SyncSound(t, s) /\ s \in Int /\ s <= s2 /\ t \in FeedTask /\ booked \in [Movement -> 1..day \cup {Nil}] /\ day \in Int
  BY <1>1, <1>2 DEF FeedInv, FeedTypeOK
<1>4. \A L, A, hi : Covers(L, A, s, hi) => Covers(L, A, s2, hi)
  <2> SUFFICES ASSUME NEW L, NEW A, NEW hi, Covers(L, A, s, hi), NEW m \in BookedIn(A, s2, hi)
               PROVE  Entered(L, m)
    BY DEF Covers
  <2>1. m \in Movement /\ booked[m] # Nil /\ booked[m] \in Int
    BY <1>3 DEF BookedIn, Booked
  <2>2. m \in BookedIn(A, s, hi)
    BY <1>3, <2>1 DEF BookedIn
  <2> QED BY <2>2 DEF Covers
<1>5. SyncSound(t, s2)
  BY <1>3, <1>4 DEF SyncSound
<1> QED BY <1>1, <1>5

(* A task ends with or without its writes. *)
LEMMA CloseKeeps ==
    ASSUME FeedInv, Notes, NEW r \in Task, NEW s2 \in Int, since' = s2, since <= s2,
           r \in Ongoing, CloseTask(r), UNCHANGED <<booked, day, due>>,
           Apply(task[r], r) \/ UNCHANGED <<conn, statement, line>>
    PROVE  FeedInv'
<1>1. PICK u : u = NewTask("done")
  OBVIOUS
<1>2. /\ u \in FeedTask /\ u.pc = "done" /\ u.put = NoColumns /\ u.lines = {} /\ u.statements = {}
      /\ u.op = "CREATE" /\ u.batch = {} /\ u.fresh = {}
  BY <1>1, NewTaskType
<1>3. task' = [task EXCEPT ![r] = u] /\ TaskFormed(u)
  BY <1>1, <1>2 DEF CloseTask, TaskFormed, Stage
<1>4. CASE Apply(task[r], r)
  <2>1. PICK t : t = task[r]
    OBVIOUS
  <2>2. t.pc \in Stage /\ t \in FeedTask /\ TaskFormed(t) /\ (~crossed => OnceSound(t))
    BY <2>1 DEF Ongoing, FeedInv, FeedTypeOK
  <2>3. ~chosen' => SyncSound(t, s2)
    BY <2>1, SyncLater DEF Notes
  <2>4. Ready(t, s2) /\ Apply(t, r)
    BY <1>4, <2>1, <2>2, <2>3 DEF Ready
  <2> QED BY <1>2, <1>3, <2>2, <2>4, WriteKeeps
<1>5. CASE UNCHANGED <<conn, statement, line>>
  <2>1. SyncSound(u, s2)
    BY <1>2, NoColumnsEmpty DEF SyncSound
  <2>2. ~crossed => OnceSound(u)
    BY <1>2 DEF FeedInv, OnceSound, OnceIn, ImportedOnce
  <2>3. Ready(u, s2)
    BY <1>2, <1>3, <2>1, <2>2 DEF Ready
  <2> QED BY <1>3, <1>5, <2>3, HoldKeeps DEF FeedInv, FeedTypeOK
<1> QED BY <1>4, <1>5

(* Only the calendar, the bank or the scheduler moves. *)
LEMMA WorldKeeps ==
    ASSUME FeedInv, Notes, since' = since, Grows, UNCHANGED <<conn, statement, line, task>>,
           day' \in 1..LastDay, due' \in SUBSET (Connections \X Date)
    PROVE  FeedInv'
<1>1. /\ conn' = conn /\ statement' = statement /\ line' = line /\ task' = task
      /\ Connections' = Connections /\ Ongoing' = Ongoing /\ Booked \subseteq Booked'
  BY BankFeedConstants DEF Connections, Ongoing, Grows, Booked
<1>2. PICK s : s = since
  OBVIOUS
<1>3. s \in Int
  BY <1>2 DEF FeedInv
<1>4. FeedTypeOK' /\ IsFiniteSet(Ongoing') /\ since' \in Int /\ crossed' \in BOOLEAN /\ chosen' \in BOOLEAN
  BY <1>1 DEF FeedInv, FeedTypeOK, Grows, Notes
<1>5. ASSUME NEW q \in Task PROVE TaskFormed(task[q])'
  <2>1. PICK v : v = task[q]
    OBVIOUS
  <2>2. TaskFormed(v)'
    BY <1>1, <2>1 DEF FeedInv, TaskFormed, RightAmount
  <2> QED BY <1>1, <2>1, <2>2
<1>6. ASSUME ~chosen', NEW q \in Task PROVE SyncSound(task[q], s)'
  <2>1. PICK v : v = task[q]
    OBVIOUS
  <2>2. v \in FeedTask /\ SyncSound(v, s)
    BY <1>2, <1>6, <2>1 DEF FeedInv, FeedTypeOK, Notes
  <2>3. SyncSound(v, s)'
    BY <1>3, <2>2, SyncStays
  <2> QED BY <1>1, <2>1, <2>3
<1>7. ASSUME ~chosen', NEW c \in Connections PROVE CursorSound(c, s)'
  <2>1. CursorSound(c, s) /\ conn[c].cursor \in Date
    BY <1>2, <1>7 DEF FeedInv, Notes, FeedTypeOK, Connections, ConnectionRow
  <2> QED BY <1>1, <1>3, <2>1, CursorStays
<1>8. ASSUME ~crossed'
      PROVE  /\ \A p, q \in Ongoing' : p = q
             /\ ImportedOnce' /\ \A q \in Task : OnceSound(task[q])'
  BY <1>1, <1>8 DEF FeedInv, Notes, ImportedOnce, OnceSound, OnceIn
<1>9. \A l \in line' : RightAmount(l)
  BY <1>1 DEF FeedInv
<1> QED BY <1>1, <1>2, <1>4, <1>5, <1>6, <1>7, <1>8, <1>9 DEF FeedInv, RightAmount

(* A restart ends every task at once, without its writes. *)
LEMMA RestartKeeps ==
    ASSUME FeedInv, Notes, since' = since, Restart
    PROVE  FeedInv'
<1>1. /\ UNCHANGED <<conn, statement, line, booked, day>> /\ due' = {}
      /\ Connections' = Connections /\ Booked' = Booked
  BY DEF Restart, rows, Connections, Booked
<1>2. PICK u : u = NewTask("done")
  OBVIOUS
<1>3. /\ u \in FeedTask /\ u.pc = "done" /\ u.put = NoColumns /\ u.lines = {} /\ u.statements = {}
      /\ u.op = "CREATE" /\ u.batch = {} /\ u.fresh = {}
  BY <1>2, NewTaskType
<1>4. task' = [q \in Task |-> IF q \in Ongoing THEN u ELSE task[q]]
  BY <1>2 DEF Restart
<1>5. FeedTypeOK'
  BY <1>1, <1>3, <1>4 DEF FeedInv, FeedTypeOK
<1>6. Ongoing' = {}
  BY <1>3, <1>4 DEF Ongoing, Stage
<1>7. ASSUME NEW q \in Task
      PROVE  /\ TaskFormed(task[q])' /\ (~chosen' => SyncSound(task[q], since)')
             /\ (~crossed' => OnceSound(task[q])')
  <2>1. CASE q \in Ongoing
    <3>1. TaskFormed(u)' /\ SyncSound(u, since)'
      BY <1>3, NoColumnsEmpty DEF TaskFormed, SyncSound, Stage
    <3>2. ~crossed' => OnceSound(u)'
      BY <1>1, <1>3 DEF FeedInv, Notes, OnceSound, OnceIn, ImportedOnce
    <3> QED BY <1>4, <2>1, <3>1, <3>2
  <2>2. CASE q \notin Ongoing
    <3>1. task'[q] = task[q] /\ line' = line /\ statement' = statement /\ booked' = booked /\ day' = day
          /\ conn' = conn /\ since' = since
      BY <1>1, <1>4, <2>2
    <3>2. TaskFormed(task[q]) /\ (~chosen' => SyncSound(task[q], since)) /\ (~crossed' => OnceSound(task[q]))
      BY DEF FeedInv, Notes
    <3>3. TaskFormed(task[q])' /\ (~crossed' => OnceSound(task[q])')
      BY <1>1, <3>1, <3>2 DEF TaskFormed, OnceSound, OnceIn, RightAmount
    <3>4. ~chosen' => SyncSound(task[q], since)'
      BY <3>1, <3>2 DEF SyncSound, Covers, BookedIn, Booked, Entered, RightAmount
    <3> QED BY <3>3, <3>4
  <2> QED BY <2>1, <2>2
<1>8. /\ \A l \in line' : RightAmount(l)
      /\ ~crossed' => ImportedOnce'
      /\ ~chosen' => \A c \in Connections' : CursorSound(c, since)'
  BY <1>1 DEF FeedInv, Notes, ImportedOnce, OnceIn, CursorSound, Covers, BookedIn, Booked,
              Entered, RightAmount
<1> QED BY <1>5, <1>6, <1>7, <1>8, FS_EmptySet DEF FeedInv, Notes, RightAmount

-----------------------------------------------------------------------------
(* The steps of a task. *)

(* What is known of the task that moves. *)
LEMMA TaskKnown ==
    ASSUME FeedInv, NEW r \in Task
    PROVE  /\ task[r] \in FeedTask /\ TaskFormed(task[r])
           /\ (~crossed => OnceSound(task[r])) /\ task[r].put \in Patches
           /\ task[r].conn \in Connection \cup {Nil} /\ task[r].put \in Patches
BY DEF FeedInv, FeedTypeOK, FeedTask

(* A step that sees to no movement and writes no line. *)
LEMMA PlainReady ==
    ASSUME FeedInv, NEW r \in Task, NEW u, u = task[r], NEW s \in Int, ~chosen' => SyncSound(u, s),
           NEW t \in FeedTask, TaskFormed(t), t.lines = u.lines, t.statements = u.statements,
           t.pc \notin {"token", "fetch", "existing", "lines", "finish"},
           "cursor" \in DOMAIN t.put /\ t.put.cursor # Nil =>
              "cursor" \in DOMAIN u.put /\ t.put.cursor = u.put.cursor /\ t.conn = u.conn
    PROVE  Ready(t, s)
<1>1. ~chosen' => SyncSound(t, s)
  BY DEF SyncSound
<1>2. ~crossed => OnceSound(t)
  BY DEF FeedInv, OnceSound
<1> QED BY <1>1, <1>2 DEF Ready

(* A request arrives. *)
LEMMA BeginReady ==
    ASSUME FeedInv, NEW r \in Task, NEW s \in Int, ~chosen' => SyncSound(task[r], s), Begin(r)
    PROVE  \E t : Ready(t, s) /\ t.pc \in Stage /\ Continue(r, t)
<1>1. PICK u : u = task[r]
  OBVIOUS
<1>2. ASSUME NEW t \in FeedTask, StartTask(r, t), t.put = NoColumns, t.lines = {}, t.statements = {},
             t.batch = {}, t.fresh = {}, t.latest = Nil, t.pc \in {"write", "read"},
             t.op = "FILE" \/ (t.op = "CREATE" /\ t.conn \in Connection) \/ t.conn \in Connections
      PROVE  \E v : Ready(v, s) /\ v.pc \in Stage /\ Continue(r, v)
  <2>1. u.pc = "idle" /\ Continue(r, t)
    BY <1>1, <1>2 DEF StartTask
  <2>2. u.lines = {} /\ u.statements = {}
    BY <1>1, <2>1 DEF FeedInv, TaskFormed
  <2>3. TaskFormed(t) /\ t.pc \in Stage
    <3>1. Connections \subseteq Connection
      BY DEF Connections
    <3> QED BY <1>2, <3>1 DEF TaskFormed, Stage
  <2>4. Ready(t, s)
    BY <1>1, <1>2, <2>2, <2>3, NoColumnsEmpty, PlainReady
  <2> QED BY <2>1, <2>3, <2>4
<1>3. /\ NewTask("write") \in FeedTask /\ NewTask("read") \in FeedTask
      /\ Connections \subseteq Connection
  BY NewTaskType DEF Stage, Connections
<1>4. CASE CreateConnection(r)
  <2>1. PICK c \in Connection : StartTask(r, [NewTask("write") EXCEPT !.conn = c])
    BY <1>4 DEF CreateConnection
  <2>2. PICK t : t = [NewTask("write") EXCEPT !.conn = c]
    OBVIOUS
  <2>3. t \in FeedTask
    BY <1>3, <2>2 DEF FeedTask
  <2>4. /\ t.put = NoColumns /\ t.lines = {} /\ t.statements = {} /\ t.batch = {} /\ t.fresh = {}
        /\ t.latest = Nil /\ t.pc = "write" /\ t.op = "CREATE" /\ t.conn = c
    BY <2>2 DEF NewTask
  <2> QED BY <1>2, <2>1, <2>2, <2>3, <2>4
<1>5. ASSUME NEW c \in Connections, NEW op \in {"STATUS", "TOKEN", "SYNC"}, NEW label \in {"write", "read"},
             StartTask(r, [NewTask(label) EXCEPT !.op = op, !.conn = c])
      PROVE  \E v : Ready(v, s) /\ v.pc \in Stage /\ Continue(r, v)
  <2>1. PICK t : t = [NewTask(label) EXCEPT !.op = op, !.conn = c]
    OBVIOUS
  <2>2. t \in FeedTask
    <3>1. PICK n : n = NewTask(label)
      OBVIOUS
    <3>2. n \in FeedTask
      BY <1>3, <3>1
    <3>3. t = [n EXCEPT !.op = op, !.conn = c]
      BY <2>1, <3>1
    <3> QED BY <1>3, <3>2, <3>3 DEF FeedTask
  <2>3. /\ t.put = NoColumns /\ t.lines = {} /\ t.statements = {} /\ t.batch = {} /\ t.fresh = {}
        /\ t.latest = Nil /\ t.pc = label /\ t.op = op /\ t.conn = c
    BY <2>1 DEF NewTask
  <2> QED BY <1>2, <1>5, <2>1, <2>2, <2>3
<1>6. CASE ImportFile(r)
  <2>1. PICK t : t = [NewTask("write") EXCEPT !.op = "FILE"]
    OBVIOUS
  <2>2. t \in FeedTask
    BY <1>3, <2>1 DEF FeedTask
  <2>3. /\ t.put = NoColumns /\ t.lines = {} /\ t.statements = {} /\ t.batch = {} /\ t.fresh = {}
        /\ t.latest = Nil /\ t.pc = "write" /\ t.op = "FILE"
    BY <2>1 DEF NewTask
  <2>4. StartTask(r, t)
    BY <1>6, <2>1 DEF ImportFile
  <2>5. t.pc \in {"write", "read"}
    BY <2>3
  <2> QED BY <1>2, <2>2, <2>3, <2>4, <2>5, Zenon
<1> QED BY <1>4, <1>5, <1>6 DEF Begin, UpdateStatus, ExchangeToken, SyncConnection

(* The single write of a request, unless it is refused. *)
LEMMA WriteReady ==
    ASSUME FeedInv, NEW r \in Task, NEW s \in Int, ~chosen' => SyncSound(task[r], s),
           WriteConnection(r) \/ WriteStatus(r) \/ WriteToken(r) \/ WriteFile(r)
    PROVE  RejectTask(r) \/ \E t : Ready(t, s) /\ t.pc \in Stage /\ Continue(r, t)
<1>1. PICK u : u = task[r]
  OBVIOUS
<1>2. /\ u \in FeedTask /\ TaskFormed(u) /\ u.pc = "write"
  BY <1>1, TaskKnown DEF WriteConnection, WriteStatus, WriteToken, WriteFile, Stands
<1>3. ASSUME NEW p \in Patches, u.op # "FILE", Continue(r, [u EXCEPT !.pc = "answer", !.put = p]),
             u.op = "CREATE" => p \in ConnectionRow,
             "cursor" \in DOMAIN p => p.cursor = Nil
      PROVE  \E t : Ready(t, s) /\ t.pc \in Stage /\ Continue(r, t)
  <2>1. PICK t : t = [u EXCEPT !.pc = "answer", !.put = p]
    OBVIOUS
  <2>2. /\ t \in FeedTask /\ t.pc = "answer" /\ t.put = p /\ t.lines = u.lines /\ t.op = u.op
        /\ t.statements = u.statements /\ t.conn = u.conn /\ t.batch = u.batch /\ t.fresh = u.fresh
    BY <1>2, <1>3, <2>1 DEF FeedTask, Stage
  <2>3. TaskFormed(t)
    BY <1>2, <1>3, <2>2 DEF TaskFormed, ConnectionRow, Stage
  <2>4. Ready(t, s)
    BY <1>1, <1>3, <2>2, <2>3, PlainReady
  <2> QED BY <1>3, <2>1, <2>2, <2>4 DEF Stage
<1>4. Nil \in Date /\ Status = {"PENDING", "ACTIVE", "ERROR", "DISABLED"}
  BY DEF Date, Status
<1>5. CASE WriteConnection(r)
  <2>1. PICK p : p = [status |-> "PENDING", token |-> FALSE, refresh |-> FALSE, cursor |-> Nil, synced |-> Nil]
    OBVIOUS
  <2>2. p \in ConnectionRow /\ p.cursor = Nil /\ p \in Patches
    BY <1>4, <2>1 DEF ConnectionRow, Patches
  <2> QED BY <1>1, <1>3, <1>5, <2>1, <2>2 DEF WriteConnection
<1>6. CASE WriteStatus(r)
  <2>1. ASSUME NEW want \in {"ACTIVE", "DISABLED"}
        PROVE  [status |-> want] \in Patches /\ "cursor" \notin DOMAIN [status |-> want]
    BY <1>4 DEF Patches
  <2> QED BY <1>1, <1>3, <1>6, <2>1 DEF WriteStatus
<1>7. CASE WriteToken(r)
  <2>1. RejectTask(r) \/ \E x : Continue(r, [u EXCEPT !.pc = "answer", !.put = TokenColumns(x)]) /\ x \in BOOLEAN
    <3>1. RejectTask(r) \/ \E sent \in BOOLEAN :
             Continue(r, [u EXCEPT !.pc = "answer", !.put = TokenColumns(sent \/ conn[u.conn].refresh)])
      BY <1>1, <1>7, Zenon DEF WriteToken
    <3>2. \A sent \in BOOLEAN : (sent \/ conn[u.conn].refresh) \in BOOLEAN
      BY Zenon
    <3> QED BY <3>1, <3>2, Zenon
  <2>2. ASSUME NEW x \in BOOLEAN
        PROVE  TokenColumns(x) \in Patches /\ "cursor" \notin DOMAIN TokenColumns(x)
    BY <1>4 DEF TokenColumns, Patches
  <2>3. u.op = "TOKEN"
    BY <1>1, <1>7 DEF WriteToken
  <2> QED BY <1>3, <2>1, <2>2, <2>3
<1>8. CASE WriteFile(r)
  <2>1. u.op = "FILE"
    BY <1>1, <1>8 DEF WriteFile
  <2>2. ASSUME NEW f \in File,
               Continue(r, [u EXCEPT !.pc = "answer",
                              !.file = [file |-> f, parsed |-> parseBankStatementFile(f)]])
        PROVE  \E t : Ready(t, s) /\ t.pc \in Stage /\ Continue(r, t)
    <3>1. PICK g : g = [file |-> f, parsed |-> parseBankStatementFile(f)]
      OBVIOUS
    <3>2. PICK t : t = [u EXCEPT !.pc = "answer", !.file = g]
      OBVIOUS
    <3>3. g \in ParsedFile
      BY <3>1 DEF ParsedFile
    <3>4. /\ t \in FeedTask /\ t.pc = "answer" /\ t.put = u.put /\ t.lines = u.lines /\ t.op = u.op
          /\ t.statements = u.statements /\ t.conn = u.conn /\ t.batch = u.batch /\ t.fresh = u.fresh
      BY <1>2, <3>2, <3>3 DEF FeedTask, Stage
    <3>5. TaskFormed(t)
      BY <1>2, <2>1, <3>4 DEF TaskFormed, Stage
    <3>6. Ready(t, s)
      BY <1>1, <3>4, <3>5, PlainReady
    <3> QED BY <2>2, <3>1, <3>2, <3>4, <3>6 DEF Stage
  <2> QED BY <1>1, <1>8, <2>2 DEF WriteFile
<1> QED BY <1>5, <1>6, <1>7, <1>8

-----------------------------------------------------------------------------
(* The steps of a synchronisation. *)

(* The latest day is the one there was or one of the movements'. *)
LEMMA LatestOf ==
    ASSUME FeedInv, NEW old \in Date, NEW ms \in SUBSET Booked
    PROVE  /\ Latest(old, ms) \in Date
           /\ \A k \in Int : /\ old # Nil => old <= k
                             /\ \A m \in ms : booked[m] <= k
                             => (Latest(old, ms) # Nil => Latest(old, ms) <= k)
<1>1. CASE ms = {}
  BY <1>1 DEF Latest
<1>2. CASE ms # {}
  <2> DEFINE S == {booked[m] : m \in ms} \cup ({old} \ {Nil})
  <2>1. \A m \in ms : booked[m] \in 1..LastDay
    BY BankFeedConstants DEF FeedInv, FeedTypeOK, Booked
  <2>2. S \in SUBSET (1..LastDay)
    BY <2>1 DEF Date
  <2>3. IsFiniteSet(S)
    <3>1. IsFiniteSet(1..LastDay)
      BY BankFeedConstants, FS_Interval
    <3> HIDE DEF S
    <3> QED BY <2>2, <3>1, FS_Subset
  <2>4. S # {} /\ \A x \in S : x \in Int
    BY <1>2, <2>2
  <2>5. Latest(old, ms) = Max(S)
    BY <1>2 DEF Latest
  <2>6. Max(S) \in S
    <3> HIDE DEF S
    <3> QED BY <2>3, <2>4, MaxOf
  <2>7. Max(S) \in 1..LastDay
    <3> HIDE DEF S
    <3> QED BY <2>2, <2>6
  <2>8. ASSUME NEW k \in Int, old # Nil => old <= k, \A m \in ms : booked[m] <= k
        PROVE  Max(S) <= k
    <3>1. \A x \in S : x <= k
      BY <2>8
    <3> HIDE DEF S
    <3> QED BY <2>6, <3>1
  <2> QED BY <2>5, <2>7, <2>8 DEF Date
<1> QED BY <1>1, <1>2

(* What the bank sends for an account is what it has booked there. *)
LEMMA BatchIsBooked ==
    ASSUME NEW a, NEW from, NEW to
    PROVE  parseTransactionsPayload(a, from, to) = BookedIn({a}, from, to)
BY DEF parseTransactionsPayload, BookedIn, Booked

(* The catch. *)
LEMMA FailReady ==
    ASSUME FeedInv, NEW r \in Task, NEW s \in Int, ~chosen' => SyncSound(task[r], s),
           Stands(r, "token") \/ Stands(r, "fetch"), FailSync(r)
    PROVE  \E t : Ready(t, s) /\ t.pc \in Stage /\ Continue(r, t)
<1>1. PICK u : u = task[r]
  OBVIOUS
<1>2. u \in FeedTask /\ TaskFormed(u) /\ u.pc \in {"token", "fetch"}
  BY <1>1, TaskKnown DEF Stands
<1>3. PICK n : n = NewTask("fail")
  OBVIOUS
<1>4. PICK t : t = [n EXCEPT !.op = u.op, !.conn = u.conn, !.put = u.put,
                      !.statements = u.statements, !.lines = u.lines, !.run = u.run]
  OBVIOUS
<1>5. /\ n \in FeedTask /\ n.pc = "fail" /\ n.batch = {} /\ n.fresh = {}
  BY <1>3, NewTaskType DEF Stage
<1>6. /\ t \in FeedTask /\ t.pc = "fail" /\ t.put = u.put /\ t.lines = u.lines /\ t.op = u.op
      /\ t.statements = u.statements /\ t.conn = u.conn /\ t.batch = {} /\ t.fresh = {}
  BY <1>2, <1>4, <1>5 DEF FeedTask
<1>7. TaskFormed(t)
  BY <1>2, <1>6 DEF TaskFormed, Stage
<1>8. Ready(t, s)
  BY <1>1, <1>6, <1>7, PlainReady
<1>9. Continue(r, t)
  BY <1>1, <1>3, <1>4 DEF FailSync
<1> QED BY <1>6, <1>8, <1>9 DEF Stage

(* The token is good or renewed and the accounts are listed. *)
LEMMA TokenReady ==
    ASSUME FeedInv, NEW r \in Task, NEW s \in Int, ~chosen' => SyncSound(task[r], s), EnsureToken(r)
    PROVE  \E t : Ready(t, s) /\ t.pc \in Stage /\ Continue(r, t)
<1>1. PICK u : u = task[r]
  OBVIOUS
<1>2. u \in FeedTask /\ TaskFormed(u) /\ u.pc = "token" /\ u.op \in {"SYNC", "DAILY"} /\ u.put \in Patches
  BY <1>1, TaskKnown DEF EnsureToken, Stands, TaskFormed, Stage
<1>3. PICK A : A = pickAccounts(u.conn)
  OBVIOUS
<1>4. PICK t0 : t0 = [u EXCEPT !.pc = "fetch", !.token = FALSE, !.refresh = FALSE, !.todo = A]
  OBVIOUS
<1>5. /\ t0 \in FeedTask /\ t0.pc = "fetch" /\ t0.todo = A /\ t0.put = u.put /\ t0.lines = u.lines
      /\ t0.op = u.op /\ t0.statements = u.statements /\ t0.conn = u.conn /\ t0.batch = u.batch
      /\ t0.fresh = u.fresh /\ t0.from = u.from /\ t0.to = u.to /\ t0.latest = u.latest
  <2>1. A \in SUBSET Account
    BY <1>3 DEF pickAccounts
  <2>2. FALSE \in Flag
    BY DEF Flag
  <2> QED BY <1>2, <1>4, <2>1, <2>2 DEF FeedTask, Stage
<1>6. ASSUME NEW t \in FeedTask, t.pc = "fetch", t.todo = A, t.lines = u.lines, t.op = u.op,
             t.statements = u.statements, t.conn = u.conn, t.batch = u.batch, t.fresh = u.fresh,
             t.from = u.from, t.to = u.to, t.latest = u.latest,
             t.put = u.put \/ "cursor" \notin DOMAIN t.put
      PROVE  Ready(t, s)
  <2>1. TaskFormed(t)
    BY <1>2, <1>6 DEF TaskFormed, Stage
  <2>2. ~chosen' => SyncSound(t, s)
    <3> SUFFICES ASSUME ~chosen' PROVE SyncSound(t, s)
      OBVIOUS
    <3>1. SyncSound(u, s)
      BY <1>1
    <3>2. \A L, lo, hi : Covers(L, pickAccounts(t.conn) \ t.todo, lo, hi)
      BY <1>3, <1>6 DEF Covers, BookedIn
    <3>3. t.latest = Nil
      BY <1>2, <1>6 DEF TaskFormed
    <3> QED BY <1>2, <1>6, <3>1, <3>2, <3>3 DEF SyncSound
  <2>3. ~crossed => OnceSound(t)
    BY <1>1, <1>6, TaskKnown DEF OnceSound
  <2> QED BY <2>1, <2>2, <2>3 DEF Ready
<1>7. CASE Continue(r, t0)
  BY <1>5, <1>6, <1>7 DEF Stage
<1>8. CASE Continue(r, [t0 EXCEPT !.put = TokenColumns(TRUE)])
  <2>1. PICK p : p = TokenColumns(TRUE)
    OBVIOUS
  <2>2. p \in Patches /\ "cursor" \notin DOMAIN p
    BY <2>1 DEF TokenColumns, Patches, Status
  <2>3. PICK t : t = [t0 EXCEPT !.put = p]
    OBVIOUS
  <2>4. /\ t \in FeedTask /\ t.pc = "fetch" /\ t.todo = A /\ t.put = p /\ t.lines = u.lines
        /\ t.op = u.op /\ t.statements = u.statements /\ t.conn = u.conn /\ t.batch = u.batch
        /\ t.fresh = u.fresh /\ t.from = u.from /\ t.to = u.to /\ t.latest = u.latest
    BY <1>5, <2>2, <2>3 DEF FeedTask
  <2> QED BY <1>6, <1>8, <2>1, <2>2, <2>3, <2>4 DEF Stage
<1>9. CASE FailSync(r)
  BY <1>9, FailReady DEF EnsureToken
<1> QED BY <1>1, <1>3, <1>4, <1>7, <1>8, <1>9 DEF EnsureToken

(* The bank sends the movements of an account. *)
LEMMA FetchReady ==
    ASSUME FeedInv, NEW r \in Task, NEW s \in Int, ~chosen' => SyncSound(task[r], s), FetchTransactions(r)
    PROVE  \E t : Ready(t, s) /\ t.pc \in Stage /\ Continue(r, t)
<1>1. CASE FailSync(r)
  BY <1>1, FailReady DEF FetchTransactions
<1>2. CASE ~FailSync(r)
  <2>1. PICK u : u = task[r]
    OBVIOUS
  <2>2. PICK a \in u.todo :
            Continue(r, [u EXCEPT !.pc = "existing", !.account = a,
                           !.batch = parseTransactionsPayload(a, u.from, u.to)])
    BY <1>2, <2>1 DEF FetchTransactions
  <2>3. u \in FeedTask /\ TaskFormed(u) /\ u.pc = "fetch" /\ u.op \in {"SYNC", "DAILY"}
    BY <2>1, TaskKnown DEF FetchTransactions, Stands, TaskFormed, Stage
  <2>4. PICK ms : ms = BookedIn({a}, u.from, u.to)
    OBVIOUS
  <2>5. ms \subseteq Booked /\ Booked \subseteq Movement /\ a \in Account
    BY <2>3, <2>4 DEF BookedIn, Booked, FeedTask
  <2>6. PICK t : t = [u EXCEPT !.pc = "existing", !.account = a, !.batch = ms]
    OBVIOUS
  <2>7. /\ t \in FeedTask /\ t.pc = "existing" /\ t.account = a /\ t.batch = ms
        /\ t.todo = u.todo /\ t.put = u.put /\ t.lines = u.lines
        /\ t.op = u.op /\ t.statements = u.statements /\ t.conn = u.conn
        /\ t.fresh = u.fresh /\ t.from = u.from /\ t.to = u.to /\ t.latest = u.latest
    BY <2>3, <2>5, <2>6 DEF FeedTask, Stage
  <2>8. TaskFormed(t)
    BY <2>3, <2>5, <2>7 DEF TaskFormed, Stage
  <2>9. ~chosen' => SyncSound(t, s)
    <3> SUFFICES ASSUME ~chosen' PROVE SyncSound(t, s)
      OBVIOUS
    <3>1. SyncSound(u, s)
      BY <2>1
    <3>2. BookedIn({a}, u.from, u.to - 1) \subseteq ms
      <4>1. u.to \in Int /\ u.from \in Int /\ booked \in [Movement -> 1..day \cup {Nil}]
        BY <2>3 DEF FeedTask, FeedInv, FeedTypeOK
      <4> QED BY <2>4, <4>1 DEF BookedIn
    <3> QED BY <2>3, <2>4, <2>7, <3>1, <3>2 DEF SyncSound
  <2>10. ~crossed => OnceSound(t)
    BY <2>1, <2>7, TaskKnown DEF OnceSound
  <2>11. Continue(r, t)
    BY <2>2, <2>4, <2>6, BatchIsBooked
  <2> QED BY <2>7, <2>8, <2>9, <2>10, <2>11 DEF Ready, Stage
<1> QED BY <1>1, <1>2

(* More lines cover no less. *)
LEMMA CoversMore ==
    ASSUME NEW L, NEW L2, L \subseteq L2, NEW A, NEW lo, NEW hi, Covers(L, A, lo, hi)
    PROVE  Covers(L2, A, lo, hi)
BY DEF Covers, Entered

(* What is sound of a task with an account at hand, but for what it has of the
   account itself. *)
Underway(v, s) ==
    /\ v.from <= v.to /\ v.to \in 1..day
    /\ Covers(line \cup v.lines, pickAccounts(v.conn), s, v.from - 1)
    /\ Covers(line \cup v.lines, pickAccounts(v.conn) \ v.todo, v.from, v.to - 1)
    /\ v.latest # Nil => v.latest <= v.to
    /\ "cursor" \in DOMAIN v.put /\ v.put.cursor # Nil =>
          /\ v.put.cursor <= day
          /\ Covers(line \cup v.lines, pickAccounts(v.conn), s, v.put.cursor - 1)

(* When an account is done its movements count as seen to. *)
LEMMA AccountDoneReady ==
    ASSUME FeedInv, NEW s \in Int, NEW v \in FeedTask,
           v.op \in {"SYNC", "DAILY"}, v.conn \in Connections, v.to \in 1..LastDay,
           \A l \in v.lines : RightAmount(l),
           ~chosen' => /\ Underway(v, s)
                       /\ Covers(line \cup v.lines, {v.account}, v.from, v.to - 1),
           ~crossed => OnceIn(line \cup v.lines, statement \cup v.statements)
    PROVE  Ready(AccountDone(v), s) /\ AccountDone(v).pc \in Stage
<1>1. PICK t : t = AccountDone(v)
  OBVIOUS
<1>2. /\ t \in FeedTask /\ t.pc = (IF v.todo = {v.account} THEN "finish" ELSE "fetch")
      /\ t.todo = v.todo \ {v.account} /\ t.batch = {} /\ t.fresh = {} /\ t.put = v.put
      /\ t.lines = v.lines /\ t.op = v.op /\ t.statements = v.statements /\ t.conn = v.conn
      /\ t.from = v.from /\ t.to = v.to /\ t.latest = v.latest
  <2>1. PICK label : label = IF v.todo = {v.account} THEN "finish" ELSE "fetch"
    OBVIOUS
  <2>2. t = [v EXCEPT !.todo = @ \ {v.account}, !.batch = {}, !.fresh = {}, !.account = Nil, !.pc = label]
    BY <1>1, <2>1 DEF AccountDone
  <2>3. label \in {"finish", "fetch"}
    BY <2>1
  <2> QED BY ZenonT(60), <2>1, <2>2, <2>3 DEF FeedTask, Stage
<1>3. TaskFormed(t)
  BY <1>2 DEF TaskFormed, Stage
<1>4. ~chosen' => SyncSound(t, s)
  <2> SUFFICES ASSUME ~chosen' PROVE SyncSound(t, s)
    OBVIOUS
  <2>1. Covers(line \cup v.lines, pickAccounts(v.conn) \ t.todo, v.from, v.to - 1)
    <3> SUFFICES ASSUME NEW m \in BookedIn(pickAccounts(v.conn) \ t.todo, v.from, v.to - 1)
                 PROVE  Entered(line \cup v.lines, m)
      BY DEF Covers
    <3>1. m \in BookedIn(pickAccounts(v.conn) \ v.todo, v.from, v.to - 1)
          \/ m \in BookedIn({v.account}, v.from, v.to - 1)
      BY <1>2 DEF BookedIn
    <3> QED BY <3>1 DEF Covers, Underway
  <2>2. t.pc = "finish" => t.todo = {}
    BY <1>2
  <2> QED BY <1>2, <2>1, <2>2 DEF SyncSound, Underway
<1>5. ~crossed => OnceSound(t)
  BY <1>2 DEF OnceSound
<1> QED BY <1>1, <1>2, <1>3, <1>4, <1>5 DEF Ready, Stage

(* Of the movements fetched the fresh ones are kept. *)
LEMMA ExistingReady ==
    ASSUME FeedInv, NEW r \in Task, NEW s \in Int, ~chosen' => SyncSound(task[r], s), ReadExisting(r)
    PROVE  \E t : Ready(t, s) /\ t.pc \in Stage /\ Continue(r, t)
<1>1. PICK u : u = task[r]
  OBVIOUS
<1>2. /\ u \in FeedTask /\ TaskFormed(u) /\ u.pc = "existing" /\ u.op \in {"SYNC", "DAILY"}
      /\ u.batch \subseteq Booked /\ u.conn \in Connections /\ u.to \in 1..LastDay
      /\ u.latest \in Date /\ u.account \in Account /\ Booked \subseteq Movement /\ u.put \in Patches
  BY <1>1, TaskKnown DEF ReadExisting, Stands, TaskFormed, Stage, FeedTask, Booked
<1>3. PICK L : L = line \cup u.lines
  OBVIOUS
<1>4. PICK F : F = Fresh(r)
  OBVIOUS
<1>5. F = {m \in u.batch : Payload[m].ident => \A l \in L : l.movement # m}
  BY <1>1, <1>3, <1>4 DEF Fresh, VisibleLines
<1>6. ASSUME NEW m \in u.batch \ F PROVE Entered(L, m)
  <2>1. PICK l \in L : l.movement = m
    BY <1>5, <1>6
  <2>2. RightAmount(l)
    BY <1>2, <1>3 DEF FeedInv, TaskFormed
  <2> QED BY <2>1, <2>2 DEF Entered
<1>7. ~chosen' => /\ Underway(u, s)
                  /\ BookedIn({u.account}, u.from, u.to - 1) \subseteq u.batch
                  /\ u.batch \subseteq BookedIn({u.account}, u.from, u.to)
  BY <1>1, <1>2 DEF SyncSound, Underway
<1>8. ASSUME NEW ms \in SUBSET u.batch
      PROVE  /\ Latest(u.latest, ms) \in Date
             /\ ~chosen' => (Latest(u.latest, ms) # Nil => Latest(u.latest, ms) <= u.to)
  <2>1. ms \in SUBSET Booked /\ u.to \in Int
    BY <1>2
  <2>2. ~chosen' => \A m \in ms : booked[m] <= u.to
    <3> SUFFICES ASSUME ~chosen', NEW m \in ms PROVE booked[m] <= u.to
      OBVIOUS
    <3>1. m \in Booked /\ booked[m] \in u.from..u.to
      BY <1>7 DEF BookedIn
    <3>2. booked[m] \in Int /\ u.from \in Int
      BY <1>2, <3>1 DEF FeedInv, FeedTypeOK, Booked, FeedTask
    <3> QED BY <2>1, <3>1, <3>2
  <2>3. ~chosen' => (u.latest # Nil => u.latest <= u.to)
    BY <1>7 DEF Underway
  <2> QED BY <1>2, <2>1, <2>2, <2>3, LatestOf
<1>9. CASE F = {}
  <2>1. PICK k : k = Latest(u.latest, u.batch)
    OBVIOUS
  <2>2. PICK v : v = [u EXCEPT !.latest = k]
    OBVIOUS
  <2>3. Continue(r, AccountDone(v))
    BY <1>1, <1>4, <1>9, <2>1, <2>2 DEF ReadExisting
  <2>4. k \in Date /\ (~chosen' => (k # Nil => k <= u.to))
    BY <1>8, <2>1
  <2>5. /\ v \in FeedTask /\ v.latest = k /\ v.todo = u.todo /\ v.put = u.put /\ v.lines = u.lines
        /\ v.op = u.op /\ v.statements = u.statements /\ v.conn = u.conn
        /\ v.from = u.from /\ v.to = u.to /\ v.account = u.account
    BY <1>2, <2>2, <2>4 DEF FeedTask
  <2>6. ~chosen' => Covers(line \cup v.lines, {v.account}, v.from, v.to - 1)
    BY <1>3, <1>6, <1>7, <1>9, <2>5 DEF Covers
  <2>7. ~chosen' => Underway(v, s)
    BY <1>7, <2>4, <2>5 DEF Underway
  <2>8. \A l \in v.lines : RightAmount(l)
    BY <1>2, <2>5 DEF TaskFormed
  <2>9. ~crossed => OnceIn(line \cup v.lines, statement \cup v.statements)
    BY <1>1, <2>5, TaskKnown DEF OnceSound
  <2>10. v.op \in {"SYNC", "DAILY"} /\ v.conn \in Connections /\ v.to \in 1..LastDay
    BY <1>2, <2>5
  <2>11. Ready(AccountDone(v), s) /\ AccountDone(v).pc \in Stage
    BY <2>5, <2>6, <2>7, <2>8, <2>9, <2>10, AccountDoneReady
  <2> QED BY <2>3, <2>11
<1>10. CASE F # {}
  <2>1. PICK k : k = Latest(u.latest, F)
    OBVIOUS
  <2>2. PICK t : t = [u EXCEPT !.pc = "lines", !.fresh = F, !.latest = k]
    OBVIOUS
  <2>3. Continue(r, t)
    BY <1>1, <1>4, <1>10, <2>1, <2>2 DEF ReadExisting
  <2>4. k \in Date /\ (~chosen' => (k # Nil => k <= u.to))
    BY <1>5, <1>8, <2>1
  <2>5. /\ t \in FeedTask /\ t.pc = "lines" /\ t.fresh = F /\ t.batch = u.batch
        /\ t.latest = k /\ t.todo = u.todo /\ t.put = u.put /\ t.lines = u.lines
        /\ t.op = u.op /\ t.statements = u.statements /\ t.conn = u.conn
        /\ t.from = u.from /\ t.to = u.to /\ t.account = u.account
    <3>1. F \in SUBSET Movement
      BY <1>2, <1>5
    <3> QED BY <1>2, <2>2, <2>4, <3>1 DEF FeedTask, Stage
  <2>6. TaskFormed(t)
    BY <1>2, <1>5, <1>10, <2>5 DEF TaskFormed, Stage
  <2>7. ~chosen' => SyncSound(t, s)
    BY <1>3, <1>5, <1>6, <1>7, <2>4, <2>5 DEF SyncSound, Underway
  <2>8. ~crossed => OnceSound(t)
    BY <1>1, <1>3, <1>5, <2>5, TaskKnown DEF OnceSound
  <2> QED BY <2>3, <2>5, <2>6, <2>7, <2>8 DEF Ready, Stage
<1> QED BY <1>9, <1>10

(* The amount of a movement is a number. *)
LEMMA AmountType ==
    ASSUME NEW m \in Movement
    PROVE  parseTransactionAmount(Payload[m]) \in Int
<1>1. Payload[m] \in [account : Account, ident : BOOLEAN, value : Int, debit : BOOLEAN]
  BY BankFeedConstants
<1>2. PICK k : k = Payload[m].value
  OBVIOUS
<1>3. k \in Int /\ -k \in Int
  BY <1>1, <1>2
<1>4. (IF k < 0 THEN -k ELSE k) \in Int
  BY <1>3
<1>5. PICK n : n = IF k < 0 THEN -k ELSE k
  OBVIOUS
<1>6. -n \in Int /\ n \in Int
  BY <1>4, <1>5
<1>7. parseTransactionAmount(Payload[m]) = IF Payload[m].debit THEN -n ELSE n
  BY <1>2, <1>5 DEF parseTransactionAmount
<1> QED BY <1>6, <1>7

(* The lines of a day join those of the days before it. *)
LEMMA InsertReady ==
    ASSUME FeedInv, NEW r \in Task, NEW s \in Int, ~chosen' => SyncSound(task[r], s), InsertLines(r)
    PROVE  \E t : Ready(t, s) /\ t.pc \in Stage /\ Continue(r, t)
<1>1. PICK u : u = task[r]
  OBVIOUS
<1>2. /\ u \in FeedTask /\ TaskFormed(u) /\ u.pc = "lines" /\ u.op \in {"SYNC", "DAILY"}
      /\ u.fresh \subseteq Booked /\ u.fresh # {} /\ u.conn \in Connections /\ u.to \in 1..LastDay
      /\ u.account \in Account /\ Booked \subseteq Movement
      /\ u.lines \in SUBSET LineRow /\ u.statements \in SUBSET StatementRow
  BY <1>1, TaskKnown DEF InsertLines, Stands, TaskFormed, Stage, FeedTask, Booked
<1>3. PICK d : d = Min({booked[m] : m \in u.fresh})
  OBVIOUS
<1>4. d \in 1..LastDay
  <2> DEFINE S == {booked[m] : m \in u.fresh}
  <2>1. \A m \in u.fresh : booked[m] \in 1..LastDay
    BY <1>2, BankFeedConstants DEF FeedInv, FeedTypeOK, Booked
  <2>2. S \in SUBSET (1..LastDay) /\ S # {} /\ \A x \in S : x \in Int
    BY <1>2, <2>1
  <2>3. d = Min(S)
    BY <1>3
  <2>4. IsFiniteSet(1..LastDay)
    BY BankFeedConstants, FS_Interval
  <2> HIDE DEF S
  <2>5. IsFiniteSet(S)
    BY <2>2, <2>4, FS_Subset
  <2>6. Min(S) \in S
    BY <2>2, <2>5, MinOf
  <2> QED BY <2>2, <2>3, <2>6
<1>5. PICK ms : ms = {m \in u.fresh : booked[m] = d}
  OBVIOUS
<1>6. PICK new : new = {[movement |-> m, by |-> r, amount |-> parseTransactionAmount(Payload[m])] : m \in ms}
  OBVIOUS
<1>7. PICK made : made = IF {x \in VisibleStatements(r) : x.account = u.account /\ x.day = d} # {} THEN {}
                         ELSE {[account |-> u.account, day |-> d, by |-> r]}
  OBVIOUS
<1>8. PICK rest : rest = [u EXCEPT !.fresh = @ \ ms, !.statements = @ \cup made, !.lines = @ \cup new]
  OBVIOUS
<1>9. Continue(r, IF u.fresh = ms THEN AccountDone(rest) ELSE rest)
  BY <1>1, <1>3, <1>5, <1>6, <1>7, <1>8 DEF InsertLines
<1>10. new \in SUBSET LineRow /\ \A l \in new : RightAmount(l)
  BY <1>2, <1>5, <1>6, AmountType DEF LineRow, RightAmount
<1>11. made \in SUBSET StatementRow
  BY <1>2, <1>4, <1>7 DEF StatementRow
<1>12. /\ rest \in FeedTask /\ rest.pc = "lines" /\ rest.fresh = u.fresh \ ms /\ rest.batch = u.batch
       /\ rest.latest = u.latest /\ rest.todo = u.todo /\ rest.put = u.put
       /\ rest.lines = u.lines \cup new /\ rest.statements = u.statements \cup made
       /\ rest.op = u.op /\ rest.conn = u.conn /\ rest.from = u.from /\ rest.to = u.to
       /\ rest.account = u.account
  <2>1. PICK l : l = u.lines \cup new
    OBVIOUS
  <2>2. PICK x : x = u.statements \cup made
    OBVIOUS
  <2>3. PICK f : f = u.fresh \ ms
    OBVIOUS
  <2>4. l \in SUBSET LineRow /\ x \in SUBSET StatementRow /\ f \in SUBSET Movement
    BY <1>2, <1>10, <1>11, <2>1, <2>2, <2>3
  <2>5. rest = [u EXCEPT !.fresh = f, !.statements = x, !.lines = l]
    BY <1>8, <2>1, <2>2, <2>3
  <2> QED BY <1>2, <2>1, <2>2, <2>3, <2>4, <2>5 DEF FeedTask
<1>13. \A l \in rest.lines : RightAmount(l)
  BY <1>2, <1>10, <1>12 DEF TaskFormed
<1>14. PICK L : L = line \cup u.lines
  OBVIOUS
<1>15. PICK L2 : L2 = line \cup rest.lines
  OBVIOUS
<1>16. L2 = L \cup new
  BY <1>12, <1>14, <1>15
<1>17. \A m \in ms : Entered(L2, m)
  BY <1>6, <1>10, <1>16 DEF Entered
<1>18. \A m : Entered(L, m) => Entered(L2, m)
  BY <1>16 DEF Entered
<1>19. ~chosen' => /\ Underway(u, s)
                   /\ \A m \in BookedIn({u.account}, u.from, u.to - 1) \ u.fresh : Entered(L, m)
                   /\ u.fresh \subseteq BookedIn({u.account}, u.from, u.to)
  BY <1>1, <1>2, <1>14 DEF SyncSound, Underway
<1>20. ~chosen' => Underway(rest, s)
  <2>1. \A A, lo, hi : Covers(L, A, lo, hi) => Covers(L2, A, lo, hi)
    BY <1>18 DEF Covers
  <2> QED BY <1>12, <1>14, <1>15, <1>19, <2>1 DEF Underway
<1>21. ~chosen' => \A m \in BookedIn({rest.account}, rest.from, rest.to - 1) \ rest.fresh : Entered(L2, m)
  BY <1>5, <1>12, <1>17, <1>18, <1>19
<1>22. ASSUME ~crossed
       PROVE  /\ OnceIn(L2, statement \cup rest.statements)
              /\ \A m \in rest.fresh : Payload[m].ident => \A l \in L2 : l.movement # m
  <2>1. /\ OnceIn(L, statement \cup u.statements)
        /\ \A m \in u.fresh : Payload[m].ident => \A l \in L : l.movement # m
    BY <1>1, <1>2, <1>14, <1>22, TaskKnown DEF OnceSound
  <2>2. \A l \in new : /\ l.movement \in ms
                       /\ l = [movement |-> l.movement, by |-> r,
                               amount |-> parseTransactionAmount(Payload[l.movement])]
    BY <1>6
  <2>3. ASSUME NEW k \in L2, NEW l \in L2, k.movement = l.movement, Payload[k.movement].ident PROVE k = l
    <3>1. CASE k \in new /\ l \in new
      BY <2>2, <2>3, <3>1
    <3>2. CASE k \in new /\ l \in L
      BY <1>5, <2>1, <2>2, <2>3, <3>2
    <3>3. CASE k \in L /\ l \in new
      BY <1>5, <2>1, <2>2, <2>3, <3>3
    <3>4. CASE k \in L /\ l \in L
      BY <2>1, <2>3, <3>4 DEF OnceIn
    <3> QED BY <1>16, <3>1, <3>2, <3>3, <3>4
  <2>4. PICK S : S = statement \cup u.statements
    OBVIOUS
  <2>5. PICK S2 : S2 = statement \cup rest.statements
    OBVIOUS
  <2>6. S2 = S \cup made
    BY <1>12, <2>4, <2>5
  <2>7. ASSUME NEW x \in S2, NEW y \in S2, x.account = y.account, x.day = y.day PROVE x = y
    <3>1. VisibleStatements(r) = S
      BY <1>1, <2>4 DEF VisibleStatements
    <3>2. CASE made = {}
      BY <2>1, <2>4, <2>6, <2>7, <3>2 DEF OnceIn
    <3>3. CASE made # {}
      <4>1. /\ made = {[account |-> u.account, day |-> d, by |-> r]}
            /\ \A z \in S : ~(z.account = u.account /\ z.day = d)
        BY <1>7, <3>1, <3>3
      <4> QED BY <2>1, <2>4, <2>6, <2>7, <4>1 DEF OnceIn
    <3> QED BY <3>2, <3>3
  <2>8. \A m \in rest.fresh : Payload[m].ident => \A l \in L2 : l.movement # m
    BY <1>12, <1>16, <2>1, <2>2
  <2> QED BY <2>3, <2>5, <2>7, <2>8 DEF OnceIn
<1>23. CASE u.fresh = ms
  <2>1. ~chosen' => Covers(line \cup rest.lines, {rest.account}, rest.from, rest.to - 1)
    BY <1>12, <1>15, <1>21, <1>23 DEF Covers
  <2>2. ~crossed => OnceIn(line \cup rest.lines, statement \cup rest.statements)
    BY <1>15, <1>22
  <2>3. rest.op \in {"SYNC", "DAILY"} /\ rest.conn \in Connections /\ rest.to \in 1..LastDay
    BY <1>2, <1>12
  <2>4. Ready(AccountDone(rest), s) /\ AccountDone(rest).pc \in Stage
    BY <1>12, <1>13, <1>20, <2>1, <2>2, <2>3, AccountDoneReady
  <2> QED BY <1>9, <1>23, <2>4
<1>24. CASE u.fresh # ms
  <2>1. TaskFormed(rest)
    BY <1>2, <1>5, <1>12, <1>13, <1>24 DEF TaskFormed, Stage
  <2>2. ~chosen' => SyncSound(rest, s)
    BY <1>12, <1>15, <1>19, <1>20, <1>21 DEF SyncSound, Underway
  <2>3. ~crossed => OnceSound(rest)
    BY <1>15, <1>22 DEF OnceSound
  <2> QED BY <1>9, <1>12, <1>24, <2>1, <2>2, <2>3 DEF Ready, Stage
<1> QED BY <1>23, <1>24

(* The cursor moves to a day up to which everything is seen to. *)
LEMMA FinishReady ==
    ASSUME FeedInv, NEW r \in Task, NEW s \in Int, ~chosen' => SyncSound(task[r], s), FinishSync(r)
    PROVE  \E t : Ready(t, s) /\ t.pc \in Stage /\ Continue(r, t)
<1>1. PICK u : u = task[r]
  OBVIOUS
<1>2. /\ u \in FeedTask /\ TaskFormed(u) /\ u.pc = "finish" /\ u.op \in {"SYNC", "DAILY"}
      /\ u.conn \in Connections /\ u.to \in 1..LastDay /\ u.latest \in Date /\ u.put \in Patches
      /\ u.from \in Int /\ u.to \in Int /\ day \in 1..LastDay /\ booked \in [Movement -> 1..day \cup {Nil}]
  BY <1>1, TaskKnown DEF FinishSync, Stands, TaskFormed, Stage, FeedTask, FeedInv, FeedTypeOK
<1>3. PICK k : k = Cursor(u)
  OBVIOUS
<1>4. k \in 1..LastDay /\ (~chosen' => (u.latest # Nil => u.latest <= u.to))
  BY <1>1, <1>2, <1>3 DEF Cursor, Date, SyncSound
<1>5. ~chosen' => k <= u.to
  BY <1>2, <1>3, <1>4 DEF Cursor
<1>6. PICK n : n = [status |-> "ACTIVE", synced |-> day, cursor |-> k]
  OBVIOUS
<1>7. n \in [status : Status, cursor : Date, synced : Date] /\ n.cursor = k
  BY <1>2, <1>4, <1>6 DEF Status, Date
<1>8. PICK p : p = Patched(u.put, n)
  OBVIOUS
<1>9. p \in Patches /\ p.cursor = k
  <2>1. PICK old : old = u.put
    OBVIOUS
  <2> QED BY <1>2, <1>7, <1>8, <2>1, PatchedCursor
<1>10. PICK t : t = [u EXCEPT !.pc = "success", !.put = p]
  OBVIOUS
<1>11. /\ t \in FeedTask /\ t.pc = "success" /\ t.fresh = u.fresh /\ t.batch = u.batch
       /\ t.put = p /\ t.lines = u.lines /\ t.statements = u.statements
       /\ t.op = u.op /\ t.conn = u.conn
  BY <1>2, <1>9, <1>10 DEF FeedTask, Stage
<1>12. Continue(r, t)
  BY <1>1, <1>3, <1>6, <1>8, <1>10 DEF FinishSync
<1>13. TaskFormed(t)
  BY <1>2, <1>11 DEF TaskFormed, Stage
<1>14. ASSUME ~chosen' PROVE k <= day /\ Covers(line \cup u.lines, pickAccounts(u.conn), s, k - 1)
  <2>1. PICK L : L = line \cup u.lines
    OBVIOUS
  <2>2. PICK A : A = pickAccounts(u.conn)
    OBVIOUS
  <2>3. /\ u.to <= day /\ Covers(L, A, s, u.from - 1)
        /\ Covers(L, A, u.from, u.to - 1)
    <3>1. u.todo = {} /\ A \ {} = A
      BY <1>1, <1>2, <1>14 DEF SyncSound
    <3> QED BY <1>1, <1>2, <1>14, <2>1, <2>2, <3>1 DEF SyncSound
  <2>4. k <= day
    BY <1>2, <1>4, <1>5, <1>14, <2>3
  <2>5. ASSUME NEW m \in BookedIn(A, s, k - 1) PROVE Entered(L, m)
    <3>1. booked[m] \in Int /\ booked[m] \in s..(k - 1)
      BY <1>2 DEF BookedIn, Booked
    <3>2. booked[m] \in s..(u.from - 1) \/ booked[m] \in u.from..(u.to - 1)
      BY <1>2, <1>4, <1>5, <1>14, <3>1
    <3>3. m \in BookedIn(A, s, u.from - 1) \/ m \in BookedIn(A, u.from, u.to - 1)
      BY <3>2 DEF BookedIn
    <3> QED BY <2>3, <3>3 DEF Covers
  <2> QED BY <2>1, <2>2, <2>4, <2>5 DEF Covers
<1>15. ~chosen' => SyncSound(t, s)
  BY <1>9, <1>11, <1>14 DEF SyncSound
<1>16. ~crossed => OnceSound(t)
  BY <1>1, <1>11, TaskKnown DEF OnceSound
<1> QED BY <1>11, <1>12, <1>13, <1>15, <1>16 DEF Ready, Stage

(* The ends of the try and of the catch. *)
LEMMA MarkReady ==
    ASSUME FeedInv, NEW r \in Task, NEW s \in Int, ~chosen' => SyncSound(task[r], s),
           MarkSuccess(r) \/ MarkError(r) \/ MarkFailed(r)
    PROVE  \/ \E t : Ready(t, s) /\ t.pc \in Stage /\ Continue(r, t)
           \/ CloseTask(r) /\ UNCHANGED <<conn, statement, line, booked, day, due>>
<1>1. PICK u : u = task[r]
  OBVIOUS
<1>2. /\ u \in FeedTask /\ TaskFormed(u) /\ u.op \in {"SYNC", "DAILY"} /\ u.put \in Patches
      /\ u.pc \in {"success", "fail", "failed"}
  <2>1. u \in FeedTask /\ TaskFormed(u) /\ u.put \in Patches /\ u.pc \in {"success", "fail", "failed"}
    BY <1>1, TaskKnown DEF MarkSuccess, MarkError, MarkFailed, Stands
  <2> QED BY <2>1 DEF TaskFormed, Stage
<1>3. ASSUME NEW p \in Patches, NEW v \in {"RUNNING", "SUCCESS", "FAILED", Nil}, NEW label \in {"failed", "answer"},
             Continue(r, [u EXCEPT !.pc = label, !.put = p, !.run = v]),
             "cursor" \in DOMAIN p => "cursor" \in DOMAIN u.put /\ p.cursor = u.put.cursor
      PROVE  \E t : Ready(t, s) /\ t.pc \in Stage /\ Continue(r, t)
  <2>1. PICK t : t = [u EXCEPT !.pc = label, !.put = p, !.run = v]
    OBVIOUS
  <2>2. /\ t \in FeedTask /\ t.pc = label /\ t.put = p /\ t.lines = u.lines /\ t.op = u.op
        /\ t.statements = u.statements /\ t.conn = u.conn /\ t.batch = u.batch /\ t.fresh = u.fresh
    BY <1>2, <2>1 DEF FeedTask, Stage
  <2>3. TaskFormed(t)
    BY <1>2, <2>2 DEF TaskFormed, Stage
  <2>4. Ready(t, s)
    BY <1>1, <1>3, <2>2, <2>3, PlainReady
  <2> QED BY <1>3, <2>1, <2>2, <2>4 DEF Stage
<1>4. ASSUME NEW verdict \in {"SUCCESS", "FAILED"}, EndRun(r, verdict)
      PROVE  \/ \E t : Ready(t, s) /\ t.pc \in Stage /\ Continue(r, t)
             \/ CloseTask(r) /\ UNCHANGED <<conn, statement, line, booked, day, due>>
  <2>1. CASE Daily(r)
    BY <1>4, <2>1 DEF EndRun, World
  <2>2. CASE ~Daily(r)
    <3>1. [u EXCEPT !.pc = "answer", !.run = verdict] = [u EXCEPT !.pc = "answer", !.put = u.put, !.run = verdict]
      BY <1>2 DEF FeedTask
    <3> QED BY ZenonT(60), <1>1, <1>2, <1>3, <1>4, <2>2, <3>1 DEF EndRun
  <2> QED BY <2>1, <2>2
<1>5. CASE MarkError(r)
  <2>1. PICK n : n = [status |-> "ERROR"]
    OBVIOUS
  <2>2. n \in [status : Status]
    BY <2>1 DEF Status
  <2>3. PICK old : old = u.put
    OBVIOUS
  <2>4. PICK p : p = Patched(old, n)
    OBVIOUS
  <2>5. p \in Patches /\ ("cursor" \in DOMAIN p => "cursor" \in DOMAIN u.put /\ p.cursor = u.put.cursor)
    BY <1>2, <2>2, <2>3, <2>4, PatchedStatus
  <2>6. Continue(r, [u EXCEPT !.pc = "failed", !.put = p])
    BY <1>1, <1>5, <2>1, <2>3, <2>4 DEF MarkError
  <2>7. /\ [u EXCEPT !.pc = "failed", !.put = p] = [u EXCEPT !.pc = "failed", !.put = p, !.run = u.run]
        /\ u.run \in {"RUNNING", "SUCCESS", "FAILED", Nil}
    BY <1>2 DEF FeedTask
  <2> QED BY <1>3, <2>5, <2>6, <2>7
<1>6. CASE MarkSuccess(r)
  BY <1>4, <1>6 DEF MarkSuccess
<1>7. CASE MarkFailed(r)
  BY <1>4, <1>7 DEF MarkFailed
<1> QED BY <1>5, <1>6, <1>7

(* What a synchronisation reads when it begins: its window and the tokens. *)
LEMMA ReadRecord ==
    ASSUME FeedInv, NEW r \in Task, ReadConnection(r), ~RejectTask(r)
    PROVE  \E t \in FeedTask :
              /\ Continue(r, t) /\ t.pc = "token" /\ t.from <= t.to
              /\ t.op = task[r].op /\ t.conn = task[r].conn /\ t.conn \in Connections
              /\ t.lines = task[r].lines /\ t.statements = task[r].statements /\ t.put = task[r].put
              /\ TaskFormed(t)
<1>1. PICK u : u = task[r]
  OBVIOUS
<1>2. /\ u \in FeedTask /\ TaskFormed(u) /\ u.pc = "read" /\ u.op \in {"SYNC", "DAILY"}
      /\ u.conn \in Connections /\ u.latest = Nil
  BY <1>1, TaskKnown DEF ReadConnection, Syncing, Stands, TaskFormed, Stage
<1>3. PICK row : row = conn[u.conn]
  OBVIOUS
<1>4. row \in ConnectionRow
  BY <1>2, <1>3 DEF FeedInv, FeedTypeOK, Connections
<1> DEFINE Opens(asked, to, from) ==
         /\ to = IF asked[2] = Nil THEN day ELSE asked[2]
         /\ from = IF asked[1] = Nil THEN DefaultFrom(row, to) ELSE asked[1]
         /\ from <= to
         /\ Continue(r, [u EXCEPT !.pc = "token", !.from = from, !.to = to, !.token = row.token,
                                  !.refresh = row.refresh, !.run = "RUNNING"])
<1>5. PICK asked \in AskedWindow(r) : \E to, from : Opens(asked, to, from)
  BY <1>1, <1>3 DEF ReadConnection
<1>6. PICK to, from : Opens(asked, to, from)
  BY <1>5
<1>7. Opens(asked, to, from)
  BY <1>6
<1>8. to \in 1..LastDay
  BY <1>7, BankFeedConstants DEF AskedWindow, Date, FeedInv, FeedTypeOK
<1>9. from \in 0..LastDay
  <2>1. asked[1] \in Date /\ row.cursor \in Date
    BY <1>4, BankFeedConstants DEF AskedWindow, ConnectionRow
  <2>2. to - 1 \in 0..LastDay
    BY <1>8, BankFeedConstants
  <2>3. DefaultFrom(row, to) \in 0..LastDay
    BY <2>1, <2>2, BankFeedConstants DEF DefaultFrom, Date
  <2> QED BY <1>7, <2>1, <2>3, BankFeedConstants DEF Date
<1>10. PICK tok, ref : tok = row.token /\ ref = row.refresh
  OBVIOUS
<1>11. PICK t : t = [u EXCEPT !.pc = "token", !.from = from, !.to = to, !.token = tok,
                      !.refresh = ref, !.run = "RUNNING"]
  OBVIOUS
<1>12. /\ t \in FeedTask /\ t.pc = "token" /\ t.from = from /\ t.to = to
       /\ t.put = u.put /\ t.lines = u.lines /\ t.op = u.op /\ t.latest = Nil
       /\ t.statements = u.statements /\ t.conn = u.conn /\ t.batch = u.batch /\ t.fresh = u.fresh
  <2>1. tok \in Flag /\ ref \in Flag
    BY <1>4, <1>10, Zenon DEF ConnectionRow, Flag
  <2>2. to \in 0..LastDay
    BY <1>8
  <2> QED BY ZenonT(60), <1>2, <1>9, <1>11, <2>1, <2>2 DEF FeedTask, Stage
<1>13. TaskFormed(t)
  BY <1>2, <1>8, <1>12 DEF TaskFormed, Stage
<1> QED BY ZenonT(60), <1>1, <1>2, <1>7, <1>10, <1>11, <1>12, <1>13

(* A window that begins at the cursor, or late enough for the properties. *)
LEMMA ReadReady ==
    ASSUME FeedInv, NEW r \in Task, ReadConnection(r), NEW s2 \in Int, since <= s2,
           chosen' \in BOOLEAN, chosen => chosen',
           \A q \in Opening : ~chosen' =>
               task'[q].from = DefaultFrom(conn[task[q].conn], day) /\ task'[q].to = day,
           \A q \in First : task'[q].from <= s2
    PROVE  RejectTask(r) \/ \E t : Ready(t, s2) /\ t.pc \in Stage /\ Continue(r, t)
<1> SUFFICES ASSUME ~RejectTask(r)
             PROVE  \E t : Ready(t, s2) /\ t.pc \in Stage /\ Continue(r, t)
  OBVIOUS
<1>1. PICK t \in FeedTask :
         /\ Continue(r, t) /\ t.pc = "token" /\ t.from <= t.to
         /\ t.op = task[r].op /\ t.conn = task[r].conn /\ t.conn \in Connections
         /\ t.lines = task[r].lines /\ t.statements = task[r].statements /\ t.put = task[r].put
         /\ TaskFormed(t)
  BY ReadRecord
<1>2. ~crossed => OnceSound(t)
  BY <1>1, TaskKnown DEF OnceSound
<1>3. task'[r].pc = "token" /\ task'[r].from = t.from /\ task'[r].to = t.to /\ task[r].pc = "read"
  <2>1. task \in [Task -> FeedTask] /\ task[r].pc = "read"
    BY DEF FeedInv, FeedTypeOK, ReadConnection, Stands
  <2>2. CASE t.op = "DAILY"
    <3>1. task'[r] = Flushed(t)
      BY <1>1, <2>1, <2>2 DEF Continue
    <3> QED BY <1>1, <2>1, <3>1 DEF Flushed, FeedTask
  <2>3. CASE t.op # "DAILY"
    BY <1>1, <2>1, <2>3 DEF Continue
  <2> QED BY <2>2, <2>3
<1>4. ASSUME ~chosen' PROVE SyncSound(t, s2)
  <2>1. PICK row : row = conn[t.conn]
    OBVIOUS
  <2>2. /\ row \in ConnectionRow /\ row.cursor \in Date /\ day \in 1..LastDay /\ day \in Int
        /\ since \in Int /\ booked \in [Movement -> 1..day \cup {Nil}]
    BY <1>1, <2>1, BankFeedConstants DEF FeedInv, FeedTypeOK, Connections, ConnectionRow
  <2>3. r \in Opening
    BY <1>3 DEF Opening
  <2>4. t.from = DefaultFrom(row, day) /\ t.to = day
    BY <1>1, <1>3, <1>4, <2>1, <2>3
  <2>5. Covers(line \cup t.lines, pickAccounts(t.conn), s2, t.from - 1)
    <3>1. CASE row.cursor = Nil
      <4>1. t.from <= s2 /\ t.from \in Int
        <5>1. r \in First
          BY <1>1, <2>1, <2>3, <3>1 DEF First
        <5>2. t.from = day - 1
          BY <2>4, <3>1 DEF DefaultFrom
        <5> QED BY <1>3, <2>2, <5>1, <5>2
      <4> SUFFICES ASSUME NEW m \in BookedIn(pickAccounts(t.conn), s2, t.from - 1) PROVE FALSE
        BY DEF Covers
      <4>2. booked[m] \in Int /\ booked[m] \in s2..(t.from - 1)
        BY <2>2 DEF BookedIn, Booked
      <4> QED BY <4>1, <4>2
    <3>2. CASE row.cursor # Nil
      <4>1. t.from = row.cursor /\ row.cursor \in Int
        BY <2>2, <2>4, <3>2 DEF DefaultFrom, Date
      <4>2. Covers(line, pickAccounts(t.conn), since, row.cursor - 1)
        BY <1>1, <1>4, <2>1, <3>2 DEF FeedInv, CursorSound
      <4> SUFFICES ASSUME NEW m \in BookedIn(pickAccounts(t.conn), s2, t.from - 1)
                   PROVE  Entered(line \cup t.lines, m)
        BY DEF Covers
      <4>3. booked[m] \in Int /\ booked[m] \in s2..(t.from - 1)
        BY <2>2 DEF BookedIn, Booked
      <4>4. m \in BookedIn(pickAccounts(t.conn), since, row.cursor - 1)
        BY <2>2, <4>1, <4>3 DEF BookedIn
      <4> QED BY <4>2, <4>4 DEF Covers, Entered
    <3> QED BY <3>1, <3>2
  <2>6. "cursor" \in DOMAIN t.put /\ t.put.cursor # Nil =>
            /\ t.put.cursor <= day
            /\ Covers(line \cup t.lines, pickAccounts(t.conn), s2, t.put.cursor - 1)
    <3>1. ~chosen
      BY <1>4
    <3>2. SyncSound(task[r], s2)
      BY <3>1, SyncLater
    <3> QED BY <1>1, <3>2 DEF SyncSound
  <2>7. t.from <= t.to /\ t.to \in 1..day
    BY <1>1, <2>2, <2>4
  <2> QED BY <1>1, <2>5, <2>6, <2>7 DEF SyncSound
<1> QED BY <1>1, <1>2, <1>4 DEF Ready, Stage

-----------------------------------------------------------------------------
(* Every step is one of a task, an end, or one of the world. *)

(* The scheduler begins a synchronisation. *)
BeginsDaily(r, t) ==
    /\ task' = [task EXCEPT ![r] = t] /\ t.pc = "read"
    /\ UNCHANGED <<conn, statement, line, booked, day>> /\ due' \in SUBSET (Connections \X Date)

Ends(r) == /\ r \in Ongoing /\ CloseTask(r) /\ UNCHANGED <<booked, day, due>>
           /\ Apply(task[r], r) \/ UNCHANGED <<conn, statement, line>>

Passes == /\ Grows /\ UNCHANGED <<conn, statement, line, task>>
          /\ day' \in 1..LastDay /\ due' \in SUBSET (Connections \X Date)

(* A synchronisation that is rejected ends. *)
LEMMA RejectEnds ==
    ASSUME NEW r \in Ongoing, RejectTask(r)
    PROVE  Ends(r)
BY DEF RejectTask, Ends, rows, World

(* What the steps of a request are: it goes on, ends or reads its connection. *)
LEMMA TaskSteps ==
    ASSUME FeedInv, NEW r \in Task, NEW s \in Int, ~chosen' => SyncSound(task[r], s),
           Begin(r) \/ WriteConnection(r) \/ WriteStatus(r) \/ WriteToken(r) \/ WriteFile(r)
           \/ Sync(r) \/ CommitTask(r) \/ DropClient(r) \/ Abort(r)
    PROVE  \/ \E t : Ready(t, s) /\ t.pc \in Stage /\ Continue(r, t)
           \/ Ends(r)
           \/ ReadConnection(r)
<1>1. CASE Begin(r)
  BY <1>1, BeginReady
<1>2. CASE WriteConnection(r) \/ WriteStatus(r) \/ WriteToken(r) \/ WriteFile(r)
  <2>1. r \in Ongoing
    BY <1>2 DEF WriteConnection, WriteStatus, WriteToken, WriteFile, Stands, Ongoing, Stage
  <2>2. CASE RejectTask(r)
    BY <2>1, <2>2, RejectEnds
  <2>3. CASE \E t : Ready(t, s) /\ t.pc \in Stage /\ Continue(r, t)
    BY <2>3
  <2> QED BY <1>2, <2>2, <2>3, WriteReady
<1>3. CASE Sync(r)
  <2>1. CASE EnsureToken(r)
    BY <2>1, TokenReady
  <2>2. CASE FetchTransactions(r)
    BY <2>2, FetchReady
  <2>3. CASE ReadExisting(r)
    BY <2>3, ExistingReady
  <2>4. CASE InsertLines(r)
    BY <2>4, InsertReady
  <2>5. CASE FinishSync(r)
    BY <2>5, FinishReady
  <2>6. CASE MarkSuccess(r) \/ MarkError(r) \/ MarkFailed(r)
    <3>1. r \in Ongoing
      BY <2>6 DEF MarkSuccess, MarkError, MarkFailed, Stands, Ongoing, Stage
    <3>2. CASE CloseTask(r) /\ UNCHANGED <<conn, statement, line, booked, day, due>>
      BY <3>1, <3>2 DEF Ends
    <3>3. CASE \E t : Ready(t, s) /\ t.pc \in Stage /\ Continue(r, t)
      BY <3>3
    <3> QED BY <2>6, <3>2, <3>3, MarkReady
  <2> QED BY <1>3, <2>1, <2>2, <2>3, <2>4, <2>5, <2>6 DEF Sync
<1>4. CASE CommitTask(r) \/ DropClient(r) \/ Abort(r)
  <2>1. r \in Ongoing
    BY <1>4 DEF CommitTask, DropClient, Abort, Stands, Ongoing, Stage
  <2> QED BY <1>4, <2>1 DEF CommitTask, DropClient, Abort, Ends, rows, World
<1> QED BY <1>1, <1>2, <1>3, <1>4

(* What the steps of the schedule are: it begins a synchronisation, or no row
   changes. *)
LEMMA ScheduleSteps ==
    ASSUME FeedInv, NEW r \in Task, NEW s \in Int, ~chosen' => SyncSound(task[r], s), NextDue(r)
    PROVE  (\E t : Ready(t, s) /\ BeginsDaily(r, t)) \/ Passes
<1>1. PICK p \in due :
         /\ due' = due \ {p} /\ UNCHANGED <<rows, booked, day, fired, restarts>>
         /\ \/ /\ task[r].pc = "idle"
               /\ task' = [task EXCEPT ![r] = [NewTask("read") EXCEPT !.op = "DAILY", !.conn = p[1]]]
            \/ task' = task
  BY DEF NextDue
<1>2. /\ p[1] \in Connections /\ due' \in SUBSET (Connections \X Date)
      /\ UNCHANGED <<conn, statement, line, booked, day>>
      /\ Connections \subseteq Connection
  BY <1>1 DEF FeedInv, FeedTypeOK, rows, Connections
<1>3. CASE task' = task
  BY <1>2, <1>3, BankFeedConstants DEF Passes, Grows, FeedInv, FeedTypeOK
<1>4. CASE /\ task[r].pc = "idle"
           /\ task' = [task EXCEPT ![r] = [NewTask("read") EXCEPT !.op = "DAILY", !.conn = p[1]]]
  <2>1. PICK n : n = NewTask("read")
    OBVIOUS
  <2>2. PICK c : c = p[1]
    OBVIOUS
  <2>3. PICK t : t = [n EXCEPT !.op = "DAILY", !.conn = c]
    OBVIOUS
  <2>4. /\ n \in FeedTask /\ n.pc = "read" /\ n.put = NoColumns /\ n.lines = {} /\ n.latest = Nil
        /\ n.statements = {} /\ n.batch = {} /\ n.fresh = {}
    BY <2>1, NewTaskType DEF Stage, NewTask
  <2>5. /\ t \in FeedTask /\ t.pc = "read" /\ t.put = NoColumns /\ t.lines = {} /\ t.latest = Nil
        /\ t.statements = {} /\ t.batch = {} /\ t.fresh = {} /\ t.op = "DAILY" /\ t.conn = c
    BY ZenonT(60), <1>2, <2>2, <2>3, <2>4 DEF FeedTask
  <2>6. TaskFormed(t)
    BY <1>2, <2>2, <2>5 DEF TaskFormed, Stage
  <2>7. task[r].lines = {} /\ task[r].statements = {}
    BY <1>4 DEF FeedInv, TaskFormed
  <2>8. PICK u : u = task[r]
    OBVIOUS
  <2>9. Ready(t, s)
    BY <2>5, <2>6, <2>7, <2>8, NoColumnsEmpty, PlainReady
  <2>10. BeginsDaily(r, t)
    BY <1>2, <1>4, <2>1, <2>2, <2>3, <2>5 DEF BeginsDaily
  <2> QED BY <2>9, <2>10
<1> QED BY <1>1, <1>3, <1>4

(* The clock and the bank leave every row and every task alone. *)
LEMMA WorldSteps ==
    ASSUME FeedInv, Tick \/ NextDay \/ \E m \in Movement : Book(m)
    PROVE  Passes
<1>1. CASE Tick
  <2>1. due' \in SUBSET (Connections \X Date)
    <3>1. \A c \in Connections : conn[c].synced \in Date
      BY DEF FeedInv, FeedTypeOK, Connections, ConnectionRow
    <3> QED BY <1>1, <3>1 DEF Tick, FeedInv, FeedTypeOK
  <2> QED BY <1>1, <2>1, BankFeedConstants DEF Tick, Passes, Grows, rows, FeedInv, FeedTypeOK
<1>2. CASE NextDay
  BY <1>2, BankFeedConstants DEF NextDay, Passes, Grows, rows, FeedInv, FeedTypeOK
<1>3. ASSUME NEW m \in Movement, Book(m) PROVE Passes
  BY <1>3, BankFeedConstants DEF Book, Passes, Grows, rows, FeedInv, FeedTypeOK
<1> QED BY <1>1, <1>2, <1>3

(* The forms a step has, which the proofs split on. *)
LEMMA StepForms ==
    ASSUME FeedInv, FeedNext, NEW s \in Int, \A r \in Task : ~chosen' => SyncSound(task[r], s)
    PROVE  \/ \E r \in Task : \E t : Ready(t, s) /\ t.pc \in Stage /\ Continue(r, t)
           \/ \E r \in Task : \E t : Ready(t, s) /\ BeginsDaily(r, t)
           \/ \E r \in Task : Ends(r)
           \/ \E r \in Task : ReadConnection(r)
           \/ Passes
           \/ Restart
<1>1. ASSUME NEW r \in Task,
             Begin(r) \/ WriteConnection(r) \/ WriteStatus(r) \/ WriteToken(r) \/ WriteFile(r)
             \/ Sync(r) \/ CommitTask(r) \/ DropClient(r) \/ Abort(r)
      PROVE  \/ \E t : Ready(t, s) /\ t.pc \in Stage /\ Continue(r, t)
             \/ Ends(r)
             \/ ReadConnection(r)
  BY <1>1, TaskSteps
<1>2. ASSUME NEW r \in Task, NextDue(r)
      PROVE  (\E t : Ready(t, s) /\ BeginsDaily(r, t)) \/ Passes
  BY <1>2, ScheduleSteps
<1>3. Tick \/ NextDay \/ (\E m \in Movement : Book(m)) => Passes
  BY WorldSteps
<1> QED BY <1>1, <1>2, <1>3 DEF FeedNext

(* The first day of the windows to come only moves on, and is no earlier than
   that of a synchronisation that begins without a cursor. *)
LEMMA SinceMoves ==
    ASSUME FeedInv, NEW n \in Int, \A q \in First : task'[q].from = n,
           since' = Max({since} \cup {task'[q].from : q \in First})
    PROVE  since' \in Int /\ since <= since' /\ \A q \in First : task'[q].from <= since'
<1>1. PICK S : S = {since} \cup {task'[q].from : q \in First}
  OBVIOUS
<1>2. since \in Int
  BY DEF FeedInv
<1>3. S \subseteq {since, n} /\ since \in S /\ \A q \in First : task'[q].from \in S
  BY <1>1
<1>4. IsFiniteSet({since} \cup {n})
  BY FS_Singleton, FS_AddElement
<1>5. IsFiniteSet(S) /\ S # {} /\ \A x \in S : x \in Int
  <2>1. S \subseteq ({since} \cup {n})
    BY <1>3
  <2> QED BY <1>2, <1>3, <1>4, <2>1, FS_Subset
<1>6. Max(S) \in S /\ \A x \in S : x <= Max(S)
  BY <1>5, MaxOf
<1> QED BY <1>1, <1>3, <1>5, <1>6

(* Of the synchronisations at most one begins in a step. *)
LEMMA OneFirst ==
    ASSUME FeedInv, FeedNext, chosen => chosen'
    PROVE  \E n \in Int : \A q \in First : task'[q].from = n
<1>1. task \in [Task -> FeedTask] /\ since \in Int
  BY DEF FeedInv, FeedTypeOK
<1>2. ASSUME NEW r \in Task, NEW u \in FeedTask, task' = [task EXCEPT ![r] = u]
      PROVE  \E n \in Int : \A q \in First : task'[q].from = n
  <2>1. \A q \in First : q = r
    BY <1>1, <1>2 DEF First, Opening
  <2>2. u.from \in Int /\ task'[r] = u
    BY <1>1, <1>2 DEF FeedTask
  <2> QED BY <2>1, <2>2
<1>3. ASSUME NEW r \in Task, NEW t \in FeedTask, Continue(r, t)
      PROVE  \E n \in Int : \A q \in First : task'[q].from = n
  <2>1. PICK u : u = Flushed(t)
    OBVIOUS
  <2>2. u \in FeedTask
    <3>1. NoColumns \in Patches
      BY DEF Patches
    <3> QED BY <2>1, <3>1 DEF Flushed, FeedTask
  <2> QED BY <1>2, <1>3, <2>1, <2>2 DEF Continue
<1>4. PICK s : s = since
  OBVIOUS
<1>5. s \in Int /\ \A r \in Task : ~chosen' => SyncSound(task[r], s)
  BY <1>4 DEF FeedInv
<1>6. PICK done : done = NewTask("done")
  OBVIOUS
<1>7. done \in FeedTask /\ done.pc = "done"
  BY <1>6, NewTaskType
<1>8. CASE \E r \in Task : \E t : Ready(t, s) /\ t.pc \in Stage /\ Continue(r, t)
  BY <1>3, <1>8 DEF Ready
<1>9. CASE \E r \in Task : \E t : Ready(t, s) /\ BeginsDaily(r, t)
  BY <1>2, <1>9 DEF Ready, BeginsDaily
<1>10. ASSUME NEW r \in Task, CloseTask(r) PROVE \E n \in Int : \A q \in First : task'[q].from = n
  BY <1>2, <1>6, <1>7, <1>10 DEF CloseTask
<1>11. CASE \E r \in Task : ReadConnection(r)
  <2>1. PICK r \in Task : ReadConnection(r)
    BY <1>11
  <2>2. CASE RejectTask(r)
    BY <1>10, <2>2 DEF RejectTask
  <2>3. CASE ~RejectTask(r)
    BY <1>3, <2>1, <2>3, ReadRecord
  <2> QED BY <2>2, <2>3
<1>12. CASE Passes
  BY <1>1, <1>12 DEF Passes, First, Opening
<1>13. CASE Restart
  <2>1. First = {}
    BY <1>6, <1>7, <1>13 DEF Restart, First, Opening
  <2> QED BY <1>1, <2>1
<1> QED BY <1>5, <1>8, <1>9, <1>10, <1>11, <1>12, <1>13, StepForms DEF Ends

(* Every step keeps the invariant. *)
LEMMA FeedStep == FeedInv /\ [FeedHistoryNext]_<<feedVars, history>> => FeedInv'
<1> SUFFICES ASSUME FeedInv, [FeedHistoryNext]_<<feedVars, history>> PROVE FeedInv'
  OBVIOUS
<1>1. CASE FeedHistoryNext
  <2>1. FeedNext /\ Notes
    BY <1>1 DEF FeedHistoryNext, Notes, FeedInv
  <2>2. PICK n \in Int : \A q \in First : task'[q].from = n
    BY <2>1, OneFirst DEF Notes
  <2>3. since' = Max({since} \cup {task'[q].from : q \in First})
    BY <1>1 DEF FeedHistoryNext
  <2>4. since' \in Int /\ since <= since' /\ \A q \in First : task'[q].from <= since'
    BY <2>2, <2>3, SinceMoves
  <2>5. PICK s : s = since'
    OBVIOUS
  <2>6. s \in Int /\ since <= s /\ since' = s /\ \A q \in First : task'[q].from <= s
    BY <2>4, <2>5
  <2>7. \A r \in Task : ~chosen' => SyncSound(task[r], s)
    BY <2>1, <2>6, SyncLater DEF Notes
  <2>8. CASE \E r \in Task : \E t : Ready(t, s) /\ t.pc \in Stage /\ Continue(r, t)
    BY <2>1, <2>6, <2>8, ContinueKeeps
  <2>9. CASE \E r \in Task : \E t : Ready(t, s) /\ BeginsDaily(r, t)
    <3>1. PICK r \in Task : \E t : Ready(t, s) /\ BeginsDaily(r, t)
      BY <2>9
    <3>2. PICK t : Ready(t, s) /\ BeginsDaily(r, t)
      BY <3>1
    <3>3. t.pc \in Stage
      BY <3>2 DEF BeginsDaily, Stage
    <3> QED BY <2>1, <2>6, <3>2, <3>3, HoldKeeps DEF BeginsDaily
  <2>10. CASE \E r \in Task : Ends(r)
    BY <2>1, <2>6, <2>10, CloseKeeps DEF Ends
  <2>11. CASE \E r \in Task : ReadConnection(r)
    <3>1. PICK r \in Task : ReadConnection(r)
      BY <2>11
    <3>2. \A q \in Opening : ~chosen' =>
             task'[q].from = DefaultFrom(conn[task[q].conn], day) /\ task'[q].to = day
      BY <1>1 DEF FeedHistoryNext
    <3>3. RejectTask(r) \/ \E t : Ready(t, s) /\ t.pc \in Stage /\ Continue(r, t)
      BY <2>1, <2>6, <3>1, <3>2, ReadReady DEF Notes
    <3>4. r \in Ongoing
      BY <3>1 DEF ReadConnection, Stands, Ongoing, Stage
    <3>5. CASE RejectTask(r)
      BY <2>1, <2>6, <3>4, <3>5, RejectEnds, CloseKeeps DEF Ends
    <3>6. CASE \E t : Ready(t, s) /\ t.pc \in Stage /\ Continue(r, t)
      BY <2>1, <2>6, <3>6, ContinueKeeps
    <3> QED BY <3>3, <3>5, <3>6
  <2>12. CASE Passes \/ Restart
    <3>1. First = {}
      <4>1. CASE Passes
        BY <4>1 DEF Passes, First, Opening
      <4>2. CASE Restart
        BY <4>2, NewTaskType DEF Restart, First, Opening
      <4> QED BY <2>12, <4>1, <4>2
    <3>2. since' = since
      <4>1. {since} \cup {task'[q].from : q \in First} = {since}
        BY <3>1
      <4>2. IsFiniteSet({since}) /\ {since} # {} /\ \A x \in {since} : x \in Int
        BY FS_Singleton DEF FeedInv
      <4>3. Max({since}) \in {since}
        BY <4>2, MaxOf
      <4> QED BY <2>3, <4>1, <4>3
    <3> QED BY <2>1, <2>12, <3>2, WorldKeeps, RestartKeeps DEF Passes
  <2> QED BY <2>1, <2>6, <2>7, <2>8, <2>9, <2>10, <2>11, <2>12, StepForms
<1>2. CASE UNCHANGED <<feedVars, history>>
  <2>1. /\ conn' = conn /\ statement' = statement /\ line' = line /\ booked' = booked /\ day' = day
        /\ due' = due /\ task' = task /\ crossed' = crossed /\ chosen' = chosen /\ since' = since
    BY <1>2 DEF feedVars, history, rows
  <2>2. Grows
    BY <2>1, BankFeedConstants DEF Grows, FeedInv, FeedTypeOK
  <2>3. Connections' = Connections /\ Booked' = Booked /\ Ongoing' = Ongoing
    BY <2>1 DEF Connections, Booked, Ongoing
  <2>4. FeedTypeOK'
    BY <2>1, <2>3 DEF FeedInv, FeedTypeOK
  <2>5. \A q \in Task : TaskFormed(task[q])'
    BY <2>1, <2>3 DEF FeedInv, TaskFormed, RightAmount
  <2>6. ~chosen' => /\ \A c \in Connections' : CursorSound(c, since)'
                    /\ \A q \in Task : SyncSound(task[q], since)'
    BY <2>1, <2>3 DEF FeedInv, CursorSound, SyncSound, Covers, BookedIn, Booked, Entered, RightAmount
  <2>7. ~crossed' => ImportedOnce' /\ \A q \in Task : OnceSound(task[q])'
    BY <2>1 DEF FeedInv, OnceSound, OnceIn, ImportedOnce
  <2> QED BY <2>1, <2>3, <2>4, <2>5, <2>6, <2>7 DEF FeedInv, RightAmount
<1> QED BY <1>1, <1>2

(* The invariant holds when the history begins. *)
LEMMA FeedStart == FeedHistoryInit => FeedInv
<1> SUFFICES ASSUME FeedHistoryInit PROVE FeedInv
  OBVIOUS
<1>1. PICK start \in {Nil, Linked} : conn = [c \in Connection |-> start]
  BY DEF FeedHistoryInit
<1>2. start \in ConnectionRow \cup {Nil} /\ (start # Nil => start.cursor = Nil)
  <2>1. Linked \in ConnectionRow /\ Linked.cursor = Nil
    <3>1. Nil \in Date /\ "ACTIVE" \in Status
      BY DEF Date, Status
    <3> QED BY <3>1 DEF Linked, ConnectionRow
  <2> QED BY <2>1
<1>3. PICK u : u = NewTask("idle")
  OBVIOUS
<1>4. /\ u \in FeedTask /\ u.pc = "idle" /\ u.put = NoColumns /\ u.lines = {} /\ u.statements = {}
      /\ u.op = "CREATE" /\ u.batch = {} /\ u.fresh = {}
  BY <1>3, NewTaskType
<1>5. task = [r \in Task |-> u] /\ statement = {} /\ line = {} /\ day = 1 /\ due = {}
      /\ booked = [m \in Movement |-> IF m = m2 THEN 1 ELSE Nil]
      /\ crossed = FALSE /\ chosen = FALSE /\ since = 0
  BY <1>3 DEF FeedHistoryInit
<1>6. FeedTypeOK
  BY <1>1, <1>2, <1>4, <1>5, BankFeedConstants DEF FeedTypeOK
<1>7. Ongoing = {}
  BY <1>4, <1>5 DEF Ongoing, Stage
<1>8. ASSUME NEW r \in Task PROVE TaskFormed(task[r]) /\ SyncSound(task[r], since) /\ OnceSound(task[r])
  <2>1. TaskFormed(u) /\ SyncSound(u, since) /\ OnceSound(u)
    BY <1>4, <1>5, NoColumnsEmpty DEF TaskFormed, SyncSound, OnceSound, OnceIn, Stage
  <2> QED BY <1>5, <2>1
<1>9. \A c \in Connections : CursorSound(c, since)
  BY <1>1, <1>2 DEF Connections, CursorSound
<1>10. ImportedOnce
  BY <1>5 DEF ImportedOnce, OnceIn
<1>11. IsFiniteSet(Ongoing)
  BY <1>7, FS_EmptySet
<1>12. crossed \in BOOLEAN /\ chosen \in BOOLEAN
  BY <1>5, Zenon
<1>13. since \in Int
  BY <1>5
<1>14. \A l \in line : RightAmount(l)
  BY <1>5
<1>15. \A p, q \in Ongoing : p = q
  BY <1>7
<1> QED BY <1>6, <1>8, <1>9, <1>10, <1>11, <1>12, <1>13, <1>14, <1>15 DEF FeedInv

(* Every reachable state satisfies the inductive invariant of the bank feed,
   whatever overlaps, fails, is dropped or cut by a restart. *)
THEOREM FeedInvariance == FeedHistorySpec => []FeedInv
<1>1. FeedInv /\ [FeedHistoryNext]_<<feedVars, history>> => FeedInv'
  BY FeedStep
<1> QED BY <1>1, FeedStart, PTL DEF FeedHistorySpec

(* Synchronisations that come one at a time import no movement twice and make
   one statement of an account and a day, also when a restart has cut one of
   them between two of its statements. *)
THEOREM MovementsAreImportedOnce == FeedHistorySpec => []SerialImportedOnce
<1>1. FeedInv => SerialImportedOnce
  BY DEF FeedInv, SerialImportedOnce
<1> QED BY <1>1, FeedInvariance, PTL

(* The cursor of a connection is never past a movement that is not in the
   books, however synchronisations overlap, fail or are cut, unless a user
   chose the window of one. *)
THEOREM CursorsPassNothing == FeedHistorySpec => []UnaskedNothingMissed
<1>1. FeedInv => UnaskedNothingMissed
  <2> SUFFICES ASSUME FeedInv, ~chosen, NEW c \in Connections, conn[c].cursor # Nil
               PROVE  NothingMissed(c, since)
    BY DEF UnaskedNothingMissed
  <2>1. Covers(line, pickAccounts(c), since, conn[c].cursor - 1)
    BY DEF FeedInv, CursorSound
  <2> QED BY <2>1 DEF Covers, BookedIn, Entered, RightAmount, NothingMissed
<1> QED BY <1>1, FeedInvariance, PTL
=============================================================================
