------------------------------- MODULE Filings -------------------------------
(***************************************************************************)
(* What the company reports to authorities: transports (e-Transport),      *)
(* employment contracts (Revisal) and issued invoices (RO e-Factura).      *)
(*                                                                         *)
(* Each filing is a row with a status that requests read, check and        *)
(* overwrite; e-Factura calls ANAF between the read and the write.  A      *)
(* request is a transaction as in Ledger.  When its transaction has ended  *)
(* early (time limit, closed connection) the handler keeps running: it     *)
(* still talks to ANAF and fails at its next statement.                    *)
(***************************************************************************)
EXTENDS Integers, FiniteSets

CONSTANTS
    Req,          \* requests; a request names the row or the upload it makes
    Uit,          \* transport codes generateUitCode may draw
    Reference,    \* delivery references of Revisal exports
    Employee,     \* employees, with what buildContractRows looks at
    Snapshot,     \* [Employee -> hiring month, active or not, valid data or not]
    Month,        \* months of Revisal exports
    Invoice,      \* fiscal invoices
    MaxPolls,     \* ANAF_EFACTURA_MAX_POLLS
    Concurrency,  \* bound: requests in flight at once
    Disconnects,  \* may clients drop the connection before the answer?
    None

ShipmentStatus == {"GENERATED", "IN_TRANSIT", "DELIVERED", "CANCELLED"}
Op == {"SHIP", "MOVE", "EXPORT", "DELIVER", "SEND", "POLL"}
Running  == {"reserve", "read", "insert", "upload", "poll", "download", "store", "update", "answer"}
Finished == {"committed", "cut", "rejected", "rolledback"}

Verdict   == {"PENDING", "ACCEPTED", "REJECTED"}
Channel   == {"WEB_PORTAL", "EMAIL"}
Operation == {"TERMINATION", "HIRE", "UPDATE"}

ShipmentRow == [uit : Uit, status : ShipmentStatus, departed : BOOLEAN, arrived : BOOLEAN]
DeliveryRow == [ref : Reference, month : Month,
                rows : SUBSET [employee : Employee, active : BOOLEAN, operation : Operation],
                status : {"GENERATED", "DELIVERED"}, channel : Channel \cup {None},
                receipt : BOOLEAN]
Columns     == [status : Verdict \cup {None}, index : Req \cup {None},
                download : Req \cup {None}, signed : Req \cup {None}]
UploadRow   == [invoice : Invoice, verdict : Verdict]

ASSUME FilingsConstants ==
    /\ None \notin Req \cup Verdict \cup ShipmentRow \cup DeliveryRow \cup UploadRow
    /\ MaxPolls \in Nat \ {0}
    /\ Month \subseteq Nat
    /\ Snapshot \in [Employee -> [hired : Nat, active : BOOLEAN, valid : BOOLEAN]]

VARIABLES
    shipment,  \* committed ETransportShipment rows
    delivery,  \* committed RevisalDelivery rows
    efactura,  \* the e-Factura columns of the invoices
    upload,    \* at ANAF: the uploaded invoices with ANAF's verdict
    tx         \* the requests

vars == <<shipment, delivery, efactura, upload, tx>>

Request == [op : Op, pc : {"idle"} \cup Running \cup Finished, open : BOOLEAN,
            doc : Req \cup Reference \cup Invoice \cup {None},
            want : ShipmentStatus \cup Uit \cup Channel \cup {None}, month : Nat,
            row : ShipmentRow \cup DeliveryRow \cup Columns \cup {None},
            polls : Nat, wait : BOOLEAN, answer : Verdict \cup {None}, file : Req \cup {None}]

TypeOK ==
    /\ shipment \in [Req -> ShipmentRow \cup {None}]
    /\ delivery \in [Req -> DeliveryRow \cup {None}]
    /\ efactura \in [Invoice -> Columns]
    /\ upload \in [Req -> UploadRow \cup {None}]
    /\ tx \in [Req -> Request]

-----------------------------------------------------------------------------
(* Rules of the three filings. *)

AllowedTransitions == [GENERATED |-> {"IN_TRANSIT", "CANCELLED"},
                       IN_TRANSIT |-> {"DELIVERED", "CANCELLED"},
                       DELIVERED |-> {}, CANCELLED |-> {}]

(* Fault: a cancelled transport may set off again. *)
FaultyCanTransition(from, to) ==
    from = to \/ to \in AllowedTransitions[from] \/ (from = "CANCELLED" /\ to = "IN_TRANSIT")

CanTransition(from, to) == from = to \/ to \in AllowedTransitions[from]

(* mapOperation and the row of one employee in the export of month m. *)
ContractRow(e, m) ==
    [employee |-> e, active |-> Snapshot[e].active,
     operation |-> IF ~Snapshot[e].active THEN "TERMINATION"
                   ELSE IF Snapshot[e].hired >= m THEN "HIRE" ELSE "UPDATE"]

(* The employees hired by the end of month m, and whether one of them has
   data that blocks the export. *)
Eligible(m)           == {e \in Employee : Snapshot[e].hired <= m}
buildContractRows(m)  == {ContractRow(e, m) : e \in Eligible(m)}
BlockingErrors(m)     == \E e \in Eligible(m) : ~Snapshot[e].valid

(* The verdict ANAF's answer stands for: the words of a refusal win over
   those of an acceptance, and neither means that it is still working. *)
classifyStatus(refused, accepted) ==
    IF refused THEN "REJECTED" ELSE IF accepted THEN "ACCEPTED" ELSE "PENDING"

-----------------------------------------------------------------------------
InFlight   == {r \in Req : tx[r].pc \in Running}
Shipments  == {s \in Req : shipment[s] # None}
Deliveries == {d \in Req : delivery[d] # None}
Uploads    == {u \in Req : upload[u] # None}

NeverSent == [status |-> None, index |-> None, download |-> None, signed |-> None]

Blank(label) == [op |-> "SHIP", pc |-> label, open |-> TRUE, doc |-> None, want |-> None,
                 month |-> 0, row |-> None, polls |-> 0, wait |-> FALSE, answer |-> None,
                 file |-> None]

Init ==
    /\ shipment = [r \in Req |-> None]
    /\ delivery = [r \in Req |-> None]
    /\ efactura = [i \in Invoice |-> NeverSent]
    /\ upload = [r \in Req |-> None]
    /\ tx = [r \in Req |-> Blank("idle")]

Tables == <<shipment, delivery, efactura>>
Quiet  == UNCHANGED <<Tables, upload>>
Step(r, t)    == tx' = [tx EXCEPT ![r] = t] /\ Quiet
End(r, label) == tx' = [tx EXCEPT ![r] = Blank(label)]
Reject(r)     == End(r, IF tx[r].open THEN "rejected" ELSE "rolledback") /\ Quiet

(* A statement of r is next; without its transaction it would fail. *)
At(r, op, label) == tx[r].op = op /\ tx[r].pc = label /\ tx[r].open

-----------------------------------------------------------------------------
(* A request arrives. *)

Start(r, t) ==
    /\ tx[r].pc = "idle"
    /\ Cardinality(InFlight) < Concurrency
    /\ Step(r, t)

CreateShipment(r) == Start(r, Blank("reserve"))

UpdateShipment(r) ==
    \E s \in Shipments, want \in ShipmentStatus :
        Start(r, [Blank("read") EXCEPT !.op = "MOVE", !.doc = s, !.want = want])

ExportRevisal(r) ==
    \E ref \in Reference, m \in Month :
        Start(r, [Blank("read") EXCEPT !.op = "EXPORT", !.doc = ref, !.month = m])

DeliverRevisal(r) ==
    \E d \in Deliveries, ch \in {"WEB_PORTAL", "EMAIL"} :
        Start(r, [Blank("read") EXCEPT !.op = "DELIVER", !.doc = d, !.want = ch])

SendEfactura(r) ==
    \E i \in Invoice, wait \in BOOLEAN :
        Start(r, [Blank("read") EXCEPT !.op = "SEND", !.doc = i, !.wait = wait])

PollEfactura(r) ==
    \E i \in Invoice, wait \in BOOLEAN :
        Start(r, [Blank("read") EXCEPT !.op = "POLL", !.doc = i, !.wait = wait])

-----------------------------------------------------------------------------
(* e-Transport. *)

(* reserveUniqueUitCode: a code no committed transport has, or none after the
   last attempt. *)
ReserveUit(r) ==
    /\ At(r, "SHIP", "reserve")
    /\ \/ \E u \in Uit : /\ \A s \in Shipments : shipment[s].uit # u
                         /\ Step(r, [tx[r] EXCEPT !.pc = "insert", !.want = u])
       \/ Shipments # {} /\ Reject(r)

(* The code is unique: P2002 ends the transaction. *)
InsertShipment(r) ==
    /\ At(r, "SHIP", "insert")
    /\ \A q \in Req \ {r} : tx[q].op = "SHIP" /\ tx[q].pc = "answer" => tx[q].want # tx[r].want
    /\ IF \E s \in Shipments : shipment[s].uit = tx[r].want
       THEN End(r, "rolledback") /\ Quiet
       ELSE Step(r, [tx[r] EXCEPT !.pc = "answer",
                                  !.row = [uit |-> tx[r].want, status |-> "GENERATED",
                                           departed |-> FALSE, arrived |-> FALSE]])

ReadShipment(r) ==
    /\ At(r, "MOVE", "read")
    /\ IF CanTransition(shipment[tx[r].doc].status, tx[r].want)
       THEN Step(r, [tx[r] EXCEPT !.pc = "update"]) ELSE Reject(r)

(* An update waits for the request that has changed the row. *)
Unlocked(r, ops) ==
    \A q \in Req \ {r} : tx[q].op \in ops /\ tx[q].pc = "answer" => tx[q].doc # tx[r].doc

(* The row as it is now gets the new status; a departure or an arrival
   without a time gets the present one. *)
WriteShipment(r) ==
    /\ At(r, "MOVE", "update") /\ Unlocked(r, {"MOVE"})
    /\ LET s == shipment[tx[r].doc]
       IN Step(r, [tx[r] EXCEPT !.pc = "answer",
                     !.row = [s EXCEPT !.status = tx[r].want,
                                       !.departed = @ \/ tx[r].want = "IN_TRANSIT",
                                       !.arrived = @ \/ tx[r].want = "DELIVERED"]])

-----------------------------------------------------------------------------
(* Revisal. *)

(* The reference must be new and buildRevisalExport find nothing that blocks;
   the schema check of xmllint may block too. *)
ReadForExport(r) ==
    /\ At(r, "EXPORT", "read")
    /\ \/ /\ \A d \in Deliveries : delivery[d].ref # tx[r].doc
          /\ ~BlockingErrors(tx[r].month)
          /\ Step(r, [tx[r] EXCEPT !.pc = "insert",
                                   !.row = [ref |-> tx[r].doc, month |-> tx[r].month,
                                            rows |-> buildContractRows(tx[r].month),
                                            status |-> "GENERATED", channel |-> None,
                                            receipt |-> FALSE]])
       \/ Reject(r)

InsertExport(r) ==
    /\ At(r, "EXPORT", "insert") /\ Unlocked(r, {"EXPORT"})
    /\ IF \E d \in Deliveries : delivery[d].ref = tx[r].doc
       THEN End(r, "rolledback") /\ Quiet
       ELSE Step(r, [tx[r] EXCEPT !.pc = "answer"])

(* The portal needs a receipt number; a delivered export is done. *)
ReadDelivery(r) ==
    /\ At(r, "DELIVER", "read")
    /\ IF delivery[tx[r].doc].status = "DELIVERED" THEN Reject(r)
       ELSE Step(r, [tx[r] EXCEPT !.pc = "update"]) \/ (tx[r].want = "WEB_PORTAL" /\ Reject(r))

WriteDelivery(r) ==
    /\ At(r, "DELIVER", "update") /\ Unlocked(r, {"DELIVER"})
    /\ \E receipt \in BOOLEAN :
         /\ tx[r].want = "WEB_PORTAL" => receipt
         /\ Step(r, [tx[r] EXCEPT !.pc = "answer",
                       !.row = [delivery[tx[r].doc] EXCEPT !.status = "DELIVERED",
                                  !.channel = tx[r].want, !.receipt = receipt]])

-----------------------------------------------------------------------------
(* e-Factura. *)

(* The invoice with its columns.  It may have been cancelled, or the partner
   may have no usable CUI; a poll needs an upload index. *)
ReadInvoice(r) ==
    /\ tx[r].op \in {"SEND", "POLL"} /\ tx[r].pc = "read" /\ tx[r].open
    /\ LET row == efactura[tx[r].doc]
       IN IF tx[r].op = "SEND"
          THEN Step(r, [tx[r] EXCEPT !.pc = "upload", !.row = row]) \/ Reject(r)
          ELSE IF row.index = None THEN Reject(r)
          ELSE Step(r, [tx[r] EXCEPT !.pc = "poll", !.row = row])

(* uploadEfacturaXml: ANAF has the invoice, whether or not its answer with
   the index arrives.  The call does not need the transaction. *)
Upload(r) ==
    /\ tx[r].pc = "upload"
    /\ UNCHANGED Tables
    /\ upload' = [upload EXCEPT ![r] = [invoice |-> tx[r].doc, verdict |-> "PENDING"]]
    /\ \/ tx' = [tx EXCEPT ![r].pc = "poll"]
       \/ End(r, IF tx[r].open THEN "rejected" ELSE "rolledback")

(* ANAF cannot be reached, or answers with an error. *)
CallFails(r) == tx[r].pc \in {"upload", "poll", "download"} /\ Reject(r)

(* The upload r asks about. *)
Asked(r) == IF tx[r].op = "SEND" THEN r ELSE tx[r].row.index

(* ANAF's file r would fetch: named in the answer or, for a poll, in the row. *)
Resolved(r, named) == IF named # None \/ tx[r].op = "SEND" THEN named ELSE tx[r].row.download

(* Fault: the verdict is not looked at before the signed file is fetched. *)
FaultyFetches(r, verdict, named) ==
    /\ tx[r].wait
    /\ Resolved(r, named) # None
    /\ tx[r].op = "POLL" => tx[r].row.signed = None

Fetches(r, verdict, named) ==
    /\ tx[r].wait /\ verdict = "ACCEPTED"
    /\ Resolved(r, named) # None
    /\ tx[r].op = "POLL" => tx[r].row.signed = None

(* pollEfacturaStatus: ANAF's verdict of the moment, with or without the
   name of its file.  A send asks again while the upload is pending, up to
   MaxPolls times. *)
Poll(r) ==
    /\ tx[r].pc = "poll"
    /\ LET v == upload[Asked(r)].verdict
           status == classifyStatus(v = "REJECTED", v = "ACCEPTED")
       IN \E named \in {None, Asked(r)} :
            Step(r, [tx[r] EXCEPT
                !.polls = @ + 1,
                !.answer = status,
                !.file = Resolved(r, named),
                !.pc = IF Fetches(r, status, named) THEN "download"
                       ELSE IF tx[r].op = "SEND" /\ status = "PENDING" /\ tx[r].polls + 1 < MaxPolls
                       THEN "poll" ELSE "update"])

Download(r) == tx[r].pc = "download" /\ Step(r, [tx[r] EXCEPT !.pc = "store"])

(* persistSignedEfacturaXml: three attempts; when all fail the invoice keeps
   the file it had. *)
Store(r) ==
    /\ tx[r].pc = "store"
    /\ \/ Step(r, [tx[r] EXCEPT !.pc = "update", !.row.signed = tx[r].file])
       \/ Step(r, [tx[r] EXCEPT !.pc = "update"])

(* Fault: a new upload does not replace the index of an earlier one. *)
FaultyRecordedIndex(r) == IF tx[r].row.index = None THEN Asked(r) ELSE tx[r].row.index

RecordedIndex(r) == Asked(r)

(* invoice.update with the status of the upload and the columns read before
   ANAF was called. *)
WriteInvoice(r) ==
    /\ tx[r].op \in {"SEND", "POLL"} /\ tx[r].pc = "update" /\ tx[r].open
    /\ Unlocked(r, {"SEND", "POLL"})
    /\ Step(r, [tx[r] EXCEPT !.pc = "answer",
                  !.row = [status |-> tx[r].answer, index |-> RecordedIndex(r),
                           download |-> tx[r].file, signed |-> tx[r].row.signed]])

(* ANAF accepts or rejects an upload. *)
Decide(u) ==
    /\ u \in Uploads /\ upload[u].verdict = "PENDING"
    /\ \E v \in {"ACCEPTED", "REJECTED"} : upload' = [upload EXCEPT ![u].verdict = v]
    /\ UNCHANGED <<Tables, tx>>

-----------------------------------------------------------------------------
(* The ends of a request. *)

(* The row written by r: a new one, or doc; a poll does not touch the index. *)
Persist(r) ==
    LET t == tx[r]
        wrote == t.pc = "answer" /\ t.open
        row == IF t.op = "POLL" THEN [t.row EXCEPT !.index = efactura[t.doc].index] ELSE t.row
    IN  /\ shipment' = CASE wrote /\ t.op = "SHIP" -> [shipment EXCEPT ![r] = row]
                         [] wrote /\ t.op = "MOVE" -> [shipment EXCEPT ![t.doc] = row]
                         [] OTHER -> shipment
        /\ delivery' = CASE wrote /\ t.op = "EXPORT" -> [delivery EXCEPT ![r] = row]
                         [] wrote /\ t.op = "DELIVER" -> [delivery EXCEPT ![t.doc] = row]
                         [] OTHER -> delivery
        /\ efactura' = IF wrote /\ t.op \in {"SEND", "POLL"}
                       THEN [efactura EXCEPT ![t.doc] = row] ELSE efactura
        /\ UNCHANGED upload

Commit(r) == tx[r].pc = "answer" /\ Persist(r) /\ End(r, "committed")

Calling(r) == tx[r].pc \in {"upload", "poll", "download", "store"}

(* The connection closes: what was written is committed, and a handler that
   waits for ANAF goes on without its transaction. *)
Disconnect(r) ==
    /\ Disconnects /\ r \in InFlight /\ tx[r].open
    /\ Persist(r)
    /\ IF Calling(r) THEN tx' = [tx EXCEPT ![r].open = FALSE] ELSE End(r, "cut")

(* The five seconds are over, or the process stops. *)
Timeout(r) ==
    /\ r \in InFlight /\ tx[r].open
    /\ \/ Calling(r) /\ Step(r, [tx[r] EXCEPT !.open = FALSE])
       \/ End(r, "rolledback") /\ Quiet

(* The first statement after that fails. *)
Fails(r) == ~tx[r].open /\ tx[r].pc = "update" /\ End(r, "rolledback") /\ Quiet

Arrive(r)  == \/ CreateShipment(r) \/ UpdateShipment(r) \/ ExportRevisal(r) \/ DeliverRevisal(r)
              \/ SendEfactura(r) \/ PollEfactura(r)
Advance(r) == \/ ReserveUit(r) \/ InsertShipment(r) \/ ReadShipment(r) \/ WriteShipment(r)
              \/ ReadForExport(r) \/ InsertExport(r) \/ ReadDelivery(r) \/ WriteDelivery(r)
              \/ ReadInvoice(r) \/ Upload(r) \/ CallFails(r) \/ Poll(r) \/ Download(r) \/ Store(r)
              \/ WriteInvoice(r) \/ Commit(r)
Fail(r)    == Disconnect(r) \/ Timeout(r) \/ Fails(r)

(* Every request has been served. *)
Quiescent == (\A r \in Req : tx[r].pc \in Finished) /\ UNCHANGED vars

Next == (\E r \in Req : Arrive(r) \/ Advance(r) \/ Fail(r) \/ Decide(r)) \/ Quiescent

Spec == Init /\ [][Next]_vars

-----------------------------------------------------------------------------
(* Properties. *)

(* A step changes a transport along its life only, from wherever it is; an
   export keeps its content and, once delivered, also how it was delivered. *)
FilingsFinal ==
    /\ \A s \in Shipments : /\ CanTransition(shipment[s].status, shipment'[s].status)
                            /\ shipment'[s].uit = shipment[s].uit
                            /\ shipment'[s].status = "DELIVERED" => shipment'[s].departed
                            /\ shipment[s].status \in {"DELIVERED", "CANCELLED"} =>
                                 shipment'[s].status = shipment[s].status
    /\ \A d \in Deliveries : /\ delivery'[d].rows = delivery[d].rows
                             /\ delivery[d].status = "DELIVERED" => delivery'[d] = delivery[d]

(* The status recorded for an invoice is ANAF's verdict on the upload
   recorded with it: an upload of this invoice, and a final status is final. *)
StatusOfUpload ==
    \A i \in Invoice : efactura[i].status # None =>
        /\ efactura[i].index \in Uploads
        /\ upload[efactura[i].index].invoice = i
        /\ efactura[i].status # "PENDING" => upload[efactura[i].index].verdict = efactura[i].status

(* Upload u is one of invoice i; ANAF has accepted an upload of invoice i. *)
Known(u, i) == u \in Uploads /\ upload[u].invoice = i
Accepted(i) == \E u \in Uploads : upload[u].invoice = i /\ upload[u].verdict = "ACCEPTED"

(* The signed file kept for an invoice is one ANAF issued for an upload of
   this invoice, and ANAF has accepted the invoice. *)
ArchivedIsOwn ==
    \A i \in Invoice : efactura[i].signed # None => Known(efactura[i].signed, i) /\ Accepted(i)

-----------------------------------------------------------------------------
(* The inductive invariant. *)

Efactura == {"SEND", "POLL"}

(* What columns c of invoice i name are uploads of i. *)
OwnColumns(c, i) ==
    /\ \A u \in {c.index, c.download, c.signed} : u # None => Known(u, i)
    /\ c.signed # None => Accepted(i)

(* What the handler of r works on, by the guards it has passed. *)
FilingFormed(r) ==
    LET t == tx[r]
    IN  /\ t.pc \in {"idle"} \cup Finished => t.op = "SHIP"
        /\ t.pc \in {"idle"} \cup Running => shipment[r] = None /\ delivery[r] = None
        /\ t.pc = "reserve" => t.op = "SHIP"
        /\ t.pc = "read" => t.op # "SHIP"
        /\ t.pc = "insert" => t.op \in {"SHIP", "EXPORT"}
        /\ t.pc = "update" => t.op \notin {"SHIP", "EXPORT"}
        /\ t.pc \in {"upload", "poll", "download", "store"} => t.op \in Efactura
        /\ t.op = "SHIP" /\ t.pc = "insert" => t.want \in Uit
        /\ t.op = "MOVE" => t.doc \in Shipments /\ t.want \in ShipmentStatus
        /\ t.op = "EXPORT" => t.doc \in Reference /\ t.month \in Month
        /\ t.op = "EXPORT" /\ t.pc # "read" => t.row \in DeliveryRow
        /\ t.op = "DELIVER" => t.doc \in Deliveries /\ t.want \in Channel
        /\ t.pc = "answer" => /\ t.op \in {"SHIP", "MOVE"} => t.row \in ShipmentRow
                              /\ t.op = "DELIVER" => t.row \in DeliveryRow
        /\ t.op \in Efactura => t.doc \in Invoice

EfacturaFormed(r) ==
    LET t == tx[r]
    IN  /\ t.pc \in {"idle", "read", "upload"} => upload[r] = None /\ t.file = None
        /\ t.pc = "upload" => t.op = "SEND"
        /\ t.op \in Efactura /\ t.pc # "read" =>
             /\ t.row \in Columns /\ OwnColumns(t.row, t.doc)
             /\ t.file # None => Known(t.file, t.doc)
             /\ t.pc # "upload" => Asked(r) \in Req /\ Known(Asked(r), t.doc)
             /\ t.pc \in {"download", "store"} => t.file # None /\ t.answer = "ACCEPTED"
             /\ t.pc \in {"download", "store", "update"} =>
                  /\ t.answer \in Verdict
                  /\ t.answer # "PENDING" => upload[Asked(r)].verdict = t.answer

FilingInv ==
    /\ TypeOK
    /\ IsFiniteSet(InFlight)
    /\ \A r \in Req : FilingFormed(r) /\ EfacturaFormed(r)
    /\ \A i \in Invoice : OwnColumns(efactura[i], i)

(* Columns that speak of one upload. *)
Agree(c) ==
    /\ c.download # None => c.download = c.index
    /\ c.status # None => /\ c.index # None
                          /\ c.status # "PENDING" => upload[c.index].verdict = c.status
    /\ c.signed # None => upload[c.signed].verdict = "ACCEPTED"

(* What the handler of r has read is still so, as long as it runs alone. *)
CurrentFiling(r) ==
    LET t == tx[r]
    IN  /\ t.op = "MOVE" /\ t.pc = "update" => CanTransition(shipment[t.doc].status, t.want)
        /\ t.op = "MOVE" /\ t.pc = "answer" =>
             /\ CanTransition(shipment[t.doc].status, t.row.status)
             /\ t.row.uit = shipment[t.doc].uit
             /\ t.row.status \in {"IN_TRANSIT", "DELIVERED"} => t.row.departed
        /\ t.op = "SHIP" /\ t.pc = "answer" => t.row.status = "GENERATED"
        /\ t.op = "DELIVER" /\ t.pc \in {"update", "answer"} =>
             delivery[t.doc].status # "DELIVERED"
        /\ t.op = "DELIVER" /\ t.pc = "answer" => t.row.rows = delivery[t.doc].rows

CurrentEfactura(r) ==
    LET t == tx[r]
    IN  t.op \in Efactura /\ t.pc # "read" =>
          /\ t.op = "POLL" => t.row.index = efactura[t.doc].index
          /\ t.row.signed # None => upload[t.row.signed].verdict = "ACCEPTED"
          /\ t.op = "POLL" /\ t.row.download # None => t.row.download = t.row.index
          /\ t.file # None => t.file = Asked(r)
          /\ t.pc = "answer" => Agree(t.row)
=============================================================================
