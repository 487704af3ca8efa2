-------------------------- MODULE ReportingProofs --------------------------
(***************************************************************************)
(* Proofs about what is computed from the database and kept beside it: the *)
(* reports the process caches and the notifications it queues, for any     *)
(* number of readers and writers, any cache lifetime and any limit; the    *)
(* statements and declarations, for any documents; the export jobs, for    *)
(* any set of jobs and workers, either queue mode, any number of attempts  *)
(* and any number of crashes; and the write queue and the rows of the      *)
(* browser client, for any set of operations, users, companies, replay     *)
(* loops and visits, and any number of outages, losses, reloads and        *)
(* log-ins.                                                                *)
(***************************************************************************)
EXTENDS MCReporting, ExportJobs, ClientScreen, SumProofs, SequenceTheorems,
        WellFoundedInduction, TLAPS

-----------------------------------------------------------------------------
(* Types. *)

(* A request is a reader or a writer, and its transaction has its fields. *)
LEMMA Fields ==
    ASSUME TypeOK, NEW r \in Req
    PROVE  /\ tx[r] \in Transaction
           /\ tx[r].op \in Read /\ tx[r].pc \in Label /\ tx[r].doc \in Document \cup {None}
           /\ tx[r].start \in Nat /\ tx[r].at \in Nat /\ tx[r].known \subseteq Writers
           /\ tx[r].own \subseteq Key
           /\ tx[r].waits # None => /\ tx[r].waits \in [of : Readers, key : Key]
                                    /\ tx[r].waits.of \in Readers /\ tx[r].waits.key \in Key
           /\ tx[r].value \in Report /\ tx[r].value.lines \subseteq Writers
           /\ tx[r].value.rows \subseteq Writers /\ tx[r].value.open \subseteq Writers
<1>1. tx[r] \in Transaction
  BY DEF TypeOK
<1> QED
  BY <1>1 DEF Transaction, Report

(* The constants. *)
LEMMA Constants ==
    /\ Writers \subseteq Nat /\ Writers \cap Readers = {}
    /\ Ttl \in Nat /\ Ttl > 0 /\ Limit \in Nat /\ Limit > 0 /\ MaxQueue \in Nat /\ MaxQueue > 0
    /\ None \notin Writers /\ None \notin Readers /\ None \notin Document
    /\ None \notin [of : Readers, key : Key] /\ None \notin Entry
    /\ Documents \subseteq Document
<1>1. {Ttl, Limit, Concurrency, MaxQueue} \subseteq Nat \ {0}
  BY ReportingConstants
<1>2. Ttl \in Nat \ {0} /\ Limit \in Nat \ {0} /\ MaxQueue \in Nat \ {0}
  BY <1>1
<1>3. /\ Writers \subseteq Nat \ {0} /\ Writers \cap Readers = {} /\ Documents \subseteq Document
      /\ None \notin Nat \cup Readers \cup Document \cup [of : Readers, key : Key] \cup Entry
  BY ReportingConstants
<1>4. /\ None \notin Nat /\ None \notin Readers /\ None \notin Document
      /\ None \notin [of : Readers, key : Key] /\ None \notin Entry
  BY <1>3, Zenon
<1>5. Ttl \in Nat /\ Ttl > 0 /\ Limit \in Nat /\ Limit > 0 /\ MaxQueue \in Nat /\ MaxQueue > 0
  BY <1>2
<1>6. Writers \subseteq Nat /\ None \notin Writers
  BY <1>3, <1>4, Zenon
<1> QED
  BY <1>3, <1>4, <1>5, <1>6, Zenon

(* A blank transaction has its type. *)
LEMMA BlankType ==
    ASSUME NEW label \in Label
    PROVE  /\ Blank(label) \in Transaction
           /\ Blank(label).pc = label /\ Blank(label).own = {} /\ Blank(label).waits = None
           /\ Blank(label).known = {} /\ Blank(label).at = 0
BY DEF Blank, Transaction, Nothing, Report, Read

(* Statements and dashboard are cleared by every handler. *)
LEMMA AllClear ==
    ASSUME NEW kind PROVE Clears(kind) \subseteq Key /\ {"statements", "dashboard"} \subseteq Clears(kind)
BY DEF Clears, Key

-----------------------------------------------------------------------------
(* What a step leaves alone stays as it is. *)

(* The history variable of a step. *)
Marked == raced' = raced \cup {w \in Writers : tx'[w].pc = "answered" /\ Computing' # {}}

(* A step of the readers. *)
Frame == book' = book /\ since' = since /\ clock' = clock /\ Marked

LEMMA WriterStays ==
    ASSUME ReadInv, Marked, NEW w \in Writers, tx'[w] = tx[w], book'[w] = book[w],
           Computing = {} => \A k \in Key : cache[k] = None => cache'[k] = None
    PROVE  WriterFormed(w)' /\ Quiet(w)'
<1>1. WriterFormed(w)'
  BY DEF ReadInv, WriterFormed
<1>2. ASSUME tx'[w].pc = "answered", w \notin raced'
      PROVE  /\ Computing' = {}
             /\ \A k \in Clears(tx'[w].doc.kind) : cache'[k] = None
  <2>1. Computing' = {} /\ w \notin raced
    BY <1>2 DEF Marked
  <2>2. Computing = {} /\ \A k \in Clears(tx[w].doc.kind) : cache[k] = None
    BY <1>2, <2>1 DEF ReadInv, Quiet
  <2> QED
    BY <2>1, <2>2, AllClear
<1> QED
  BY <1>1, <1>2 DEF Quiet

LEMMA ReaderStays ==
    ASSUME ReadInv, Frame, NEW r \in Readers, tx'[r] = tx[r]
    PROVE  ReaderFormed(r)' /\ Reads(r)' /\ Has(r)'
<1>1. ReaderFormed(r)'
  BY DEF ReadInv, Frame, ReaderFormed, Committed, Composed
<1>2. raced \subseteq raced'
  BY DEF Frame, Marked
<1>3. Reads(r) /\ Has(r)
  BY DEF ReadInv
<1>4. Reads(r)'
  BY <1>2, <1>3 DEF Frame, Reads, Sees, Raced, Committed, Composed, Shown, Floor
<1>5. Has(r)'
  BY <1>2, <1>3 DEF Frame, Has, Raced, Committed, Shown, Floor
<1> QED
  BY <1>1, <1>4, <1>5

LEMMA KeptStays ==
    ASSUME ReadInv, Frame, NEW k \in Key, cache'[k] \in {cache[k], None}
    PROVE  Kept(k)'
<1>1. raced \subseteq raced' /\ Kept(k)
  BY DEF Frame, Marked, ReadInv
<1> QED
  BY <1>1 DEF Frame, Kept, Sees, Raced, Committed, EntryFloor

-----------------------------------------------------------------------------
(* Writers. *)

(* A step of a writer that commits nothing. *)
LEMMA WriterStep ==
    ASSUME ReadInv, Frame, NEW w \in Writers, NEW t \in Transaction,
           tx' = [tx EXCEPT ![w] = t], WriterFormed(w)', Quiet(w)',
           TypeOK', Owned',
           \A k \in Key : cache'[k] \in {cache[k], None}
    PROVE  ReadInv'
<1>1. \A r \in Readers : tx'[r] = tx[r]
  BY Constants DEF ReadInv, TypeOK, Req
<1>2. \A v \in Writers : v # w => tx'[v] = tx[v]
  BY DEF ReadInv, TypeOK, Req
<1>3. \A v \in Writers : WriterFormed(v)' /\ Quiet(v)'
  BY <1>2, WriterStays DEF Frame
<1>4. \A r \in Readers : ReaderFormed(r)' /\ Reads(r)' /\ Has(r)'
  BY <1>1, ReaderStays
<1>5. ASSUME NEW r \in Readers PROVE WaitFormed(r)'
  <2>1. WaitFormed(r) /\ TypeOK /\ r \in Req
    BY DEF ReadInv, Req
  <2>2. tx[r].waits # None => tx[r].waits.of \in Readers
    BY <2>1, Fields
  <2> QED
    BY <1>1, <2>1, <2>2 DEF WaitFormed
<1>6. \A k \in Key : Kept(k)'
  BY KeptStays
<1>7. raced' \subseteq Writers
  BY DEF Frame, Marked, ReadInv
<1> QED
  BY <1>3, <1>4, <1>5, <1>6, <1>7 DEF ReadInv

LEMMA ReadSubmit ==
    ASSUME ReadInv, Marked, NEW w \in Writers, Submit(w)
    PROVE  ReadInv'
<1>1. PICK d \in Documents :
         tx' = [tx EXCEPT ![w] = [Blank("write") EXCEPT !.start = clock, !.doc = [d EXCEPT !.id = w]]]
  BY DEF Submit
<1>2. Frame /\ UNCHANGED <<cached, mail, rest>>
  BY DEF Submit, Frame, rest
<1> DEFINE t == [Blank("write") EXCEPT !.start = clock, !.doc = [d EXCEPT !.id = w]]
<1>3. TypeOK /\ clock \in Nat /\ w \in Req /\ WriterFormed(w) /\ tx[w].pc = "idle"
  BY DEF ReadInv, TypeOK, Req, Submit
<1>4. [d EXCEPT !.id = w] \in Document
  BY Constants DEF Document
<1>5. t \in Transaction /\ t.pc = "write" /\ t.doc # None /\ t.waits = None
  BY <1>3, <1>4, Constants DEF Blank, Transaction, Nothing, Report, Read, Label
<1>6. TypeOK'
  BY <1>1, <1>2, <1>3, <1>5 DEF TypeOK, cached, mail, rest
<1>7. tx'[w] = t
  BY <1>1, <1>3 DEF TypeOK
<1>8. Owned'
  <2>1. \A k \in Key : flight[k] # None => flight[k] \in Readers /\ tx'[flight[k]] = tx[flight[k]]
    BY <1>1, <1>3, Constants DEF TypeOK, Req
  <2> QED
    BY <1>2, <2>1 DEF ReadInv, Owned, cached
<1>9. WriterFormed(w)' /\ Quiet(w)'
  BY <1>2, <1>3, <1>5, <1>7 DEF WriterFormed, Quiet, Frame
<1> HIDE DEF t
<1> QED
  BY <1>1, <1>2, <1>5, <1>6, <1>8, <1>9, WriterStep DEF cached, t

LEMMA ReadAnswer ==
    ASSUME ReadInv, Marked, NEW w \in Writers, Answer(w)
    PROVE  ReadInv'
<1> DEFINE t == [tx[w] EXCEPT !.pc = "answered"]
           gone == Clears(tx[w].doc.kind)
<1>1. /\ tx[w].pc = "write" /\ tx' = [tx EXCEPT ![w] = t]
      /\ cache'  = [k \in Key |-> IF k \in gone THEN None ELSE cache[k]]
      /\ flight' = [k \in Key |-> IF k \in gone THEN None ELSE flight[k]]
      /\ UNCHANGED <<book, since, clock, restarts, sending, sent>>
  BY DEF Answer, rest
<1>2. Frame
  BY <1>1 DEF Frame
<1>3. /\ TypeOK /\ w \in Req /\ WriterFormed(w) /\ tx[w] \in Transaction
  BY Fields DEF ReadInv, Req
<1>4. t \in Transaction /\ t.pc = "answered" /\ t.doc = tx[w].doc /\ t.waits = tx[w].waits
  BY <1>3 DEF Transaction, Label
<1>5. tx'[w] = t
  BY <1>1, <1>3 DEF TypeOK
<1>6. queue' \in Seq(Writers) /\ lost' \subseteq Writers
  <2>1. CASE Announces(tx[w].doc.kind)
    <3>1. CASE Len(queue) >= MaxQueue
      <4>1. queue \in Seq(Writers) /\ queue # <<>> /\ lost \subseteq Writers
        BY <1>3, <3>1, Constants DEF TypeOK
      <4>2. Tail(queue) \in Seq(Writers) /\ Head(queue) \in Writers
        BY <4>1
      <4>3. queue' = Append(Tail(queue), w) /\ lost' = lost \cup {Head(queue)}
        BY <2>1, <3>1 DEF Answer, Enqueue
      <4> QED
        BY <4>1, <4>2, <4>3
    <3>2. CASE ~ (Len(queue) >= MaxQueue)
      <4>1. queue' = Append(queue, w) /\ lost' = lost
        BY <2>1, <3>2 DEF Answer, Enqueue
      <4>2. queue \in Seq(Writers) /\ lost \subseteq Writers
        BY <1>3 DEF TypeOK
      <4> QED
        BY <4>1, <4>2
    <3> QED
      BY <3>1, <3>2
  <2>2. CASE ~ Announces(tx[w].doc.kind)
    BY <1>3, <2>2 DEF Answer, TypeOK
  <2> QED
    BY <2>1, <2>2
<1>7. TypeOK'
  <2>1. cache' \in [Key -> Entry \cup {None}] /\ flight' \in [Key -> Readers \cup {None}]
    BY <1>1, <1>3 DEF TypeOK
  <2>2. tx' \in [Req -> Transaction]
    BY <1>1, <1>3, <1>4 DEF TypeOK
  <2> QED
    BY <1>1, <1>3, <1>6, <2>1, <2>2 DEF TypeOK
<1>8. Owned'
  <2>1. ASSUME NEW k \in Key, flight'[k] # None PROVE k \in tx'[flight'[k]].own
    <3>1. flight'[k] = flight[k] /\ flight[k] \in Readers
      BY <1>1, <1>3, <2>1 DEF TypeOK
    <3>2. tx'[flight[k]] = tx[flight[k]]
      BY <1>1, <1>3, <3>1, Constants DEF TypeOK, Req
    <3> QED
      BY <2>1, <3>1, <3>2 DEF ReadInv, Owned
  <2> QED
    BY <2>1 DEF Owned
<1>9. WriterFormed(w)'
  BY <1>1, <1>3, <1>4, <1>5 DEF WriterFormed
<1>10. Quiet(w)'
  <2>1. \A k \in gone : cache'[k] = None
    BY <1>1, AllClear
  <2>2. tx'[w].pc = "answered" /\ w \notin raced' => Computing' = {}
    BY DEF Marked
  <2> QED
    BY <1>4, <1>5, <2>1, <2>2 DEF Quiet
<1>11. \A k \in Key : cache'[k] \in {cache[k], None}
  BY <1>1
<1> HIDE DEF t, gone
<1> QED
  BY <1>1, <1>2, <1>4, <1>7, <1>8, <1>9, <1>10, <1>11, WriterStep

LEMMA ReadRollBack ==
    ASSUME ReadInv, Marked, NEW w \in Writers, RollBack(w)
    PROVE  ReadInv'
<1> DEFINE t == [tx[w] EXCEPT !.pc = "rolledback"]
<1>1. /\ tx[w].pc \in {"write", "answered"} /\ tx' = [tx EXCEPT ![w] = t]
      /\ UNCHANGED <<cached, mail, rest>>
  BY DEF RollBack
<1>2. Frame
  BY <1>1 DEF Frame, rest
<1>3. /\ TypeOK /\ w \in Req /\ WriterFormed(w) /\ tx[w] \in Transaction
  BY Fields DEF ReadInv, Req
<1>4. t \in Transaction /\ t.pc = "rolledback" /\ t.waits = tx[w].waits
  BY <1>3 DEF Transaction, Label
<1>5. tx'[w] = t
  BY <1>1, <1>3 DEF TypeOK
<1>6. TypeOK'
  BY <1>1, <1>3, <1>4 DEF TypeOK, cached, mail, rest
<1>7. Owned'
  <2>1. \A k \in Key : flight[k] # None => flight[k] \in Readers /\ tx'[flight[k]] = tx[flight[k]]
    BY <1>1, <1>3, Constants DEF TypeOK, Req
  <2> QED
    BY <1>1, <2>1 DEF ReadInv, Owned, cached
<1>8. WriterFormed(w)' /\ Quiet(w)'
  BY <1>1, <1>3, <1>4, <1>5 DEF WriterFormed, Quiet, rest
<1> HIDE DEF t
<1> QED
  BY <1>1, <1>2, <1>4, <1>6, <1>7, <1>8, WriterStep DEF cached

(* A document appears when it is committed: whatever was read before may miss
   it, and nothing that was cleared for it was computed in between. *)
LEMMA ReadCommit ==
    ASSUME ReadInv, Marked, NEW w \in Writers, Commit(w)
    PROVE  ReadInv'
<1> DEFINE t == [tx[w] EXCEPT !.pc = "committed"]
<1>1. /\ tx[w].pc = "answered" /\ tx' = [tx EXCEPT ![w] = t]
      /\ book' = [book EXCEPT ![w] = tx[w].doc] /\ since' = [since EXCEPT ![w] = clock]
      /\ UNCHANGED <<cache, flight, clock, restarts, queue, sending, sent, lost>>
  BY DEF Commit, cached, mail
<1>2. /\ TypeOK /\ w \in Req /\ WriterFormed(w) /\ tx[w] \in Transaction /\ clock \in Nat
      /\ tx[w].doc \in Document /\ tx[w].doc # None
  BY <1>1, Fields DEF ReadInv, Req, WriterFormed, TypeOK
<1>3. t \in Transaction /\ t.pc = "committed" /\ t.waits = tx[w].waits
  BY <1>2 DEF Transaction, Label
<1>4. tx'[w] = t
  BY <1>1, <1>2 DEF TypeOK
<1>5. TypeOK'
  BY <1>1, <1>2, <1>3 DEF TypeOK
<1>6. \A r \in Readers : tx'[r] = tx[r]
  BY <1>1, <1>2, Constants DEF TypeOK, Req
<1>7. Owned'
  <2>1. \A k \in Key : flight[k] # None => flight[k] \in Readers
    BY <1>2 DEF TypeOK
  <2> QED
    BY <1>1, <1>6, <2>1 DEF ReadInv, Owned
<1>8. /\ \A v \in Writers : v # w => book'[v] = book[v] /\ since'[v] = since[v] /\ tx'[v] = tx[v]
      /\ book'[w] = tx[w].doc /\ since'[w] = clock /\ book[w] = None
      /\ \A v \in Writers : since[v] \in Nat
  BY <1>1, <1>2 DEF TypeOK, WriterFormed, Req
<1>9. raced \subseteq raced' /\ raced' \subseteq Writers
  BY DEF Marked, ReadInv
<1>10. WriterFormed(w)' /\ Quiet(w)'
  BY <1>2, <1>3, <1>4, <1>8 DEF WriterFormed, Quiet
<1>11. \A v \in Writers : WriterFormed(v)' /\ Quiet(v)'
  BY <1>1, <1>8, <1>10, WriterStays
<1>12. w \notin raced' => /\ Computing = {}
                          /\ \A k \in Clears(book'[w].kind) : cache[k] = None
  BY <1>1, <1>8, <1>9 DEF ReadInv, Quiet
<1>13. ASSUME NEW k \in Key, NEW S, NEW n \in Int, n <= clock, Sees(k, S, n),
              w \in raced' \/ k \notin Clears(book'[w].kind)
       PROVE  \A v \in Writers \ S : book'[v] # None =>
                 since'[v] >= n /\ (v \in raced' \/ k \notin Clears(book'[v].kind))
  BY <1>2, <1>8, <1>9, <1>13 DEF Sees, Raced, Committed
<1>14. Committed \subseteq Committed' /\ Committed' = {v \in Writers : book'[v] # None}
  BY <1>8 DEF Committed
<1>15. ASSUME NEW r \in Readers PROVE ReaderFormed(r)' /\ WaitFormed(r)'
  <2>1. ReaderFormed(r) /\ WaitFormed(r) /\ r \in Req
    BY DEF ReadInv, Req
  <2>2. ReaderFormed(r)'
    BY <1>1, <1>6, <1>14, <2>1 DEF ReaderFormed, Composed
  <2>3. tx[r].waits # None => tx[r].waits.of \in Readers
    BY <1>2, <2>1, Fields
  <2> QED
    BY <1>6, <2>1, <2>2, <2>3 DEF WaitFormed
<1>16. ASSUME NEW r \in Readers PROVE Reads(r)'
  <2>1. CASE tx[r].pc \notin Busy
    BY <1>6, <2>1 DEF Reads, ReadInv, ReaderFormed, Busy
  <2>2. CASE tx[r].pc \in Busy
    <3>1. w \in raced' /\ Reads(r) /\ ReaderFormed(r) /\ r \in Req
      BY <1>12, <2>2 DEF Computing, Busy, ReadInv, Req
    <3>2. tx[r].start \in Nat /\ tx[r].start <= clock
      BY <1>2, <2>2, <3>1, Fields DEF ReaderFormed
    <3> DEFINE Later(k, S, n) == \A v \in Writers \ S : book'[v] # None =>
                 since'[v] >= n /\ (v \in raced' \/ k \notin Clears(book'[v].kind))
    <3>3. ASSUME NEW S, NEW k \in Key, NEW n \in Int, n <= clock, Sees(k, S, n)
          PROVE  Later(k, S, n)
      BY <1>13, <3>1, <3>3
    <3> HIDE DEF Later
    <3>4. {tx[r].start, tx[r].start - Ttl - Limit + 1, Floor(r)} \subseteq {n \in Int : n <= clock}
      BY <1>2, <3>2, Constants DEF Floor
    <3>5. {"statements", KeyOf(tx[r].op)} \subseteq Key
      BY DEF Key, KeyOf
    <3>6. Floor(r)' = Floor(r) /\ Shown(r)' = Shown(r) /\ Composed(r)' = Composed(r)
      BY <1>1, <1>6 DEF Floor, Shown, Composed
    <3> DEFINE u == tx[r]
               x == tx[r].value
    <3>7. "statements" \in u.own =>
             /\ u.pc \in {"open", "rows"} => Later("statements", x.lines, u.start)
             /\ u.pc = "rows" /\ Composed(r) => Later("statements", x.open, u.start)
      BY <3>1, <3>3, <3>4, <3>5 DEF Reads
    <3>8. "statements" \notin u.own /\ Composed(r) =>
             /\ u.pc = "open" /\ u.waits = None =>
                  Later("statements", x.lines \cap x.rows, u.start - Ttl - Limit + 1)
             /\ u.pc = "wait" /\ u.waits.key = "statements" => Later("statements", x.open, u.start)
      BY <3>1, <3>3, <3>4, <3>5 DEF Reads
    <3>9. u.pc = "resume" => Later(KeyOf(u.op), Shown(r), Floor(r))
      BY <3>1, <3>3, <3>4, <3>5 DEF Reads
    <3> QED
      BY <1>6, <1>14, <3>6, <3>7, <3>8, <3>9 DEF Reads, Sees, Raced, Later
  <2> QED
    BY <2>1, <2>2
<1>17. ASSUME NEW r \in Readers PROVE Has(r)'
  <2>1. Has(r) /\ ReaderFormed(r) /\ r \in Req
    BY DEF ReadInv, Req
  <2>2. tx[r].start \in Nat /\ tx[r].at \in Nat /\ tx[r].at <= clock /\ tx[r].known \subseteq Committed
    BY <1>2, <2>1, Fields DEF ReaderFormed
  <2>3. w \notin tx[r].known
    BY <1>8, <2>2 DEF Committed
  <2>4. Floor(r)' = Floor(r) /\ Shown(r)' = Shown(r)
    BY <1>1, <1>6 DEF Floor, Shown
  <2>5. tx[r].pc = "store" => Floor(r) \in Int /\ Floor(r) <= clock
    BY <1>2, <2>1, <2>2, Constants DEF Floor, ReaderFormed
  <2>6. tx[r].at - clock < Horizon(tx[r].op)
    BY <1>2, <2>2, Constants DEF Horizon
  <2>7. tx[r].pc = "store" => \A v \in Committed' \ Shown(r) : since'[v] >= Floor(r)
    BY <1>2, <1>8, <2>1, <2>5 DEF Has, Committed
  <2>8. tx[r].pc = "answered" => \A v \in Committed' \ Shown(r) : tx[r].at - since'[v] < Horizon(tx[r].op)
    BY <1>2, <1>8, <2>1, <2>6 DEF Has, Committed
  <2>9. \A v \in tx[r].known : Raced(KeyOf(tx[r].op), v) => v \in raced' \/ KeyOf(tx[r].op) \notin Clears(book'[v].kind)
    BY <1>8, <1>9, <2>2, <2>3 DEF Raced, Committed
  <2> QED
    BY <1>6, <2>1, <2>4, <2>7, <2>8, <2>9 DEF Has, Raced
<1>18. ASSUME NEW k \in Key PROVE Kept(k)'
  <2>1. CASE cache[k] = None
    BY <1>1, <2>1 DEF Kept
  <2>2. CASE cache[k] # None
    <3>1. Kept(k) /\ cache[k] \in Entry
      BY <1>2, <2>2 DEF ReadInv, TypeOK
    <3>2. w \in raced' \/ k \notin Clears(book'[w].kind)
      BY <1>12, <2>2
    <3>3. cache[k].expires \in Nat /\ cache[k].expires <= clock + Ttl
      BY <2>2, <3>1 DEF Kept, Entry
    <3>4. EntryFloor(k) \in Int /\ EntryFloor(k) <= clock
      BY <1>2, <3>3, Constants DEF EntryFloor
    <3>5. EntryFloor(k)' = EntryFloor(k)
      BY <1>1 DEF EntryFloor
    <3>6. Sees(k, Shows(ReadOf(k), cache[k].value), EntryFloor(k))
      BY <2>2, <3>1 DEF Kept
    <3>7. \A v \in Writers \ Shows(ReadOf(k), cache[k].value) : book'[v] # None =>
            since'[v] >= EntryFloor(k) /\ (v \in raced' \/ k \notin Clears(book'[v].kind))
      BY <1>13, <3>2, <3>4, <3>6
    <3> QED
      BY <1>1, <1>14, <3>3, <3>5, <3>7 DEF Kept, Sees, Raced
  <2> QED
    BY <2>1, <2>2
<1> QED
  BY <1>5, <1>7, <1>9, <1>11, <1>15, <1>16, <1>17, <1>18 DEF ReadInv

-----------------------------------------------------------------------------
(* The clock, the notification worker and the process. *)

(* Time does not pass the limit of a request that waits: the chain of requests
   it waits for ends at one that uses the database, which is no younger. *)
LEMMA WaitsInTime ==
    ASSUME ReadInv, Tick, NEW r \in Readers, tx[r].pc \in Busy \cup {"store"}
    PROVE  clock + 1 <= tx[r].start + Limit
<1>1. /\ TypeOK /\ clock \in Nat /\ Limit \in Nat
      /\ \A q \in Readers : /\ q \in Req /\ tx[q].start \in Nat /\ ReaderFormed(q) /\ WaitFormed(q)
                            /\ tx[q].waits # None => tx[q].waits.of \in Readers /\ tx[q].waits.key \in Key
  BY Fields, Constants DEF ReadInv, TypeOK, Req
<1>2. /\ \A q \in Readers : tx[q].pc \in {"lines", "open", "rows", "store"} => clock - tx[q].start < Limit
      /\ \A q \in Readers : tx[q].pc \notin {"resume", "broken"}
  BY <1>1 DEF Tick, InDatabase
<1>3. ASSUME NEW q \in Readers, tx[q].pc = "wait"
      PROVE  /\ tx[q].waits.of \in Readers /\ tx[q].waits.key \in tx[tx[q].waits.of].own
             /\ tx[tx[q].waits.of].start <= tx[q].start
             /\ tx[tx[q].waits.of].pc \in {"lines", "open", "rows", "wait"}
  BY <1>1, <1>2, <1>3 DEF ReaderFormed, WaitFormed, Busy
<1>4. CASE tx[r].pc # "wait"
  BY <1>1, <1>2, <1>4 DEF Busy
<1>5. CASE tx[r].pc = "wait"
  <2> DEFINE q == tx[r].waits.of
  <2>1. q \in Readers /\ tx[q].start <= tx[r].start /\ tx[q].pc \in {"lines", "open", "rows", "wait"}
        /\ tx[r].waits.key \in tx[q].own
    BY <1>3, <1>5
  <2>2. CASE tx[q].pc # "wait"
    BY <1>1, <1>2, <2>1, <2>2
  <2>3. CASE tx[q].pc = "wait"
    <3> DEFINE p == tx[q].waits.of
    <3>1. p \in Readers /\ tx[p].start <= tx[q].start /\ tx[q].waits.key \in tx[p].own
      BY <1>3, <2>1, <2>3
    <3>2. tx[q].waits.key = "statements"
      <4>1. tx[q].waits # None /\ tx[q].own # {} /\ tx[q].own \subseteq Key
        BY <1>1, <2>1, <2>3, Fields DEF ReaderFormed
      <4>2. "statements" \notin tx[q].own /\ "list" \notin tx[q].own
        BY <1>1, <2>1, <4>1 DEF WaitFormed
      <4>3. "dashboard" \in tx[q].own
        BY <4>1, <4>2 DEF Key
      <4>4. tx[q].op = "DASHBOARD"
        BY <1>1, <2>1, <4>3 DEF ReaderFormed
      <4> QED
        BY <1>1, <2>1, <4>1, <4>4 DEF WaitFormed, Key
    <3>3. tx[p].pc \in {"lines", "open", "rows"}
      <4>1. \A x \in Readers : "statements" \in tx[x].own => tx[x].pc \in {"lines", "open", "rows"}
        BY <1>1 DEF ReaderFormed
      <4>2. p \in Readers /\ "statements" \in tx[p].own
        BY <3>1, <3>2
      <4> HIDE DEF p
      <4> QED
        BY <4>1, <4>2
    <3> HIDE DEF p, q
    <3> QED
      BY <1>1, <1>2, <2>1, <3>1, <3>3
  <2> QED
    BY <2>2, <2>3
<1> QED
  BY <1>4, <1>5

LEMMA ReadTick ==
    ASSUME ReadInv, Marked, Tick
    PROVE  ReadInv'
<1>1. /\ clock' = clock + 1 /\ tx' = tx /\ book' = book /\ since' = since
      /\ cache' = cache /\ flight' = flight
      /\ UNCHANGED <<queue, sending, sent, lost, restarts>>
  BY DEF Tick, cached, mail
<1>2. TypeOK /\ clock \in Nat /\ clock' \in Nat
  BY <1>1 DEF ReadInv, TypeOK
<1>3. TypeOK'
  BY <1>1, <1>2 DEF TypeOK
<1>4. raced \subseteq raced' /\ raced' \subseteq Writers
  BY DEF Marked, ReadInv
<1>5. Owned'
  BY <1>1 DEF ReadInv, Owned
<1>6. \A w \in Writers : WriterFormed(w)' /\ Quiet(w)'
  BY <1>1, WriterStays
<1>7. ASSUME NEW r \in Readers PROVE ReaderFormed(r)' /\ WaitFormed(r)' /\ Reads(r)' /\ Has(r)'
  <2>1. /\ ReaderFormed(r) /\ WaitFormed(r) /\ Reads(r) /\ Has(r) /\ r \in Req
        /\ tx[r].start \in Nat /\ tx[r].at \in Nat /\ tx[r].pc # "resume"
    BY <1>2, Fields DEF ReadInv, Req, Tick
  <2>2. ReaderFormed(r)'
    <3>1. tx[r].pc \in Busy \cup {"store"} => tx[r].start <= clock' /\ clock' <= tx[r].start + Limit
      BY <1>1, <1>2, <2>1, WaitsInTime DEF ReaderFormed
    <3>2. tx[r].at <= clock'
      BY <1>1, <1>2, <2>1 DEF ReaderFormed
    <3> QED
      BY <1>1, <2>1, <3>1, <3>2 DEF ReaderFormed, Committed, Composed
  <2>3. WaitFormed(r)'
    BY <1>1, <2>1 DEF WaitFormed
  <2>4. Reads(r)'
    BY <1>1, <1>4, <2>1 DEF Reads, Sees, Raced, Committed, Composed
  <2>5. tx[r].pc = "store" => Floor(r)' = Floor(r)
    BY <1>1, <2>1 DEF Floor, ReaderFormed
  <2>6. Has(r)'
    BY <1>1, <1>4, <2>1, <2>5 DEF Has, Raced, Committed, Shown
  <2> QED
    BY <2>2, <2>3, <2>4, <2>6
<1>8. ASSUME NEW k \in Key PROVE Kept(k)'
  <2>1. Kept(k) /\ (cache[k] # None => cache[k].expires \in Nat)
    BY <1>2 DEF ReadInv, TypeOK, Entry
  <2> QED
    BY <1>1, <1>2, <1>4, <2>1, Constants DEF Kept, Sees, Raced, Committed, EntryFloor
<1> QED
  BY <1>3, <1>4, <1>5, <1>6, <1>7, <1>8 DEF ReadInv

(* Steps that touch neither requests nor caches. *)
LEMMA ReadMail ==
    ASSUME ReadInv, Frame, tx' = tx, cache' = cache, flight' = flight, TypeOK'
    PROVE  ReadInv'
<1>1. \A w \in Writers : WriterFormed(w)' /\ Quiet(w)'
  BY WriterStays DEF Frame
<1>2. \A r \in Readers : ReaderFormed(r)' /\ Reads(r)' /\ Has(r)'
  BY ReaderStays
<1>3. \A r \in Readers : WaitFormed(r)'
  BY DEF ReadInv, WaitFormed
<1>4. \A k \in Key : Kept(k)'
  BY KeptStays
<1>5. Owned' /\ raced' \subseteq Writers
  BY DEF ReadInv, Owned, Frame, Marked
<1> QED
  BY <1>1, <1>2, <1>3, <1>4, <1>5 DEF ReadInv

LEMMA ReadTickWorker ==
    ASSUME ReadInv, Marked, TickWorker
    PROVE  ReadInv'
<1>1. /\ sending' = Head(queue) /\ queue' = Tail(queue) /\ queue # <<>>
      /\ tx' = tx /\ cache' = cache /\ flight' = flight
      /\ UNCHANGED <<book, since, clock, restarts, sent, lost>>
  BY DEF TickWorker, cached, rest
<1>2. Head(queue) \in Writers /\ Tail(queue) \in Seq(Writers)
  BY <1>1 DEF ReadInv, TypeOK
<1>3. TypeOK'
  BY <1>1, <1>2 DEF ReadInv, TypeOK
<1> QED
  BY <1>1, <1>3, ReadMail DEF Frame

LEMMA ReadDispatch ==
    ASSUME ReadInv, Marked, Dispatch
    PROVE  ReadInv'
<1>1. /\ sending # None /\ sent' = Append(sent, sending) /\ sending' = None
      /\ tx' = tx /\ cache' = cache /\ flight' = flight
      /\ UNCHANGED <<book, since, clock, restarts, queue, lost>>
  BY DEF Dispatch, cached, rest
<1>2. Append(sent, sending) \in Seq(Writers)
  BY <1>1 DEF ReadInv, TypeOK
<1>3. TypeOK'
  BY <1>1, <1>2 DEF ReadInv, TypeOK
<1> QED
  BY <1>1, <1>3, ReadMail DEF Frame

(* A restart ends every request and empties the caches. *)
LEMMA ReadRestart ==
    ASSUME ReadInv, Marked, Restart
    PROVE  ReadInv'
<1>1. /\ restarts' = restarts + 1
      /\ cache' = [k \in Key |-> None] /\ flight' = [k \in Key |-> None]
      /\ queue' = <<>> /\ sending' = None
      /\ lost' = lost \cup {queue[i] : i \in DOMAIN queue} \cup ({sending} \ {None})
      /\ tx' = [r \in Req |-> IF r \in InFlight
                              THEN Blank(IF r \in Writers THEN "rolledback" ELSE "failed")
                              ELSE tx[r]]
      /\ UNCHANGED <<book, since, clock, sent>>
  BY DEF Restart
<1>2. TypeOK
  BY DEF ReadInv
<1>3. Blank("rolledback") \in Transaction /\ Blank("failed") \in Transaction
  BY BlankType DEF Label
<1>4. TypeOK'
  <2>1. tx' \in [Req -> Transaction]
    BY <1>1, <1>2, <1>3 DEF TypeOK
  <2>2. lost' \subseteq Writers
    BY <1>1, <1>2 DEF TypeOK
  <2> QED
    BY <1>1, <1>2, <2>1, <2>2 DEF TypeOK
<1>5. Frame
  BY <1>1 DEF Frame
<1>6. ASSUME NEW r \in Readers
      PROVE  /\ tx'[r] = tx[r] /\ tx[r].pc \notin Busy
             \/ tx'[r] = Blank("failed")
  BY <1>1, Constants DEF Req, InFlight, InDatabase, Computing, Busy
<1>7. ASSUME NEW r \in Readers PROVE ReaderFormed(r)' /\ WaitFormed(r)' /\ Reads(r)' /\ Has(r)'
  <2>1. CASE tx'[r] = tx[r] /\ tx[r].pc \notin Busy
    <3>1. tx[r].waits = None
      BY <2>1 DEF ReadInv, ReaderFormed
    <3> QED
      BY <1>5, <2>1, <3>1, ReaderStays DEF WaitFormed
  <2>2. CASE tx'[r] = Blank("failed")
    <3>1. /\ tx'[r].pc = "failed" /\ tx'[r].own = {} /\ tx'[r].waits = None
          /\ tx'[r].known = {} /\ tx'[r].at = 0
      BY <2>2, BlankType DEF Label
    <3>2. clock' \in Nat
      BY <1>4 DEF TypeOK
    <3> QED
      BY <3>1, <3>2 DEF ReaderFormed, WaitFormed, Reads, Has, Busy
  <2> QED
    BY <1>6, <2>1, <2>2
<1>8. ASSUME NEW w \in Writers PROVE WriterFormed(w)' /\ Quiet(w)'
  <2>1. CASE w \in InFlight
    <3>1. tx[w].pc \in {"write", "answered"}
      BY <2>1, Constants DEF InFlight, Computing, InDatabase
    <3>2. /\ tx'[w].pc = "rolledback" /\ tx'[w].waits = None
      BY <1>1, <2>1, BlankType DEF Req, Label
    <3> QED
      BY <1>1, <3>1, <3>2 DEF ReadInv, WriterFormed, Quiet
  <2>2. CASE w \notin InFlight
    <3>1. tx'[w] = tx[w]
      BY <1>1, <2>2 DEF Req
    <3> QED
      BY <1>1, <3>1, WriterStays
  <2> QED
    BY <2>1, <2>2
<1>9. (\A k \in Key : Kept(k)') /\ Owned'
  BY <1>1 DEF Kept, Owned
<1>10. raced' \subseteq Writers
  BY DEF Marked, ReadInv
<1> QED
  BY <1>4, <1>7, <1>8, <1>9, <1>10 DEF ReadInv

-----------------------------------------------------------------------------
(* Readers. *)

(* What is known of a reader. *)
LEMMA Reader ==
    ASSUME ReadInv, NEW r \in Readers
    PROVE  /\ r \in Req /\ TypeOK /\ ReaderFormed(r) /\ WaitFormed(r) /\ Reads(r) /\ Has(r)
           /\ tx[r] \in Transaction /\ tx[r].op \in Read /\ tx[r].pc \in Label
           /\ tx[r].start \in Nat /\ tx[r].at \in Nat /\ clock \in Nat
           /\ tx[r].own \subseteq Key /\ tx[r].value \in Report
           /\ tx[r].waits # None => tx[r].waits.of \in Readers /\ tx[r].waits.key \in Key
           /\ \A w \in Writers : since[w] \in Nat
<1>1. r \in Req /\ TypeOK /\ ReaderFormed(r) /\ WaitFormed(r) /\ Reads(r) /\ Has(r)
  BY DEF ReadInv, Req
<1>2. clock \in Nat /\ \A w \in Writers : since[w] \in Nat
  BY <1>1 DEF TypeOK
<1> QED
  BY <1>1, <1>2, Fields

(* A step of one reader that settles nothing. *)
LEMMA ReaderStep ==
    ASSUME ReadInv, Frame, NEW r \in Readers, NEW t \in Transaction,
           tx' = [tx EXCEPT ![r] = t],
           tx[r].own \subseteq t.own, tx[r].own # {} => t.start = tx[r].start,
           TypeOK', Owned',
           \A k \in Key : cache'[k] \in {cache[k], None},
           ReaderFormed(r)', WaitFormed(r)', Reads(r)', Has(r)'
    PROVE  ReadInv'
<1>1. /\ \A q \in Readers : q # r => tx'[q] = tx[q]
      /\ \A w \in Writers : tx'[w] = tx[w]
      /\ tx'[r] = t
  BY Constants DEF ReadInv, TypeOK, Req
<1>2. \A w \in Writers : WriterFormed(w)' /\ Quiet(w)'
  BY <1>1, WriterStays DEF Frame
<1>3. ASSUME NEW q \in Readers, q # r PROVE ReaderFormed(q)' /\ WaitFormed(q)' /\ Reads(q)' /\ Has(q)'
  <2>1. ReaderFormed(q)' /\ Reads(q)' /\ Has(q)'
    BY <1>1, <1>3, ReaderStays
  <2>2. ASSUME tx[q].waits # None
        PROVE  LET p == tx[q].waits.of
               IN  tx[q].waits.key \in tx'[p].own /\ tx'[p].start <= tx[q].start
    <3> DEFINE p == tx[q].waits.of
    <3>1. p \in Readers /\ tx[q].waits.key \in tx[p].own /\ tx[p].start <= tx[q].start
      BY <2>2, Reader DEF WaitFormed
    <3> QED
      BY <1>1, <3>1
  <2>3. WaitFormed(q)'
    BY <1>1, <1>3, <2>2, Reader DEF WaitFormed
  <2> QED
    BY <2>1, <2>3
<1>4. \A k \in Key : Kept(k)'
  BY KeptStays
<1>5. raced' \subseteq Writers
  BY DEF Frame, Marked, ReadInv
<1> QED
  BY <1>2, <1>3, <1>4, <1>5 DEF ReadInv

LEMMA ReadReadLines ==
    ASSUME ReadInv, Marked, NEW r \in Readers, ReadLines(r)
    PROVE  ReadInv'
<1> DEFINE t == [tx[r] EXCEPT !.value.lines = Committed, !.pc = IF Composed(r) THEN "open" ELSE "rows"]
<1>1. tx[r].pc = "lines" /\ tx' = [tx EXCEPT ![r] = t] /\ UNCHANGED <<cached, mail, rest>>
  BY DEF ReadLines
<1>2. Frame
  BY <1>1 DEF Frame, rest
<1>3. /\ tx[r] \in Transaction /\ TypeOK /\ ReaderFormed(r) /\ r \in Req
      /\ "statements" \in tx[r].own
  BY <1>1, Reader DEF ReaderFormed
<1>4. /\ t \in Transaction /\ t.op = tx[r].op /\ t.own = tx[r].own /\ t.start = tx[r].start
      /\ t.waits = tx[r].waits /\ t.known = tx[r].known /\ t.at = tx[r].at
      /\ t.value.lines = Committed /\ t.pc = IF Composed(r) THEN "open" ELSE "rows"
  BY <1>3 DEF Transaction, Report, Label, Committed
<1>5. tx'[r] = t
  BY <1>1, <1>3 DEF TypeOK
<1>6. TypeOK'
  BY <1>1, <1>3, <1>4 DEF TypeOK, cached, mail, rest
<1>7. Owned'
  <2>1. \A q \in Readers : tx'[q].own = tx[q].own
    BY <1>1, <1>3, <1>4 DEF TypeOK, Req
  <2> QED
    BY <1>1, <1>3, <2>1 DEF ReadInv, Owned, cached, TypeOK
<1> HIDE DEF t
<1>8. tx[r].waits = None
  BY <1>3, Reader DEF WaitFormed
<1>9. ReaderFormed(r)' /\ WaitFormed(r)' /\ Has(r)'
  BY <1>1, <1>2, <1>3, <1>4, <1>5, <1>8 DEF ReaderFormed, WaitFormed, Has, Composed, Busy, Committed, Frame
<1>10. Reads(r)'
  BY <1>2, <1>3, <1>4, <1>5 DEF Reads, Sees, Composed, Committed, Frame
<1> QED
  BY <1>1, <1>2, <1>4, <1>6, <1>7, <1>9, <1>10, ReaderStep DEF cached

LEMMA ReadStoreSnapshot ==
    ASSUME ReadInv, Marked, NEW r \in Readers, StoreSnapshot(r)
    PROVE  ReadInv'
<1> DEFINE t == [tx[r] EXCEPT !.pc = "answered", !.value = tx[r].value, !.at = clock, !.start = 0,
                              !.own = {}, !.waits = None]
<1>1. tx[r].pc = "store" /\ tx' = [tx EXCEPT ![r] = t] /\ UNCHANGED <<cached, mail, rest>>
  BY DEF StoreSnapshot, Stop
<1>2. Frame
  BY <1>1 DEF Frame, rest
<1>3. /\ tx[r] \in Transaction /\ TypeOK /\ ReaderFormed(r) /\ r \in Req /\ Has(r) /\ clock \in Nat
      /\ tx[r].own = {} /\ tx[r].op = "SNAPSHOT" /\ tx[r].start \in Nat /\ clock <= tx[r].start + Limit
      /\ \A w \in Writers : since[w] \in Nat
  BY <1>1, Reader DEF ReaderFormed, Busy
<1>4. /\ t \in Transaction /\ t.op = tx[r].op /\ t.own = {} /\ t.start = 0
      /\ t.waits = None /\ t.known = tx[r].known /\ t.at = clock
      /\ t.value = tx[r].value /\ t.pc = "answered"
  BY <1>3 DEF Transaction, Label
<1>5. tx'[r] = t
  BY <1>1, <1>3 DEF TypeOK
<1>6. TypeOK'
  BY <1>1, <1>3, <1>4 DEF TypeOK, cached, mail, rest
<1>7. Owned'
  <2>1. \A q \in Readers : tx'[q].own = tx[q].own
    BY <1>1, <1>3, <1>4 DEF TypeOK, Req
  <2> QED
    BY <1>1, <1>3, <2>1 DEF ReadInv, Owned, cached, TypeOK
<1> HIDE DEF t
<1>8. ReaderFormed(r)' /\ WaitFormed(r)' /\ Reads(r)'
  BY <1>2, <1>3, <1>4, <1>5 DEF ReaderFormed, WaitFormed, Reads, Composed, Busy, Committed, Frame
<1>9. \A w \in Committed \ Shown(r) : clock - since[w] < Horizon("SNAPSHOT")
  BY <1>1, <1>3, Constants DEF Has, Floor, Horizon, Committed
<1>10. Has(r)'
  BY <1>1, <1>2, <1>3, <1>4, <1>5, <1>9 DEF Has, Shown, Committed, Frame, Raced, Marked
<1> QED
  BY <1>1, <1>2, <1>3, <1>4, <1>6, <1>7, <1>8, <1>10, ReaderStep DEF cached

(* A reader goes on once the promise it waits for is settled or broken. *)
Waiter(q, r) == tx[q].waits # None /\ tx[q].waits.of = r /\ tx[q].waits.key \in tx[r].own

(* A request that waits for r waits for something r computes, writers wait for
   nothing, and nobody waits for itself. *)
LEMMA Waiters ==
    ASSUME ReadInv, NEW r \in Readers
    PROVE  /\ \A w \in Writers : ~ Waiter(w, r) /\ w # r
           /\ \A q \in Readers : tx[q].waits # None /\ tx[q].waits.of = r => Waiter(q, r)
           /\ \A q \in Readers : Waiter(q, r) => /\ tx[q].pc \in {"open", "wait"}
                                                 /\ "statements" \notin tx[q].own
                                                 /\ "list" \notin tx[q].own
BY Reader, Constants DEF Waiter, WaitFormed, ReadInv, WriterFormed

(* A step that ends the computations of r: its waiters go on, everybody else
   stays. *)
LEMMA EndStep ==
    ASSUME ReadInv, Frame, NEW r \in Readers, tx[r].pc \in Busy \cup {"store"},
           TypeOK',
           \A q \in Req : q # r /\ ~ Waiter(q, r) => tx'[q] = tx[q],
           \A q \in Readers : q # r /\ Waiter(q, r) =>
               tx'[q].waits = None /\ tx'[q].own = tx[q].own /\ tx'[q].start = tx[q].start,
           flight' = [k \in Key |-> IF k \in tx[r].own THEN None ELSE flight[k]],
           Computing = {} => cache' = cache,
           \A k \in Key : Kept(k)',
           \A q \in Readers : q = r \/ Waiter(q, r) => ReaderFormed(q)' /\ Reads(q)' /\ Has(q)',
           tx'[r].waits = None
    PROVE  ReadInv'
<1>1. \A w \in Writers : tx'[w] = tx[w]
  BY Waiters DEF Req
<1>2. \A w \in Writers : WriterFormed(w)' /\ Quiet(w)'
  BY <1>1, WriterStays DEF Frame
<1>3. ASSUME NEW q \in Readers PROVE ReaderFormed(q)' /\ WaitFormed(q)' /\ Reads(q)' /\ Has(q)'
  <2>1. CASE q = r \/ Waiter(q, r)
    BY <2>1 DEF WaitFormed
  <2>2. CASE q # r /\ ~ Waiter(q, r)
    <3>1. tx'[q] = tx[q]
      BY <2>2 DEF Req
    <3>2. ReaderFormed(q)' /\ Reads(q)' /\ Has(q)'
      BY <3>1, ReaderStays
    <3>3. ASSUME tx[q].waits # None
          PROVE  LET p == tx[q].waits.of
                 IN  tx[q].waits.key \in tx'[p].own /\ tx'[p].start <= tx[q].start
      <4> DEFINE p == tx[q].waits.of
      <4>1. p \in Readers /\ p # r /\ tx[q].waits.key \in tx[p].own /\ tx[p].start <= tx[q].start
        BY <2>2, <3>3, Reader, Waiters DEF WaitFormed
      <4>2. tx'[p].own = tx[p].own /\ tx'[p].start = tx[p].start
        BY <4>1 DEF Req
      <4> QED
        BY <4>1, <4>2
    <3>4. WaitFormed(q)'
      BY <3>1, <3>3, Reader DEF WaitFormed
    <3> QED
      BY <3>2, <3>4
  <2> QED
    BY <2>1, <2>2
<1>4. Owned'
  <2>1. ASSUME NEW k \in Key, flight'[k] # None PROVE k \in tx'[flight'[k]].own
    <3>1. k \notin tx[r].own /\ flight'[k] = flight[k] /\ flight[k] \in Readers
      BY <2>1 DEF ReadInv, TypeOK
    <3>2. k \in tx[flight[k]].own /\ flight[k] # r
      BY <2>1, <3>1 DEF ReadInv, Owned
    <3> QED
      BY <3>1, <3>2 DEF Req
  <2> QED
    BY <2>1 DEF Owned
<1>5. raced' \subseteq Writers
  BY DEF Frame, Marked, ReadInv
<1> QED
  BY <1>2, <1>3, <1>4, <1>5 DEF ReadInv

LEMMA ReadFail ==
    ASSUME ReadInv, Marked, NEW r \in Readers, Fail(r)
    PROVE  ReadInv'
<1>1. /\ tx[r].pc \in {"lines", "open", "rows", "store", "broken"}
      /\ flight' = [k \in Key |-> IF k \in tx[r].own THEN None ELSE flight[k]]
      /\ tx' = [q \in Req |-> IF q = r THEN Blank("failed")
                              ELSE IF Waiter(q, r) THEN [tx[q] EXCEPT !.pc = "broken", !.waits = None]
                              ELSE tx[q]]
      /\ cache' = cache /\ UNCHANGED <<mail, rest>>
  BY DEF Fail, Waiter
<1>2. Frame
  BY <1>1 DEF Frame, rest
<1>3. TypeOK /\ r \in Req
  BY Reader
<1>4. /\ tx'[r] \in Transaction /\ tx'[r].pc = "failed" /\ tx'[r].own = {} /\ tx'[r].waits = None
      /\ tx'[r].known = {} /\ tx'[r].at = 0
  BY <1>1, <1>3, BlankType DEF Label
<1>5. ASSUME NEW q \in Readers, q # r, Waiter(q, r)
      PROVE  /\ tx'[q] \in Transaction /\ tx'[q].pc = "broken" /\ tx'[q].waits = None
             /\ tx'[q].own = tx[q].own /\ tx'[q].start = tx[q].start /\ tx'[q].op = tx[q].op
             /\ tx'[q].known = tx[q].known /\ tx'[q].at = tx[q].at
  <2>1. tx[q] \in Transaction /\ q \in Req
    BY Reader
  <2> QED
    BY <1>1, <1>5, <2>1 DEF Transaction, Label
<1>6. \A q \in Req : q # r /\ ~ Waiter(q, r) => tx'[q] = tx[q]
  BY <1>1
<1>7. TypeOK'
  <2>1. \A q \in Req : tx'[q] \in Transaction
    BY <1>3, <1>4, <1>5, <1>6, Waiters, Fields DEF Req
  <2>2. tx' \in [Req -> Transaction]
    BY <1>1, <2>1
  <2>3. flight' \in [Key -> Readers \cup {None}]
    BY <1>1, <1>3 DEF TypeOK
  <2> QED
    BY <1>1, <1>3, <2>2, <2>3 DEF TypeOK, mail, rest
<1>8. ReaderFormed(r)' /\ Reads(r)' /\ Has(r)'
  <2>1. clock' \in Nat
    BY <1>7 DEF TypeOK
  <2> QED
    BY <1>4, <2>1 DEF ReaderFormed, Reads, Has, Busy
<1>9. ASSUME NEW q \in Readers, q # r, Waiter(q, r) PROVE ReaderFormed(q)' /\ Reads(q)' /\ Has(q)'
  <2>1. /\ tx[q].pc \in {"open", "wait"} /\ "statements" \notin tx[q].own /\ "list" \notin tx[q].own
        /\ ReaderFormed(q)
    BY <1>9, Waiters, Reader
  <2> QED
    BY <1>2, <1>5, <1>9, <2>1 DEF ReaderFormed, Reads, Has, Busy, Composed, Committed, Frame
<1>10. \A k \in Key : Kept(k)'
  BY <1>1, <1>2, KeptStays
<1> QED
  BY <1>1, <1>2, <1>4, <1>5, <1>6, <1>7, <1>8, <1>9, <1>10, EndStep DEF Busy

(* A later time is no better: what is seen up to n is seen up to m <= n. *)
LEMMA SeesLess ==
    ASSUME NEW k, NEW S, NEW n \in Int, NEW m \in Int, m <= n, \A w \in Writers : since[w] \in Nat,
           Sees(k, S, n)
    PROVE  Sees(k, S, m)
BY DEF Sees, Committed

(* A promise is fulfilled with v, which shows what the report of r must show. *)
LEMMA ReadSettle ==
    ASSUME ReadInv, Frame, NEW r \in Readers, NEW v \in Report,
           tx[r].pc \in {"open", "rows", "resume"}, tx[r].waits = None,
           UNCHANGED mail, restarts' = restarts, Settle(r, tx[r].own, v, Outcome(r)),
           Sees(KeyOf(tx[r].op), Shows(tx[r].op, v), Floor(r)),
           "statements" \in tx[r].own => Sees("statements", v.lines \cap v.rows, tx[r].start)
    PROVE  ReadInv'
<1> DEFINE ks == tx[r].own
           passed(q) == IF tx[q].waits.key = "statements" THEN [v EXCEPT !.open = tx[q].value.open] ELSE v
<1>1. /\ cache' = [k \in Key |-> IF k \in ks THEN [value |-> Part(k, v), expires |-> clock + Ttl]
                                 ELSE cache[k]]
      /\ flight' = [k \in Key |-> IF k \in ks THEN None ELSE flight[k]]
      /\ tx' = [q \in Req |->
                  IF q = r THEN Stop(r, Outcome(r), v)[r]
                  ELSE IF Waiter(q, r)
                  THEN [tx[q] EXCEPT !.waits = None, !.value = passed(q),
                                     !.pc = IF tx[q].pc = "wait" THEN "resume" ELSE @]
                  ELSE tx[q]]
  BY DEF Settle, Waiter
<1>2. /\ r \in Req /\ TypeOK /\ ReaderFormed(r) /\ tx[r] \in Transaction /\ clock \in Nat
      /\ tx[r].start \in Nat /\ tx[r].start <= clock /\ clock <= tx[r].start + Limit
      /\ tx[r].op \in Read /\ ks \subseteq Key
      /\ \A w \in Writers : since[w] \in Nat
  BY Reader DEF ReaderFormed, Busy
<1>3. /\ tx'[r] \in Transaction /\ tx'[r].pc = Outcome(r) /\ tx'[r].value = v /\ tx'[r].at = clock
      /\ tx'[r].own = {} /\ tx'[r].waits = None /\ tx'[r].op = tx[r].op
      /\ tx'[r].known = tx[r].known
      /\ tx'[r].start = IF Outcome(r) = "store" THEN tx[r].start ELSE 0
  <2> DEFINE n == IF Outcome(r) = "store" THEN tx[r].start ELSE 0
  <2>1. Stop(r, Outcome(r), v)[r] =
          [tx[r] EXCEPT !.pc = Outcome(r), !.value = v, !.at = clock,
                        !.start = n, !.own = {}, !.waits = None]
    BY <1>2 DEF Stop, TypeOK
  <2>2. Outcome(r) \in Label
    BY DEF Outcome, Label
  <2>3. tx'[r] = Stop(r, Outcome(r), v)[r]
    BY <1>1, <1>2
  <2>4. n \in Nat
    BY <1>2
  <2> HIDE DEF n, ks
  <2> DEFINE t == [tx[r] EXCEPT !.pc = Outcome(r), !.value = v, !.at = clock,
                                !.start = n, !.own = {}, !.waits = None]
  <2>5. tx[r] \in Transaction /\ clock \in Nat
    BY <1>2
  <2>6. /\ t \in Transaction /\ t.pc = Outcome(r) /\ t.value = v /\ t.at = clock
        /\ t.own = {} /\ t.waits = None /\ t.op = tx[r].op
        /\ t.known = tx[r].known /\ t.start = n
    BY <2>2, <2>4, <2>5 DEF Transaction
  <2> QED
    BY <2>1, <2>3, <2>6 DEF n
<1>4. ASSUME NEW q \in Readers, q # r, Waiter(q, r)
      PROVE  /\ tx'[q] \in Transaction /\ tx'[q].waits = None /\ tx'[q].value = passed(q)
             /\ tx'[q].pc = IF tx[q].pc = "wait" THEN "resume" ELSE tx[q].pc
             /\ tx'[q].own = tx[q].own /\ tx'[q].start = tx[q].start /\ tx'[q].op = tx[q].op
             /\ tx'[q].known = tx[q].known /\ tx'[q].at = tx[q].at
  <2>1. tx[q] \in Transaction /\ q \in Req /\ tx[q].value \in Report
    BY Reader
  <2>2. passed(q) \in Report
    BY <2>1 DEF Report
  <2> HIDE DEF passed
  <2> QED
    BY <1>1, <1>4, <2>1, <2>2 DEF Transaction, Label
<1>5. \A q \in Req : q # r /\ ~ Waiter(q, r) => tx'[q] = tx[q]
  BY <1>1
<1>6. TypeOK'
  <2>1. \A q \in Req : tx'[q] \in Transaction
    BY <1>2, <1>3, <1>4, <1>5, Waiters, Fields DEF Req
  <2>2. tx' \in [Req -> Transaction]
    BY <1>1, <2>1
  <2>3. flight' \in [Key -> Readers \cup {None}]
    BY <1>1, <1>2 DEF TypeOK
  <2>4. \A k \in Key : Part(k, v) \in Report
    BY DEF Part, Report
  <2>5. \A k \in Key : [value |-> Part(k, v), expires |-> clock + Ttl] \in Entry
    BY <1>2, <2>4, Constants DEF Entry
  <2>6. cache' \in [Key -> Entry \cup {None}]
    BY <1>1, <1>2, <2>5 DEF TypeOK
  <2> QED
    BY <1>2, <2>2, <2>3, <2>6 DEF TypeOK, mail, Frame
<1>7. Frame /\ raced \subseteq raced' /\ Committed' = Committed
  BY DEF Frame, Marked, Committed
<1>8. /\ "list" \in ks => tx[r].op = "LIST"
      /\ "dashboard" \in ks => tx[r].op = "DASHBOARD"
      /\ "statements" \in ks => tx[r].op # "LIST" /\ Sees("statements", v.lines \cap v.rows, clock - Limit)
  <2>1. "statements" \in ks => Sees("statements", v.lines \cap v.rows, clock - Limit)
    BY <1>2, SeesLess, Constants
  <2> QED
    BY <1>2, <2>1 DEF ReaderFormed
<1> HIDE DEF ks, passed
(* The report of r. *)
<1>9. ReaderFormed(r)' /\ Reads(r)'
  <2>1. Outcome(r) \in {"store", "answered"} /\ (Outcome(r) = "store" <=> tx[r].op = "SNAPSHOT")
    BY DEF Outcome
  <2>2. tx[r].known \subseteq Committed
    BY <1>2 DEF ReaderFormed
  <2> QED
    BY <1>2, <1>3, <1>7, <2>1, <2>2 DEF ReaderFormed, Reads, Composed, Busy, Frame
<1>10. Has(r)'
  <2>1. Shown(r)' = Shows(tx[r].op, v)
    BY <1>3 DEF Shown
  <2>2. \A w \in Committed \ Shows(tx[r].op, v) : since[w] >= Floor(r) /\ Raced(KeyOf(tx[r].op), w)
    BY DEF Sees
  <2>3. tx[r].known \subseteq Committed /\ Committed \subseteq Writers
    BY <1>2 DEF ReaderFormed, Committed
  <2>4. Outcome(r) = "store" => Floor(r)' = Floor(r)
    BY <1>3 DEF Floor, Outcome
  <2>5. Outcome(r) # "store" => \A w \in Committed \ Shows(tx[r].op, v) : clock - since[w] < Horizon(tx[r].op)
    BY <1>2, <2>2, <2>3, Constants DEF Horizon, Floor, Outcome, Read
  <2>6. book' = book
    BY <1>7 DEF Frame
  <2>7. /\ tx'[r].pc = "store" => \A w \in Committed \ Shows(tx[r].op, v) : since[w] >= Floor(r)'
        /\ tx'[r].pc = "answered" => \A w \in Committed \ Shows(tx[r].op, v) : tx'[r].at - since[w] < Horizon(tx[r].op)
    BY <1>3, <2>2, <2>4, <2>5
  <2>8. \A w \in tx[r].known \ Shows(tx[r].op, v) : w \in raced' \/ KeyOf(tx[r].op) \notin Clears(book'[w].kind)
    BY <1>7, <2>2, <2>3, <2>6 DEF Raced
  <2> QED
    BY <1>3, <1>7, <2>1, <2>7, <2>8 DEF Has, Raced, Frame
(* The entries it leaves. *)
<1>11. ASSUME NEW k \in Key PROVE Kept(k)'
  <2>1. CASE k \notin ks
    BY <1>1, <1>7, <2>1, KeptStays
  <2>2. CASE k \in ks
    <3>1. cache'[k].value = Part(k, v) /\ cache'[k].expires = clock + Ttl
      BY <1>1, <2>2
    <3> DEFINE S == Shows(ReadOf(k), Part(k, v))
               n == IF k = "dashboard" THEN clock + Ttl - 2 * (Ttl + Limit) + 1 ELSE clock + Ttl - Ttl - Limit
    <3>2. EntryFloor(k)' = n
      BY <1>2, <3>1, Constants DEF EntryFloor
    <3>3. \A w \in Committed \ S : since[w] >= n /\ Raced(k, w)
      <4>1. CASE k = "statements"
        <5>1. S = v.lines \cap v.rows
          BY <4>1 DEF Shows, ReadOf, Part, Report
        <5>2. n = clock - Limit
          BY <1>2, <4>1, Constants
        <5> QED
          BY <1>8, <2>2, <4>1, <5>1, <5>2 DEF Sees
      <4>2. CASE k = "dashboard"
        <5>1. S = Shows(tx[r].op, v) /\ KeyOf(tx[r].op) = "statements"
          BY <1>8, <2>2, <4>2 DEF Shows, ReadOf, Part, KeyOf
        <5>2. n = Floor(r)
          BY <1>2, <1>8, <2>2, <4>2, Constants DEF Floor
        <5> QED
          BY <4>2, <5>1, <5>2, AllClear DEF Sees, Raced
      <4>3. CASE k = "list"
        <5>1. S = Shows(tx[r].op, v) /\ KeyOf(tx[r].op) = k
          BY <1>8, <2>2, <4>3 DEF Shows, ReadOf, Part, KeyOf
        <5>2. n = Floor(r)
          BY <1>2, <1>8, <2>2, <4>3, Constants DEF Floor
        <5> QED
          BY <5>1, <5>2 DEF Sees
      <4> QED
        BY <4>1, <4>2, <4>3 DEF Key
    <3>4. cache'[k].expires <= clock' + Ttl
      BY <1>2, <1>7, <3>1, Constants DEF Frame
    <3> HIDE DEF n
    <3> QED
      BY <1>7, <3>1, <3>2, <3>3, <3>4 DEF Kept, Sees, Raced, Frame
  <2> QED
    BY <2>1, <2>2
(* Those who waited for it. *)
<1>12. ASSUME NEW q \in Readers, q # r, Waiter(q, r) PROVE ReaderFormed(q)' /\ Reads(q)' /\ Has(q)'
  <2>1. /\ q \in Req /\ ReaderFormed(q) /\ WaitFormed(q) /\ Reads(q) /\ tx[q].op \in Read
        /\ tx[q].own \subseteq Key /\ tx[q].value \in Report
        /\ tx[q].start \in Nat /\ tx[q].start <= clock /\ tx[r].start <= tx[q].start
        /\ tx[q].pc \in {"open", "wait"} /\ "statements" \notin tx[q].own /\ "list" \notin tx[q].own
        /\ tx[q].waits # None /\ tx[q].waits.key \in ks /\ tx[q].waits.key \in Key
    BY <1>12, Reader, Waiters DEF Waiter, WaitFormed, ReaderFormed, Busy, ks
  <2>2. ReaderFormed(q)'
    BY <1>2, <1>4, <1>7, <1>12, <2>1 DEF ReaderFormed, Composed, Busy, Frame
  <2>3. Has(q)'
    BY <1>4, <1>12, <2>1 DEF Has
  <2>4. tx'[q].pc = "open" => /\ tx[q].waits.key = "statements" /\ passed(q).lines = v.lines
                              /\ passed(q).rows = v.rows
    <3>1. tx'[q].pc = "open" => tx[q].pc = "open" /\ Composed(q)
      BY <1>4, <1>12, <2>1 DEF ReaderFormed
    <3>2. tx[q].pc = "open" => tx[q].waits.key = "statements"
      BY <2>1, <3>1 DEF WaitFormed, ReaderFormed, Composed, Key
    <3> QED
      BY <3>1, <3>2 DEF passed, Report
  <2>5. "statements" \in ks => \A w \in Committed \ (v.lines \cap v.rows) :
           /\ since[w] >= clock - Limit /\ since[w] >= tx[q].start - Ttl - Limit + 1
           /\ since[w] >= clock - Ttl - 2 * Limit + 1 /\ w \in raced'
    <3>1. ASSUME "statements" \in ks, NEW w \in Committed \ (v.lines \cap v.rows)
          PROVE  since[w] >= clock - Limit /\ w \in raced' /\ since[w] \in Nat
      BY <1>2, <1>7, <1>8, <3>1, AllClear DEF Sees, Raced, Committed
    <3> QED
      BY <1>2, <2>1, <3>1, Constants
  <2>6. tx'[q].pc = "resume" => \A w \in Committed \ Shown(q)' :
           since[w] >= Floor(q)' /\ (w \in raced' \/ KeyOf(tx[q].op) \notin Clears(book[w].kind))
    <3> SUFFICES ASSUME tx'[q].pc = "resume", NEW w \in Committed, w \notin Shown(q)'
                 PROVE  since[w] >= Floor(q)' /\ (w \in raced' \/ KeyOf(tx[q].op) \notin Clears(book[w].kind))
      OBVIOUS
    <3>1. Shown(q)' = Shows(tx[q].op, passed(q)) /\ tx[q].pc = "wait" /\ since[w] \in Nat
      BY <1>2, <1>4, <1>12, <2>1 DEF Shown, Committed
    <3>2. Floor(q)' = Floor(q)
      BY <1>4, <1>7, <1>12 DEF Floor, Frame
    <3>3. CASE tx[q].waits.key = "statements"
      <4>1. passed(q).lines = v.lines /\ passed(q).rows = v.rows /\ passed(q).open = tx[q].value.open
        BY <3>3 DEF passed, Report
      <4>2. tx[q].op # "LIST" /\ (tx[q].op = "STATEMENTS" \/ Composed(q))
        BY <2>1, <3>3 DEF WaitFormed, Read, Composed
      <4>3. CASE w \notin v.lines \cap v.rows
        <5>1. /\ since[w] >= clock - Limit /\ since[w] >= tx[q].start - Ttl - Limit + 1
              /\ since[w] >= clock - Ttl - 2 * Limit + 1 /\ w \in raced'
          BY <2>1, <2>5, <3>3, <4>3
        <5> QED
          BY <3>2, <5>1 DEF Floor
      <4>4. CASE w \in v.lines \cap v.rows
        <5>1. Composed(q) /\ w \notin tx[q].value.open
          BY <3>1, <4>1, <4>2, <4>4 DEF Shows, Composed
        <5>2. since[w] >= tx[q].start /\ w \in raced'
          BY <1>7, <2>1, <3>1, <3>3, <5>1, AllClear DEF Reads, Sees, Raced
        <5>3. clock <= tx[q].start + Limit
          BY <2>1 DEF ReaderFormed, Busy
        <5>4. Floor(q) <= tx[q].start
          BY <1>2, <2>1, <5>1, <5>3, Constants DEF Floor, Composed
        <5>5. Floor(q) \in Int
          BY <1>2, <2>1, Constants DEF Floor
        <5> QED
          BY <2>1, <3>1, <3>2, <5>2, <5>4, <5>5
      <4> QED
        BY <4>3, <4>4
    <3>4. CASE tx[q].waits.key # "statements"
      <4>1. passed(q) = v
        BY <3>4 DEF passed
      <4>2. tx[q].op = tx[r].op /\ tx[q].op # "SNAPSHOT"
        BY <1>8, <2>1, <3>4 DEF WaitFormed, Key
      <4>3. Floor(q) = Floor(r)
        BY <1>2, <2>1, <4>2 DEF Floor, Read
      <4>4. since[w] >= Floor(r) /\ Raced(KeyOf(tx[r].op), w)
        BY <3>1, <4>1, <4>2 DEF Sees
      <4> QED
        BY <1>7, <3>2, <4>2, <4>3, <4>4 DEF Raced
    <3> QED
      BY <3>3, <3>4
  <2>7. Reads(q)'
    BY <1>2, <1>4, <1>7, <1>12, <2>1, <2>4, <2>5, <2>6 DEF Reads, Sees, Raced, Frame
  <2> QED
    BY <2>2, <2>3, <2>7
<1>13. r \in Computing
  BY DEF Computing
<1> QED
  BY <1>1, <1>2, <1>3, <1>4, <1>5, <1>6, <1>7, <1>9, <1>10, <1>11, <1>12, <1>13, EndStep DEF Busy, ks

LEMMA ReadReadRows ==
    ASSUME ReadInv, Marked, NEW r \in Readers, ReadRows(r)
    PROVE  ReadInv'
<1> DEFINE v == [tx[r].value EXCEPT !.rows = Committed]
<1>1. /\ tx[r].pc = "rows" /\ Settle(r, tx[r].own, v, Outcome(r))
      /\ UNCHANGED <<mail, rest>>
  BY DEF ReadRows
<1>2. Frame
  BY <1>1 DEF Frame, rest
<1>3. /\ ReaderFormed(r) /\ WaitFormed(r) /\ Reads(r) /\ tx[r].value \in Report /\ tx[r].op \in Read
      /\ tx[r].start \in Nat /\ clock \in Nat /\ tx[r].start <= clock /\ clock <= tx[r].start + Limit
      /\ \A w \in Writers : since[w] \in Nat
  BY <1>1, Reader DEF ReaderFormed, Busy
<1>4. /\ v \in Report /\ v.lines = tx[r].value.lines /\ v.rows = Committed /\ v.open = tx[r].value.open
  BY <1>3 DEF Report, Committed
<1> HIDE DEF v
<1>5. "statements" \in tx[r].own \/ tx[r].op = "LIST"
  BY <1>1, <1>3 DEF ReaderFormed
<1>6. tx[r].waits = None
  BY <1>1, <1>3, <1>5 DEF WaitFormed
<1>7. "statements" \in tx[r].own => /\ Sees("statements", v.lines \cap v.rows, tx[r].start)
                                    /\ Composed(r) => Sees("statements", v.open, tx[r].start)
  BY <1>1, <1>3, <1>4 DEF Reads, Sees, Committed
<1>8. Floor(r) \in Int /\ Floor(r) <= tx[r].start
  BY <1>3, Constants DEF Floor
<1>9. Sees(KeyOf(tx[r].op), Shows(tx[r].op, v), tx[r].start)
  <2>1. CASE tx[r].op = "LIST"
    BY <1>4, <2>1 DEF Shows, Sees
  <2>2. CASE tx[r].op = "STATEMENTS"
    BY <1>5, <1>7, <2>2 DEF Shows, KeyOf
  <2>3. CASE tx[r].op \in {"DASHBOARD", "SNAPSHOT"}
    BY <1>5, <1>7, <2>3 DEF Shows, KeyOf, Composed, Sees
  <2> QED
    BY <1>3, <2>1, <2>2, <2>3 DEF Read
<1>10. Sees(KeyOf(tx[r].op), Shows(tx[r].op, v), Floor(r))
  BY <1>3, <1>8, <1>9, SeesLess
<1> QED
  BY <1>1, <1>2, <1>4, <1>6, <1>7, <1>10, ReadSettle DEF rest

LEMMA ReadResume ==
    ASSUME ReadInv, Marked, NEW r \in Readers, Resume(r)
    PROVE  ReadInv'
<1>1. /\ tx[r].pc = "resume" /\ Settle(r, tx[r].own, tx[r].value, Outcome(r))
      /\ UNCHANGED <<mail, rest>>
  BY DEF Resume
<1>2. Frame
  BY <1>1 DEF Frame, rest
<1>3. /\ ReaderFormed(r) /\ WaitFormed(r) /\ Reads(r) /\ tx[r].value \in Report
  BY Reader
<1>4. tx[r].waits = None /\ "statements" \notin tx[r].own
  BY <1>1, <1>3 DEF WaitFormed, ReaderFormed
<1>5. Sees(KeyOf(tx[r].op), Shows(tx[r].op, tx[r].value), Floor(r))
  BY <1>1, <1>3 DEF Reads, Shown
<1> QED
  BY <1>1, <1>2, <1>3, <1>4, <1>5, ReadSettle DEF rest

LEMMA ReadReadOpen ==
    ASSUME ReadInv, Marked, NEW r \in Readers, ReadOpen(r)
    PROVE  ReadInv'
<1> DEFINE v == [tx[r].value EXCEPT !.open = Committed]
<1>1. tx[r].pc = "open" /\ UNCHANGED <<mail, rest>> /\ Frame
  BY DEF ReadOpen, Frame, rest
<1>2. /\ ReaderFormed(r) /\ WaitFormed(r) /\ Reads(r) /\ tx[r].value \in Report /\ tx[r].op \in Read
      /\ tx[r].start \in Nat /\ clock \in Nat /\ tx[r].start <= clock /\ clock <= tx[r].start + Limit
      /\ \A w \in Writers : since[w] \in Nat
      /\ r \in Req /\ TypeOK /\ tx[r] \in Transaction /\ Composed(r)
  BY <1>1, Reader DEF ReaderFormed, Busy
<1>3. /\ v \in Report /\ v.lines = tx[r].value.lines /\ v.rows = tx[r].value.rows /\ v.open = Committed
  BY <1>2 DEF Report, Committed
<1>4. CASE "statements" \in tx[r].own \/ tx[r].waits # None
  <2> DEFINE label == IF tx[r].waits # None THEN "wait" ELSE "rows"
             t == [tx[r] EXCEPT !.value = v, !.pc = label]
  <2>1. tx' = [tx EXCEPT ![r] = t] /\ cache' = cache /\ flight' = flight
    BY <1>4 DEF ReadOpen, cached
  <2> HIDE DEF v
  <2>2. label \in Label
    BY DEF Label
  <2> HIDE DEF label
  <2>3. /\ t \in Transaction /\ t.op = tx[r].op /\ t.own = tx[r].own /\ t.start = tx[r].start
        /\ t.waits = tx[r].waits /\ t.known = tx[r].known /\ t.at = tx[r].at
        /\ t.value = v /\ t.pc = label
    BY <1>2, <1>3, <2>2 DEF Transaction
  <2>4. tx'[r] = t
    BY <1>2, <2>1 DEF TypeOK
  <2>5. TypeOK'
    BY <1>1, <1>2, <2>1, <2>3 DEF TypeOK, mail, rest
  <2>6. Owned'
    <3>1. \A q \in Readers : tx'[q].own = tx[q].own
      BY <1>2, <2>1, <2>3 DEF TypeOK, Req
    <3> QED
      BY <1>2, <2>1, <3>1 DEF ReadInv, Owned, TypeOK
  <2> HIDE DEF t
  <2>7. tx[r].waits # None => /\ tx[r].waits.of \in Readers /\ tx[r].waits.of # r
                              /\ "statements" \notin tx[r].own
    <3>1. tx[r].waits # None => /\ tx[r].waits.of \in Readers /\ tx[r].waits.key \in Key
                                /\ tx[r].waits.key \in tx[tx[r].waits.of].own
      BY <1>2, Reader DEF WaitFormed
    <3>2. tx[r].waits # None => /\ "statements" \notin tx[r].own
                                /\ tx[r].waits.key \notin tx[r].own
      BY <1>2, <3>1 DEF WaitFormed, Key
    <3> QED
      BY <3>1, <3>2
  <2>8. ReaderFormed(r)'
    BY <1>1, <1>2, <1>4, <2>3, <2>4, <2>7 DEF ReaderFormed, Composed, Busy, Committed, Frame, label
  <2>9. WaitFormed(r)'
    <3>1. tx[r].waits # None => tx'[tx[r].waits.of] = tx[tx[r].waits.of]
      BY <1>2, <2>1, <2>7 DEF TypeOK, Req
    <3> QED
      BY <1>2, <2>3, <2>4, <3>1 DEF WaitFormed, label
  <2>10. Has(r)'
    BY <2>3, <2>4 DEF Has, label
  <2>11. Reads(r)'
    <3>1. raced \subseteq raced' /\ Committed' = Committed
      BY <1>1 DEF Frame, Marked, Committed
    <3>2. "statements" \in tx[r].own => tx[r].waits = None /\ Sees("statements", v.lines, tx[r].start)
      BY <1>1, <1>2, <1>3 DEF Reads, WaitFormed
    <3>3. "statements" \in tx[r].own => \A w \in Committed \ v.lines : since[w] >= tx[r].start /\ w \in raced'
      BY <3>1, <3>2, AllClear DEF Sees, Raced
    <3> QED
      BY <1>1, <1>2, <1>3, <1>4, <2>3, <2>4, <3>1, <3>2, <3>3 DEF Reads, Sees, Raced, Composed, Frame, label
  <2> QED
    BY <1>1, <2>1, <2>3, <2>5, <2>6, <2>8, <2>9, <2>10, <2>11, ReaderStep
<1>5. CASE "statements" \notin tx[r].own /\ tx[r].waits = None
  <2>1. Settle(r, tx[r].own, v, Outcome(r))
    BY <1>5 DEF ReadOpen
  <2> HIDE DEF v
  <2>2. Floor(r) \in Int /\ Floor(r) <= tx[r].start - Ttl - Limit + 1
    BY <1>2, Constants DEF Floor, Composed
  <2>3. Sees("statements", v.lines \cap v.rows, tx[r].start - Ttl - Limit + 1)
    BY <1>1, <1>2, <1>3, <1>5 DEF Reads
  <2>4. Sees("statements", Shows(tx[r].op, v), tx[r].start - Ttl - Limit + 1)
    BY <1>2, <1>3, <2>3 DEF Shows, Sees, Composed
  <2>5. KeyOf(tx[r].op) = "statements"
    BY <1>2 DEF Composed, KeyOf
  <2>6. Sees(KeyOf(tx[r].op), Shows(tx[r].op, v), Floor(r))
    BY <1>2, <2>2, <2>4, <2>5, SeesLess, Constants
  <2> QED
    BY <1>1, <1>3, <1>5, <2>1, <2>6, ReadSettle DEF rest
<1> QED
  BY <1>4, <1>5

(* The outcome of a look-up of the key k by a request that has just started. *)
LEMMA LookUpCases ==
    ASSUME TypeOK, NEW op \in Read, NEW k \in Key, NEW label \in Label, NEW hit \in {"open", "answered"}
    PROVE  LET t == Started(op)
               u == LookUp(t, k, label, hit)
           IN  /\ u \in Transaction /\ u.op = op /\ u.known = Committed
               /\ \/ /\ Fresh(k) /\ u.pc = hit /\ u.value = cache[k].value /\ u.at = clock
                     /\ u.start = (IF hit = "answered" THEN 0 ELSE clock) /\ u.own = {} /\ u.waits = None
                  \/ /\ ~ Fresh(k) /\ flight[k] # None
                     /\ u.pc = (IF hit = "open" THEN "open" ELSE "wait")
                     /\ u.waits = [of |-> flight[k], key |-> k] /\ u.own = {} /\ u.start = clock /\ u.at = 0
                  \/ /\ ~ Fresh(k) /\ flight[k] = None /\ u.pc = label /\ u.own = {k} /\ u.waits = None
                     /\ u.start = clock /\ u.at = 0
<1> DEFINE t == Started(op)
           u == LookUp(t, k, label, hit)
<1>1. /\ t \in Transaction /\ t.op = op /\ t.known = Committed /\ t.own = {} /\ t.waits = None
      /\ t.start = clock /\ t.at = 0
  <2>1. Committed \subseteq Writers /\ Nothing \in Report /\ clock \in Nat
    BY DEF Committed, Nothing, Report, TypeOK
  <2>2. /\ Blank("ask") \in Transaction /\ Blank("ask").own = {} /\ Blank("ask").waits = None
        /\ Blank("ask").at = 0
    BY BlankType DEF Label
  <2>3. t = [Blank("ask") EXCEPT !.op = op, !.start = clock, !.known = Committed]
    BY DEF Started
  <2> HIDE DEF t
  <2> QED
    BY <2>1, <2>2, <2>3 DEF Transaction
<1> HIDE DEF t
<1>2. clock \in Nat
  BY DEF TypeOK
<1>3. CASE Fresh(k)
  <2> DEFINE n == IF hit = "answered" THEN 0 ELSE clock
  <2>1. u = [t EXCEPT !.pc = hit, !.value = cache[k].value, !.at = clock, !.start = n]
    BY <1>3 DEF LookUp
  <2>2. n \in Nat /\ hit \in Label
    BY <1>2 DEF Label
  <2>3. cache[k].value \in Report
    BY <1>3 DEF Fresh, TypeOK, Entry
  <2> HIDE DEF n
  <2>4. /\ u \in Transaction /\ u.op = op /\ u.known = Committed
        /\ u.pc = hit /\ u.value = cache[k].value /\ u.at = clock
        /\ u.start = n /\ u.own = {} /\ u.waits = None
    BY <1>1, <1>2, <2>1, <2>2, <2>3 DEF Transaction
  <2> QED
    BY <1>3, <2>4 DEF n, t
<1>4. CASE ~ Fresh(k) /\ flight[k] # None
  <2> DEFINE l == IF hit = "open" THEN "open" ELSE "wait"
  <2>1. u = [t EXCEPT !.pc = l, !.waits = [of |-> flight[k], key |-> k]]
    BY <1>4 DEF LookUp
  <2>2. l \in Label
    BY DEF Label
  <2>3. [of |-> flight[k], key |-> k] \in [of : Readers, key : Key]
    BY <1>4 DEF TypeOK
  <2> HIDE DEF l
  <2>4. /\ u \in Transaction /\ u.op = op /\ u.known = Committed
        /\ u.pc = l /\ u.waits = [of |-> flight[k], key |-> k] /\ u.own = {} /\ u.start = clock /\ u.at = 0
    BY <1>1, <1>2, <2>1, <2>2, <2>3 DEF Transaction
  <2> QED
    BY <1>4, <2>4 DEF l, t
<1>5. CASE ~ Fresh(k) /\ flight[k] = None
  <2>1. u = [t EXCEPT !.pc = label, !.own = @ \cup {k}]
    BY <1>5 DEF LookUp
  <2>2. u = [t EXCEPT !.pc = label, !.own = {k}]
    BY <1>1, <2>1 DEF Transaction
  <2> HIDE DEF u
  <2>3. /\ u \in Transaction /\ u.op = op /\ u.known = Committed
        /\ u.pc = label /\ u.own = {k} /\ u.waits = None /\ u.start = clock /\ u.at = 0
    BY <1>1, <2>2 DEF Transaction
  <2> QED
    BY <1>5, <2>3 DEF t, u
<1> QED
  BY <1>3, <1>4, <1>5 DEF t

(* What a request that asks finds: a fresh entry, a promise, or nothing. *)
LEMMA AskCases ==
    ASSUME ReadInv, NEW r \in Readers, Ask(r)
    PROVE  \E t \in Transaction :
             /\ tx' = [tx EXCEPT ![r] = t]
             /\ flight' = [k \in Key |-> IF k \in t.own THEN r ELSE flight[k]]
             /\ t.known = Committed /\ t.at \in {0, clock} /\ t.op \in Read
             /\ \/ /\ t.pc = "answered" /\ t.own = {} /\ t.waits = None /\ t.at = clock
                   /\ \E k \in Key : Fresh(k) /\ t.value = cache[k].value /\ t.op = ReadOf(k)
                \/ /\ t.pc = "open" /\ t.own \subseteq {"dashboard"} /\ t.start = clock
                   /\ t.op = (IF t.own = {} THEN "SNAPSHOT" ELSE "DASHBOARD")
                   /\ \/ Fresh("statements") /\ t.value = cache["statements"].value /\ t.waits = None
                      \/ flight["statements"] # None /\ t.waits = [of |-> flight["statements"], key |-> "statements"]
                \/ /\ t.pc = "wait" /\ t.own = {} /\ t.start = clock
                   /\ \E k \in Key : /\ flight[k] # None /\ t.waits = [of |-> flight[k], key |-> k]
                                     /\ t.op = ReadOf(k)
                \/ /\ t.waits = None /\ t.start = clock
                   /\ \/ t.pc = "rows" /\ t.own = {"list"} /\ t.op = "LIST"
                      \/ /\ t.pc = "lines" /\ t.op # "LIST"
                         /\ t.own = {"statements"} \cup (IF t.op = "DASHBOARD" THEN {"dashboard"} ELSE {})
<1>1. TypeOK /\ r \in Req /\ clock \in Nat
  BY Reader
<1> DEFINE t(op) == Started(op)
           nested(op) == LookUp(t(op), "statements", "lines", "open")
           first(op) == CASE op = "STATEMENTS" -> LookUp(t(op), "statements", "lines", "answered")
                       [] op = "LIST"       -> LookUp(t(op), "list", "rows", "answered")
                       [] op = "SNAPSHOT"   -> nested(op)
                       [] OTHER -> IF Fresh("dashboard") \/ flight["dashboard"] # None
                                   THEN LookUp(t(op), "dashboard", "lines", "answered")
                                   ELSE [nested(op) EXCEPT !.own = @ \cup {"dashboard"}]
<1>2. PICK op \in Read : /\ tx' = [tx EXCEPT ![r] = first(op)]
                         /\ flight' = [k \in Key |-> IF k \in first(op).own THEN r ELSE flight[k]]
  BY DEF Ask
<1> HIDE DEF t
<1>3. /\ {"statements", "list", "dashboard"} \subseteq Key /\ {"lines", "rows", "open", "wait", "answered"} \subseteq Label
      /\ ReadOf("statements") = "STATEMENTS" /\ ReadOf("list") = "LIST" /\ ReadOf("dashboard") = "DASHBOARD"
  BY DEF Key, Label, ReadOf
<1>4. CASE op = "STATEMENTS"
  <2> DEFINE u == LookUp(t(op), "statements", "lines", "answered")
  <2>1. /\ u \in Transaction /\ u.op = op /\ u.known = Committed
        /\ \/ /\ Fresh("statements") /\ u.pc = "answered" /\ u.value = cache["statements"].value /\ u.at = clock
              /\ u.own = {} /\ u.waits = None
           \/ /\ flight["statements"] # None /\ u.pc = "wait"
              /\ u.waits = [of |-> flight["statements"], key |-> "statements"] /\ u.own = {} /\ u.start = clock /\ u.at = 0
           \/ /\ u.pc = "lines" /\ u.own = {"statements"} /\ u.waits = None
              /\ u.start = clock /\ u.at = 0
    BY <1>1, <1>3, LookUpCases DEF t
  <2>2. first(op) = u
    BY <1>4
  <2> HIDE DEF u, first
  <2> QED
    BY <1>2, <1>3, <1>4, <2>1, <2>2
<1>5. CASE op = "LIST"
  <2> DEFINE u == LookUp(t(op), "list", "rows", "answered")
  <2>1. /\ u \in Transaction /\ u.op = op /\ u.known = Committed
        /\ \/ /\ Fresh("list") /\ u.pc = "answered" /\ u.value = cache["list"].value /\ u.at = clock
              /\ u.own = {} /\ u.waits = None
           \/ /\ flight["list"] # None /\ u.pc = "wait"
              /\ u.waits = [of |-> flight["list"], key |-> "list"] /\ u.own = {} /\ u.start = clock /\ u.at = 0
           \/ /\ u.pc = "rows" /\ u.own = {"list"} /\ u.waits = None
              /\ u.start = clock /\ u.at = 0
    BY <1>1, <1>3, LookUpCases DEF t
  <2>2. first(op) = u
    BY <1>5
  <2> HIDE DEF u, first
  <2> QED
    BY <1>2, <1>3, <1>5, <2>1, <2>2
<1>6. /\ nested(op) \in Transaction /\ nested(op).op = op /\ nested(op).known = Committed
      /\ nested(op).start = clock
      /\ \/ /\ Fresh("statements") /\ nested(op).pc = "open" /\ nested(op).at = clock
            /\ nested(op).value = cache["statements"].value
            /\ nested(op).own = {} /\ nested(op).waits = None
         \/ /\ flight["statements"] # None /\ nested(op).pc = "open" /\ nested(op).at = 0
            /\ nested(op).waits = [of |-> flight["statements"], key |-> "statements"] /\ nested(op).own = {}
         \/ /\ nested(op).pc = "lines" /\ nested(op).own = {"statements"} /\ nested(op).waits = None
            /\ nested(op).at = 0
  BY <1>1, <1>3, LookUpCases DEF t
<1>7. CASE op = "SNAPSHOT"
  <2>1. first(op) = nested(op)
    BY <1>7
  <2> HIDE DEF nested, first
  <2> QED
    BY <1>2, <1>6, <1>7, <2>1
<1>8. CASE op = "DASHBOARD" /\ (Fresh("dashboard") \/ flight["dashboard"] # None)
  <2> DEFINE u == LookUp(t(op), "dashboard", "lines", "answered")
  <2>1. /\ u \in Transaction /\ u.op = op /\ u.known = Committed
        /\ \/ /\ Fresh("dashboard") /\ u.pc = "answered" /\ u.value = cache["dashboard"].value /\ u.at = clock
              /\ u.own = {} /\ u.waits = None
           \/ /\ flight["dashboard"] # None /\ u.pc = "wait"
              /\ u.waits = [of |-> flight["dashboard"], key |-> "dashboard"] /\ u.own = {} /\ u.start = clock /\ u.at = 0
    BY <1>1, <1>3, <1>8, LookUpCases DEF t
  <2>2. first(op) = u
    BY <1>8
  <2> HIDE DEF u, first
  <2> QED
    BY <1>2, <1>3, <1>8, <2>1, <2>2
<1>9. CASE op = "DASHBOARD" /\ ~ (Fresh("dashboard") \/ flight["dashboard"] # None)
  <2> DEFINE own == nested(op).own \cup {"dashboard"}
             u == [nested(op) EXCEPT !.own = own]
  <2>1. first(op) = u
    BY <1>9
  <2>2. own \in SUBSET Key
    BY <1>3, <1>6
  <2> HIDE DEF nested, first, own
  <2>3. /\ u \in Transaction /\ u.op = op /\ u.known = Committed /\ u.start = clock /\ u.own = own
        /\ u.at = nested(op).at /\ u.pc = nested(op).pc /\ u.waits = nested(op).waits
        /\ u.value = nested(op).value
    BY <1>6, <2>2 DEF Transaction
  <2> HIDE DEF u
  <2> QED
    BY <1>2, <1>6, <1>9, <2>1, <2>3, ZenonT(60) DEF own
<1> QED
  BY <1>4, <1>5, <1>7, <1>8, <1>9 DEF Read

(* What a fresh entry shows. *)
LEMMA FreshShows ==
    ASSUME ReadInv, NEW k \in Key, Fresh(k)
    PROVE  /\ \A w \in Committed \ Shows(ReadOf(k), cache[k].value) :
                 /\ clock - since[w] < Horizon(ReadOf(k))
                 /\ Raced(KeyOf(ReadOf(k)), w)
           /\ k = "statements" => Sees("statements", cache[k].value.lines \cap cache[k].value.rows,
                                       clock - Ttl - Limit + 1)
<1>1. /\ Kept(k) /\ cache[k] # None /\ cache[k].expires \in Nat /\ cache[k].expires > clock
      /\ clock \in Nat /\ \A w \in Writers : since[w] \in Nat
  BY DEF ReadInv, TypeOK, Entry, Fresh
<1>2. Sees(k, Shows(ReadOf(k), cache[k].value), EntryFloor(k))
  BY <1>1 DEF Kept
<1>3. ASSUME NEW w \in Committed, w \notin Shows(ReadOf(k), cache[k].value)
      PROVE  clock - since[w] < Horizon(ReadOf(k)) /\ Raced(KeyOf(ReadOf(k)), w)
  <2>1. since[w] \in Nat /\ since[w] >= EntryFloor(k) /\ Raced(k, w)
    BY <1>1, <1>2, <1>3 DEF Sees, Committed
  <2>2. clock - since[w] < Horizon(ReadOf(k))
    BY <1>1, <2>1, Constants DEF EntryFloor, Horizon, ReadOf, Key
  <2>3. Raced(KeyOf(ReadOf(k)), w)
    BY <2>1, AllClear DEF Raced, KeyOf, ReadOf, Key
  <2> QED
    BY <2>2, <2>3
<1>4. ASSUME k = "statements"
      PROVE  Sees("statements", cache[k].value.lines \cap cache[k].value.rows, clock - Ttl - Limit + 1)
  <2>1. Shows(ReadOf(k), cache[k].value) = cache[k].value.lines \cap cache[k].value.rows
    BY <1>4 DEF Shows, ReadOf
  <2>2. EntryFloor(k) \in Int /\ clock - Ttl - Limit + 1 <= EntryFloor(k)
    BY <1>1, <1>4, Constants DEF EntryFloor
  <2> QED
    BY <1>1, <1>2, <1>4, <2>1, <2>2, Constants DEF Sees, Committed
<1> QED
  BY <1>3, <1>4

LEMMA ReadAsk ==
    ASSUME ReadInv, Marked, NEW r \in Readers, Ask(r)
    PROVE  ReadInv'
<1>1. PICK t \in Transaction :
             /\ tx' = [tx EXCEPT ![r] = t]
             /\ flight' = [k \in Key |-> IF k \in t.own THEN r ELSE flight[k]]
             /\ t.known = Committed /\ t.at \in {0, clock} /\ t.op \in Read
             /\ \/ /\ t.pc = "answered" /\ t.own = {} /\ t.waits = None /\ t.at = clock
                   /\ \E k \in Key : Fresh(k) /\ t.value = cache[k].value /\ t.op = ReadOf(k)
                \/ /\ t.pc = "open" /\ t.own \subseteq {"dashboard"} /\ t.start = clock
                   /\ t.op = (IF t.own = {} THEN "SNAPSHOT" ELSE "DASHBOARD")
                   /\ \/ Fresh("statements") /\ t.value = cache["statements"].value /\ t.waits = None
                      \/ flight["statements"] # None /\ t.waits = [of |-> flight["statements"], key |-> "statements"]
                \/ /\ t.pc = "wait" /\ t.own = {} /\ t.start = clock
                   /\ \E k \in Key : /\ flight[k] # None /\ t.waits = [of |-> flight[k], key |-> k]
                                     /\ t.op = ReadOf(k)
                \/ /\ t.waits = None /\ t.start = clock
                   /\ \/ t.pc = "rows" /\ t.own = {"list"} /\ t.op = "LIST"
                      \/ /\ t.pc = "lines" /\ t.op # "LIST"
                         /\ t.own = {"statements"} \cup (IF t.op = "DASHBOARD" THEN {"dashboard"} ELSE {})
  BY AskCases
<1>2. Frame /\ UNCHANGED <<mail, rest>> /\ \A k \in Key : cache'[k] \in {cache[k], None}
  BY DEF Ask, Frame, rest, CleanupExpired
<1>3. /\ TypeOK /\ r \in Req /\ clock \in Nat /\ tx[r].own = {}
      /\ tx[r].pc \in {"idle", "answered", "failed"}
  BY Reader DEF Ask, ReaderFormed, Busy
<1>4. tx'[r] = t /\ \A q \in Readers : q # r => tx'[q] = tx[q]
  BY <1>1, <1>3 DEF TypeOK, Req
<1>5. TypeOK'
  <2>1. tx' \in [Req -> Transaction] /\ flight' \in [Key -> Readers \cup {None}]
    BY <1>1, <1>3 DEF TypeOK
  <2>2. cache' \in [Key -> Entry \cup {None}]
    <3>1. \A k \in Key : cache'[k] \in Entry \cup {None}
      BY <1>2, <1>3 DEF TypeOK
    <3>2. cache' = [k \in Key |-> cache'[k]]
      BY DEF Ask, CleanupExpired
    <3> QED
      BY <3>1, <3>2
  <2> QED
    BY <1>2, <1>3, <2>1, <2>2 DEF TypeOK, mail, rest
<1>6. Owned'
  <2>1. ASSUME NEW k \in Key, flight'[k] # None PROVE k \in tx'[flight'[k]].own
    <3>1. CASE k \in t.own
      BY <1>1, <1>4, <3>1
    <3>2. CASE k \notin t.own
      <4>1. flight'[k] = flight[k] /\ flight[k] \in Readers /\ k \in tx[flight[k]].own
        BY <1>1, <1>3, <2>1, <3>2 DEF ReadInv, Owned, TypeOK
      <4> QED
        BY <1>3, <1>4, <4>1
    <3> QED
      BY <3>1, <3>2
  <2> QED
    BY <2>1 DEF Owned
<1>7. ASSUME NEW k \in Key, flight[k] # None
      PROVE  /\ flight[k] \in Readers /\ k \in tx'[flight[k]].own
             /\ tx'[flight[k]].start <= clock
  <2>1. flight[k] \in Readers /\ k \in tx[flight[k]].own
    BY <1>3, <1>7 DEF ReadInv, Owned, TypeOK
  <2>2. flight[k] # r /\ tx[flight[k]].start <= clock
    BY <1>3, <2>1, Reader DEF ReaderFormed, Busy
  <2> QED
    BY <1>4, <2>1, <2>2
<1>8. ReaderFormed(r)'
  <2>1. /\ t.known \subseteq Committed' /\ t.at <= clock' /\ clock' = clock
        /\ clock <= clock + Limit
    BY <1>1, <1>2, <1>3, Constants DEF Frame, Committed
  <2>2. t.waits # None => t.pc \in {"open", "wait"}
    BY <1>1
  <2>3. t.pc = "wait" => t.waits # None
    <3>1. \A k \in Key : flight[k] # None => [of |-> flight[k], key |-> k] \in [of : Readers, key : Key]
      BY <1>3 DEF TypeOK
    <3> QED
      BY <1>1, <3>1, Constants
  <2> QED
    BY <1>1, <1>3, <1>4, <2>1, <2>2, <2>3 DEF ReaderFormed, Composed, Busy
<1>9. WaitFormed(r)'
  <2>1. CASE t.waits = None
    BY <1>4, <2>1 DEF WaitFormed
  <2>2. CASE t.waits # None
    <3>1. PICK k \in Key : /\ flight[k] # None /\ t.waits = [of |-> flight[k], key |-> k]
                           /\ t.pc \in {"open", "wait"} /\ t.start = clock /\ t.own \subseteq {"dashboard"}
                           /\ k = "list" <=> t.op = "LIST"
                           /\ k = "dashboard" <=> t.op = "DASHBOARD" /\ t.own = {}
      BY <1>1, <2>2 DEF ReadOf, Key
    <3>2. t.waits.of = flight[k] /\ t.waits.key = k
      BY <3>1
    <3> QED
      BY <1>4, <1>7, <3>1, <3>2 DEF WaitFormed
  <2> QED
    BY <2>1, <2>2
<1>10. Reads(r)'
  <2>1. raced \subseteq raced' /\ Committed' = Committed /\ since' = since /\ book' = book
    BY <1>2 DEF Frame, Marked, Committed
  <2>2. t.pc = "open" /\ t.waits = None =>
          /\ t.start = clock /\ "statements" \notin t.own
          /\ \A w \in Committed \ (t.value.lines \cap t.value.rows) :
                since[w] >= clock - Ttl - Limit + 1 /\ w \in raced'
    <3>1. SUFFICES ASSUME t.pc = "open", t.waits = None
                   PROVE  /\ t.start = clock /\ "statements" \notin t.own
                          /\ \A w \in Committed \ (t.value.lines \cap t.value.rows) :
                                since[w] >= clock - Ttl - Limit + 1 /\ w \in raced'
      OBVIOUS
    <3>2. flight["statements"] # None => [of |-> flight["statements"], key |-> "statements"] # None
      <4>1. flight["statements"] # None =>
              [of |-> flight["statements"], key |-> "statements"] \in [of : Readers, key : Key]
        BY <1>3 DEF TypeOK, Key
      <4> QED
        BY <4>1, Constants
    <3>3. Fresh("statements") /\ t.value = cache["statements"].value
      BY <1>1, <3>1, <3>2
    <3>4. Sees("statements", t.value.lines \cap t.value.rows, clock - Ttl - Limit + 1)
      BY <3>3, FreshShows DEF Key
    <3> QED
      BY <1>1, <2>1, <3>1, <3>4, AllClear DEF Sees, Raced
  <2>3. t.pc # "resume" /\ ("statements" \in t.own => t.pc = "lines") /\ (t.pc = "wait" => ~ (t.waits.key = "statements" /\ t.op \in {"DASHBOARD", "SNAPSHOT"}))
    BY <1>1 DEF ReadOf, Key
  <2> QED
    BY <1>4, <2>1, <2>2, <2>3 DEF Reads, Sees, Raced, Composed
<1>11. Has(r)'
  <2>1. t.pc # "store"
    BY <1>1
  <2>2. ASSUME t.pc = "answered"
        PROVE  \A w \in Committed \ Shows(t.op, t.value) :
                  t.at - since[w] < Horizon(t.op) /\ (w \in raced' \/ KeyOf(t.op) \notin Clears(book[w].kind))
    <3>1. PICK k \in Key : Fresh(k) /\ t.value = cache[k].value /\ t.op = ReadOf(k) /\ t.at = clock
      BY <1>1, <2>2
    <3> QED
      BY <1>2, <3>1, FreshShows DEF Raced, Frame, Marked
  <2>3. book' = book /\ since' = since /\ Committed' = Committed
    BY <1>2 DEF Frame, Committed
  <2> QED
    BY <1>1, <1>4, <2>1, <2>2, <2>3 DEF Has, Shown, Raced
<1> QED
  BY <1>1, <1>2, <1>3, <1>5, <1>6, <1>8, <1>9, <1>10, <1>11, ReaderStep

-----------------------------------------------------------------------------
(* The theorems. *)

LEMMA ReadInit == HistoryInit => ReadInv
<1> SUFFICES ASSUME HistoryInit PROVE ReadInv
  OBVIOUS
<1>1. /\ book = [w \in Writers |-> None] /\ since = [w \in Writers |-> 0]
      /\ cache = [k \in Key |-> None] /\ flight = [k \in Key |-> None]
      /\ tx = [r \in Req |-> Blank("idle")] /\ clock = 0 /\ restarts = 0
      /\ queue = <<>> /\ sending = None /\ sent = <<>> /\ lost = {} /\ raced = {}
  BY DEF HistoryInit, Init
<1>2. /\ Blank("idle") \in Transaction /\ Blank("idle").pc = "idle" /\ Blank("idle").own = {}
      /\ Blank("idle").waits = None /\ Blank("idle").known = {} /\ Blank("idle").at = 0
  BY BlankType DEF Label
<1>3. TypeOK
  BY <1>1, <1>2 DEF TypeOK
<1>4. \A w \in Writers : WriterFormed(w) /\ Quiet(w)
  BY <1>1, <1>2 DEF WriterFormed, Quiet, Req
<1>5. \A r \in Readers : tx[r] = Blank("idle")
  BY <1>1 DEF Req
<1>6. \A r \in Readers : ReaderFormed(r) /\ WaitFormed(r) /\ Reads(r) /\ Has(r)
  BY <1>1, <1>2, <1>5 DEF ReaderFormed, WaitFormed, Reads, Has, Busy
<1>7. (\A k \in Key : Kept(k)) /\ Owned
  BY <1>1 DEF Kept, Owned
<1> QED
  BY <1>1, <1>3, <1>4, <1>6, <1>7 DEF ReadInv

LEMMA ReadNext == ReadInv /\ [HistoryNext]_<<vars, raced>> => ReadInv'
<1> SUFFICES ASSUME ReadInv, [HistoryNext]_<<vars, raced>> PROVE ReadInv'
  OBVIOUS
<1>1. CASE HistoryNext
  <2>1. Marked /\ Next
    BY <1>1 DEF HistoryNext, Marked
  <2>2. ASSUME NEW w \in Writers, Submit(w) \/ Answer(w) \/ Commit(w) \/ RollBack(w) PROVE ReadInv'
    BY <2>1, <2>2, ReadSubmit, ReadAnswer, ReadCommit, ReadRollBack
  <2>3. ASSUME NEW r \in Readers,
               \/ Ask(r) \/ ReadLines(r) \/ ReadOpen(r) \/ ReadRows(r)
               \/ Resume(r) \/ StoreSnapshot(r) \/ Fail(r)
        PROVE  ReadInv'
    BY <2>1, <2>3, ReadAsk, ReadReadLines, ReadReadOpen, ReadReadRows, ReadResume,
       ReadStoreSnapshot, ReadFail
  <2>4. ASSUME TickWorker \/ Dispatch \/ Tick \/ Restart PROVE ReadInv'
    BY <2>1, <2>4, ReadTickWorker, ReadDispatch, ReadTick, ReadRestart
  <2> QED
    BY <2>1, <2>2, <2>3, <2>4 DEF Next
<1>2. CASE UNCHANGED <<vars, raced>>
  <2>1. /\ tx' = tx /\ book' = book /\ since' = since /\ clock' = clock /\ cache' = cache
        /\ flight' = flight /\ raced' = raced
        /\ UNCHANGED <<queue, sending, sent, lost, restarts>>
    BY <1>2 DEF vars
  <2>2. TypeOK' /\ Owned'
    BY <2>1 DEF ReadInv, TypeOK, Owned
  <2>3. \A w \in Writers : WriterFormed(w)' /\ Quiet(w)'
    BY <2>1 DEF ReadInv, WriterFormed, Quiet, Computing
  <2>4. ASSUME NEW r \in Readers PROVE ReaderFormed(r)' /\ WaitFormed(r)' /\ Reads(r)' /\ Has(r)'
    <3>1. ReaderFormed(r)' /\ WaitFormed(r)'
      BY <2>1 DEF ReadInv, ReaderFormed, WaitFormed, Committed, Composed
    <3>2. Reads(r)'
      BY <2>1 DEF ReadInv, Reads, Sees, Raced, Committed, Composed, Shown, Floor
    <3>3. Has(r)'
      BY <2>1 DEF ReadInv, Has, Raced, Committed, Shown, Floor
    <3> QED
      BY <3>1, <3>2, <3>3
  <2>5. \A k \in Key : Kept(k)'
    BY <2>1 DEF ReadInv, Kept, Sees, Raced, Committed, EntryFloor
  <2> QED
    BY <2>1, <2>2, <2>3, <2>4, <2>5 DEF ReadInv
<1> QED
  BY <1>1, <1>2

(* Every reachable state of the readers, the writers and the caches satisfies
   the inductive invariant: what may be missing from an entry, from a promise
   and from a report, and since when. *)
THEOREM ReadInvariance == HistorySpec => []ReadInv
BY ReadInit, ReadNext, PTL DEF HistorySpec

(* However readers, writers, clears, failures and time-outs interleave, an
   answered report misses no document that was committed longer ago than the
   lifetime of the entries it was made from and the limit of the requests that
   computed them (financial-statements-cache.ts, dashboard-bi-service.ts,
   db-context.ts). *)
THEOREM StalenessIsBounded == HistorySpec => []BoundedStaleness
<1>1. ReadInv => BoundedStaleness
  BY DEF ReadInv, Has, BoundedStaleness, Answered
<1> QED
  BY <1>1, ReadInvariance, PTL

(* A report asked for after a commit shows the document when nothing was being
   computed between the clearing of the caches and the commit, and its handler
   clears what the report is made from (the invalidate calls of the routes). *)
THEOREM CalmReportsAreFresh == HistorySpec => []CalmReportsFresh
<1>1. ReadInv => CalmReportsFresh
  <2> SUFFICES ASSUME ReadInv, NEW r \in Answered, NEW w \in tx[r].known \ raced,
                      ~ (tx[r].op = "LIST" /\ "list" \notin Clears(book[w].kind)), w \notin Shown(r)
               PROVE  FALSE
    BY DEF CalmReportsFresh
  <2>1. Raced(KeyOf(tx[r].op), w)
    BY DEF ReadInv, Has, Answered
  <2> QED
    BY <2>1, AllClear DEF Raced, KeyOf
<1> QED
  BY <1>1, ReadInvariance, PTL

-----------------------------------------------------------------------------
(* Notifications. *)

Middle == IF sending = None THEN <<>> ELSE <<sending>>

(* Three sequences, one after the other. *)
LEMMA ThreeParts ==
    ASSUME NEW x \in Seq(Writers), NEW y \in Seq(Writers), NEW z \in Seq(Writers), NEW p,
           p = (x \o y) \o z
    PROVE  /\ p \in Seq(Writers) /\ Len(p) = Len(x) + Len(y) + Len(z)
           /\ DOMAIN p = 1 .. Len(x) + Len(y) + Len(z)
           /\ \A i \in 1 .. Len(x) : p[i] = x[i]
           /\ \A i \in 1 .. Len(y) : p[Len(x) + i] = y[i]
           /\ \A i \in 1 .. Len(z) : p[Len(x) + Len(y) + i] = z[i]
<1> DEFINE s == x \o y
<1>1. /\ s \in Seq(Writers) /\ Len(s) = Len(x) + Len(y)
      /\ \A i \in 1 .. Len(x) : s[i] = x[i]
      /\ \A i \in 1 .. Len(y) : s[Len(x) + i] = y[i]
  OBVIOUS
<1>2. p = s \o z
  OBVIOUS
<1> HIDE DEF s
<1> DEFINE u == s \o z
<1>3. s \in Seq(Writers)
  BY <1>1
<1>4. /\ u \in Seq(Writers) /\ Len(u) = Len(s) + Len(z)
      /\ \A i \in 1 .. Len(s) : u[i] = s[i]
      /\ \A i \in 1 .. Len(z) : u[Len(s) + i] = z[i]
  BY <1>3
<1> HIDE DEF u
<1>5. \A i \in 1 .. Len(x) : u[i] = x[i]
  BY <1>1, <1>4
<1>6. \A i \in 1 .. Len(y) : u[Len(x) + i] = y[i]
  BY <1>1, <1>4
<1>7. p = u
  BY <1>2 DEF u
<1>8. u \in Seq(Writers) /\ DOMAIN u = 1 .. Len(u)
  BY <1>4
<1>9. Len(u) = Len(x) + Len(y) + Len(z)
  BY <1>1, <1>4
<1>10. \A i \in 1 .. Len(z) : u[Len(x) + Len(y) + i] = z[i]
  BY <1>1, <1>4
<1>11. DOMAIN u = 1 .. Len(x) + Len(y) + Len(z)
  BY <1>8, <1>9
<1> HIDE DEF s
<1> QED
  BY <1>5, <1>6, <1>7, <1>8, <1>9, <1>10, <1>11

(* The events in their order: dispatched, being dispatched, waiting. *)
LEMMA PendingIs ==
    ASSUME TypeOK
    PROVE  /\ sent \in Seq(Writers) /\ Middle \in Seq(Writers) /\ queue \in Seq(Writers)
           /\ Pending = (sent \o Middle) \o queue /\ Pending \in Seq(Writers)
BY DEF TypeOK, Middle, Pending

(* Steps that leave the events as they are. *)
LEMMA MailStays ==
    ASSUME MailInv, ReadInv, Pending' = Pending, lost' = lost,
           \A w \in Writers :
             /\ tx'[w].pc \in {"idle", "write"} => tx[w].pc \in {"idle", "write"}
             /\ tx'[w].pc = "answered" => tx'[w] = tx[w]
             /\ book'[w] # book[w] => tx[w].pc = "answered" /\ book'[w] = tx[w].doc
    PROVE  MailInv'
<1>1. Pending \in Seq(Writers)
  BY PendingIs DEF ReadInv
<1>2. \A i \in DOMAIN Pending : Pending[i] \in Writers
  BY <1>1
<1>3. EventsInOrder'
  BY DEF MailInv, EventsInOrder, Committed
<1>4. \A i \in DOMAIN Pending : tx'[Pending[i]].pc \notin {"idle", "write"}
  BY <1>2 DEF MailInv
<1>5. \A w \in Writers : tx'[w].pc = "answered" /\ Announces(tx'[w].doc.kind) =>
          w \in lost \/ \E i \in DOMAIN Pending : Pending[i] = w
  BY DEF MailInv
<1> QED
  BY <1>3, <1>4, <1>5 DEF MailInv

(* A new event goes to the end, and a full queue loses its oldest one. *)
LEMMA MailAnswer ==
    ASSUME MailInv, ReadInv, TypeOK', NEW w \in Writers, Answer(w)
    PROVE  MailInv'
<1>1. /\ tx[w].pc = "write" /\ tx' = [tx EXCEPT ![w].pc = "answered"]
      /\ UNCHANGED <<book, sending, sent>>
  BY DEF Answer, rest
<1>2. /\ TypeOK /\ w \in Req /\ tx[w] \in Transaction
  BY Fields DEF ReadInv, Req
<1>3. /\ tx'[w].pc = "answered" /\ tx'[w].doc = tx[w].doc
      /\ \A v \in Writers : v # w => tx'[v] = tx[v]
      /\ Committed' = Committed
  BY <1>1, <1>2 DEF TypeOK, Transaction, Committed, Req
<1>4. w \notin Committed
  BY <1>1 DEF ReadInv, WriterFormed, Committed
<1>5. \A i \in DOMAIN Pending : Pending[i] # w /\ Pending[i] \in Writers
  BY <1>1, <1>2, PendingIs DEF MailInv
<1>6. \A i \in DOMAIN Pending : tx'[Pending[i]].pc \notin {"idle", "write"}
  BY <1>3, <1>5 DEF MailInv
<1>7. CASE ~ Announces(tx[w].doc.kind)
  <2>1. Pending' = Pending /\ lost' = lost
    BY <1>1, <1>7 DEF Answer, Pending
  <2>2. EventsInOrder'
    BY <1>1, <1>3, <2>1 DEF MailInv, EventsInOrder
  <2> QED
    BY <1>3, <1>6, <1>7, <2>1, <2>2 DEF MailInv
<1>8. CASE Announces(tx[w].doc.kind) /\ ~ (Len(queue) >= MaxQueue)
  <2>1. queue' = Append(queue, w) /\ lost' = lost
    BY <1>8 DEF Answer, Enqueue
  <2>2. Pending' = Append(Pending, w)
    <3>1. Pending' = (sent \o Middle) \o Append(queue, w)
      BY <1>1, <2>1 DEF Pending, Middle
    <3>2. sent \o Middle \in Seq(Writers) /\ queue \in Seq(Writers)
      BY <1>2, PendingIs
    <3> HIDE DEF Middle
    <3>3. (sent \o Middle) \o Append(queue, w) = Append((sent \o Middle) \o queue, w)
      BY <3>2
    <3> QED
      BY <1>2, <3>1, <3>3, PendingIs
  <2> DEFINE p == Pending'
  <2>3. /\ Len(p) = Len(Pending) + 1 /\ p[Len(p)] = w /\ DOMAIN p = 1 .. Len(Pending) + 1
        /\ \A i \in 1 .. Len(Pending) : p[i] = Pending[i]
        /\ DOMAIN Pending = 1 .. Len(Pending) /\ Len(Pending) \in Nat
    BY <1>2, <2>2, PendingIs
  <2> HIDE DEF p
  <2>4. \A i \in DOMAIN p : \/ i \in DOMAIN Pending /\ p[i] = Pending[i]
                            \/ i = Len(p) /\ p[i] = w
    BY <2>3
  <2>5. \A v : (\E i \in DOMAIN Pending : Pending[i] = v) => \E i \in DOMAIN p : p[i] = v
    BY <2>3
  <2>6. \E i \in DOMAIN p : p[i] = w
    BY <2>3
  <2>7. \A i, j \in DOMAIN p : i # j => p[i] # p[j]
    BY <1>5, <2>4 DEF MailInv, EventsInOrder
  <2>8. \A i \in DOMAIN p : tx'[p[i]].pc \notin {"idle", "write"}
    BY <1>3, <1>6, <2>4
  <2>9. \A v \in Committed : Announces(book[v].kind) => v \in lost \/ \E i \in DOMAIN p : p[i] = v
    BY <2>5 DEF MailInv, EventsInOrder
  <2>10. \A v \in Writers : tx'[v].pc = "answered" /\ Announces(tx'[v].doc.kind) =>
            v \in lost \/ \E i \in DOMAIN p : p[i] = v
    BY <1>3, <2>5, <2>6 DEF MailInv
  <2> QED
    BY <1>1, <1>3, <2>1, <2>7, <2>8, <2>9, <2>10 DEF MailInv, EventsInOrder, p
<1>9. CASE Announces(tx[w].doc.kind) /\ Len(queue) >= MaxQueue
  <2>1. queue' = Append(Tail(queue), w) /\ lost' = lost \cup {Head(queue)}
    BY <1>9 DEF Answer, Enqueue
  <2>2. queue \in Seq(Writers) /\ queue # <<>> /\ Middle' = Middle
    BY <1>1, <1>2, <1>9, PendingIs, Constants DEF Middle
  <2>3. /\ Tail(queue) \in Seq(Writers) /\ queue' \in Seq(Writers) /\ Len(queue') = Len(queue) /\ Len(queue) \in Nat
        /\ \A i \in 1 .. (Len(queue) - 1) : queue'[i] = queue[i + 1]
        /\ queue'[Len(queue)] = w /\ Len(queue) >= 1 /\ Head(queue) = queue[1]
    BY <2>1, <2>2
  <2> DEFINE p == Pending'
             n == Len(sent) + Len(Middle)
  <2>4. /\ n \in Nat /\ Len(p) = n + Len(queue) /\ DOMAIN p = 1 .. (n + Len(queue))
        /\ \A i \in 1 .. Len(sent) : p[i] = sent[i]
        /\ \A i \in 1 .. Len(Middle) : p[Len(sent) + i] = Middle[i]
        /\ \A i \in 1 .. Len(queue) : p[n + i] = queue'[i]
    <3>1. sent \in Seq(Writers) /\ Middle \in Seq(Writers)
      BY <1>2, PendingIs
    <3>2. p = (sent \o Middle) \o queue'
      BY <1>1, <2>2 DEF Pending, Middle
    <3> HIDE DEF p
    <3>3. /\ DOMAIN p = 1 .. Len(sent) + Len(Middle) + Len(queue')
          /\ Len(p) = Len(sent) + Len(Middle) + Len(queue')
          /\ \A i \in 1 .. Len(sent) : p[i] = sent[i]
          /\ \A i \in 1 .. Len(Middle) : p[Len(sent) + i] = Middle[i]
          /\ \A i \in 1 .. Len(queue') : p[Len(sent) + Len(Middle) + i] = queue'[i]
      <4> DEFINE z == queue'
      <4>1. z \in Seq(Writers) /\ p = (sent \o Middle) \o z
        BY <2>3, <3>2
      <4> HIDE DEF z
      <4>2. /\ DOMAIN p = 1 .. Len(sent) + Len(Middle) + Len(z)
            /\ Len(p) = Len(sent) + Len(Middle) + Len(z)
            /\ \A i \in 1 .. Len(sent) : p[i] = sent[i]
            /\ \A i \in 1 .. Len(Middle) : p[Len(sent) + i] = Middle[i]
            /\ \A i \in 1 .. Len(z) : p[Len(sent) + Len(Middle) + i] = z[i]
        BY <3>1, <4>1, ThreeParts
      <4> QED
        BY <4>2 DEF z
    <3>4. Len(queue') = Len(queue) /\ Len(sent) \in Nat /\ Len(Middle) \in Nat
      BY <2>3, <3>1
    <3> QED
      BY <3>3, <3>4
  <2>5. /\ Len(Pending) = n + Len(queue) /\ DOMAIN Pending = 1 .. (n + Len(queue))
        /\ \A i \in 1 .. Len(sent) : Pending[i] = sent[i]
        /\ \A i \in 1 .. Len(Middle) : Pending[Len(sent) + i] = Middle[i]
        /\ \A i \in 1 .. Len(queue) : Pending[n + i] = queue[i]
        /\ Len(sent) \in Nat /\ Len(Middle) \in Nat
    <3> DEFINE q == Pending
    <3>1. q = (sent \o Middle) \o queue /\ sent \in Seq(Writers) /\ Middle \in Seq(Writers)
      BY <1>2, PendingIs
    <3> HIDE DEF q
    <3>2. /\ DOMAIN q = 1 .. Len(sent) + Len(Middle) + Len(queue)
          /\ Len(q) = Len(sent) + Len(Middle) + Len(queue)
          /\ \A i \in 1 .. Len(sent) : q[i] = sent[i]
          /\ \A i \in 1 .. Len(Middle) : q[Len(sent) + i] = Middle[i]
          /\ \A i \in 1 .. Len(queue) : q[Len(sent) + Len(Middle) + i] = queue[i]
      BY <2>2, <3>1, ThreeParts
    <3> QED
      BY <3>1, <3>2 DEF q
  <2> DEFINE m == n + Len(queue)
  <2> HIDE DEF p
  <2>6. \A i \in 1 .. n : p[i] = Pending[i]
    <3> SUFFICES ASSUME NEW i \in 1 .. n PROVE p[i] = Pending[i]
      OBVIOUS
    <3>1. CASE i <= Len(sent)
      BY <2>4, <2>5, <3>1
    <3>2. CASE i > Len(sent)
      <4> DEFINE j == i - Len(sent)
      <4>1. j \in 1 .. Len(Middle) /\ i = Len(sent) + j
        BY <2>5, <3>2
      <4> HIDE DEF j
      <4> QED
        BY <2>4, <2>5, <4>1
    <3> QED
      BY <2>5, <3>1, <3>2
  <2> HIDE DEF n
  <2>7. \A i \in (n + 1) .. (m - 1) : p[i] = Pending[i + 1]
    <3> SUFFICES ASSUME NEW i \in (n + 1) .. (m - 1) PROVE p[i] = Pending[i + 1]
      OBVIOUS
    <3> DEFINE j == i - n
    <3>1. /\ j \in 1 .. (Len(queue) - 1) /\ j \in 1 .. Len(queue) /\ j + 1 \in 1 .. Len(queue)
          /\ i = n + j /\ i + 1 = n + (j + 1)
      BY <2>3, <2>4
    <3> HIDE DEF j, m
    <3> QED
      BY <2>3, <2>4, <2>5, <3>1
  <2>8. p[m] = w /\ m \in Nat /\ m >= n + 1 /\ Pending[n + 1] = Head(queue)
    BY <2>3, <2>4, <2>5
  <2>9. \A i \in DOMAIN p : \/ i \in 1 .. n /\ p[i] = Pending[i]
                            \/ i \in (n + 1) .. (m - 1) /\ p[i] = Pending[i + 1]
                            \/ i = m /\ p[i] = w
    <3> SUFFICES ASSUME NEW i \in DOMAIN p
                 PROVE  \/ i \in 1 .. n /\ p[i] = Pending[i]
                        \/ i \in (n + 1) .. (m - 1) /\ p[i] = Pending[i + 1]
                        \/ i = m /\ p[i] = w
      OBVIOUS
    <3>1. i \in 1 .. m /\ n \in Nat /\ m \in Nat
      BY <2>4, <2>8
    <3>2. i \in 1 .. n \/ i \in (n + 1) .. (m - 1) \/ i = m
      BY <3>1
    <3> HIDE DEF m
    <3> QED
      BY <2>6, <2>7, <2>8, <3>2
  <2>10. DOMAIN p = 1 .. m /\ DOMAIN Pending = 1 .. m
    BY <2>4, <2>5
  <2> HIDE DEF m
  <2>11. \A i, j \in DOMAIN p : i # j => p[i] # p[j]
    BY <1>5, <2>4, <2>8, <2>9, <2>10, SMTT(30) DEF MailInv, EventsInOrder
  <2>12. \A i \in DOMAIN p : tx'[p[i]].pc \notin {"idle", "write"}
    <3>1. \A i \in DOMAIN p : p[i] = w \/ \E j \in DOMAIN Pending : p[i] = Pending[j]
      BY <2>4, <2>8, <2>9, <2>10
    <3> QED
      BY <1>3, <1>6, <3>1
  <2>13. \A v : (\E i \in DOMAIN Pending : Pending[i] = v) => v \in lost' \/ \E i \in DOMAIN p : p[i] = v
    <3> SUFFICES ASSUME NEW i \in DOMAIN Pending PROVE Pending[i] \in lost' \/ \E j \in DOMAIN p : p[j] = Pending[i]
      OBVIOUS
    <3>1. CASE i <= n
      BY <2>4, <2>6, <2>8, <2>10, <3>1
    <3>2. CASE i = n + 1
      BY <2>1, <2>8, <3>2
    <3>3. CASE i > n + 1
      <4>1. i - 1 \in (n + 1) .. (m - 1) /\ i - 1 \in DOMAIN p /\ (i - 1) + 1 = i
        BY <2>4, <2>8, <2>10, <3>3
      <4> QED
        BY <2>7, <4>1
    <3> QED
      BY <2>4, <2>10, <3>1, <3>2, <3>3
  <2>14. \E i \in DOMAIN p : p[i] = w
    BY <2>4, <2>8, <2>10
  <2>15. \A v \in Committed : Announces(book[v].kind) => v \in lost' \/ \E i \in DOMAIN p : p[i] = v
    BY <2>1, <2>13 DEF MailInv, EventsInOrder
  <2>16. \A v \in Writers : tx'[v].pc = "answered" /\ Announces(tx'[v].doc.kind) =>
            v \in lost' \/ \E i \in DOMAIN p : p[i] = v
    BY <1>3, <2>1, <2>13, <2>14 DEF MailInv
  <2> QED
    BY <1>1, <1>3, <2>11, <2>12, <2>15, <2>16 DEF MailInv, EventsInOrder, p
<1> QED
  BY <1>7, <1>8, <1>9

LEMMA MailTickWorker ==
    ASSUME MailInv, ReadInv, TickWorker
    PROVE  MailInv'
<1>1. /\ sending = None /\ queue # <<>> /\ sending' = Head(queue) /\ queue' = Tail(queue)
      /\ tx' = tx /\ book' = book /\ sent' = sent /\ lost' = lost
  BY DEF TickWorker, rest
<1>2. sent \in Seq(Writers) /\ queue \in Seq(Writers) /\ sending' # None /\ Head(queue) \in Writers
  BY <1>1, Constants DEF ReadInv, TypeOK
<1>3. Pending' = (sent \o <<Head(queue)>>) \o Tail(queue)
  BY <1>1, <1>2 DEF Pending
<1>4. Pending = sent \o queue
  <2>1. Pending = (sent \o <<>>) \o queue
    BY <1>1 DEF Pending
  <2> QED
    BY <1>2, <2>1, ConcatEmptySeq
<1>5. <<Head(queue)>> \in Seq(Writers) /\ Tail(queue) \in Seq(Writers)
  BY <1>1, <1>2
<1>6. queue = <<Head(queue)>> \o Tail(queue)
  BY <1>1, <1>2
<1>7. Pending' = Pending
  BY <1>2, <1>3, <1>4, <1>5, <1>6, ConcatAssociative
<1> QED
  BY <1>1, <1>7, MailStays

LEMMA MailDispatch ==
    ASSUME MailInv, ReadInv, Dispatch
    PROVE  MailInv'
<1>1. /\ sending # None /\ sent' = Append(sent, sending) /\ sending' = None
      /\ tx' = tx /\ book' = book /\ queue' = queue /\ lost' = lost
  BY DEF Dispatch, rest
<1>2. sent \in Seq(Writers) /\ queue \in Seq(Writers) /\ sending \in Writers
  BY <1>1 DEF ReadInv, TypeOK
<1>3. Pending = (sent \o <<sending>>) \o queue
  BY <1>1 DEF Pending
<1>4. Pending' = (Append(sent, sending) \o <<>>) \o queue
  BY <1>1 DEF Pending
<1>5. Append(sent, sending) \in Seq(Writers) /\ Append(sent, sending) = sent \o <<sending>>
  BY <1>2
<1>6. Pending' = Pending
  BY <1>3, <1>4, <1>5, ConcatEmptySeq
<1> QED
  BY <1>1, <1>6, MailStays

(* What was not yet dispatched is lost. *)
LEMMA MailRestart ==
    ASSUME MailInv, ReadInv, Restart
    PROVE  MailInv'
<1>1. /\ queue' = <<>> /\ sending' = None /\ sent' = sent /\ book' = book
      /\ lost' = lost \cup {queue[i] : i \in DOMAIN queue} \cup ({sending} \ {None})
      /\ tx' = [r \in Req |-> IF r \in InFlight
                              THEN Blank(IF r \in Writers THEN "rolledback" ELSE "failed")
                              ELSE tx[r]]
  BY DEF Restart
<1>2. TypeOK
  BY DEF ReadInv
<1>3. sent \in Seq(Writers) /\ Middle \in Seq(Writers) /\ queue \in Seq(Writers)
  BY <1>2, PendingIs
<1>4. Pending' = sent
  <2>1. Pending' = (sent \o <<>>) \o <<>>
    BY <1>1 DEF Pending
  <2> QED
    BY <1>3, <2>1, ConcatEmptySeq
<1> DEFINE p == Pending
<1>5. /\ DOMAIN p = 1 .. Len(sent) + Len(Middle) + Len(queue)
      /\ \A i \in 1 .. Len(sent) : p[i] = sent[i]
      /\ \A i \in 1 .. Len(Middle) : p[Len(sent) + i] = Middle[i]
      /\ \A i \in 1 .. Len(queue) : p[Len(sent) + Len(Middle) + i] = queue[i]
  <2>1. p = (sent \o Middle) \o queue
    BY <1>2, PendingIs
  <2> HIDE DEF p
  <2> QED
    BY <1>3, <2>1, ThreeParts
<1>6. /\ \A i \in DOMAIN sent : i \in DOMAIN Pending /\ Pending[i] = sent[i]
      /\ DOMAIN sent = 1 .. Len(sent) /\ Len(sent) \in Nat /\ Len(Middle) \in Nat /\ Len(queue) \in Nat
      /\ DOMAIN queue = 1 .. Len(queue)
  <2>1. DOMAIN sent = 1 .. Len(sent) /\ Len(sent) \in Nat /\ Len(Middle) \in Nat /\ Len(queue) \in Nat
        /\ DOMAIN queue = 1 .. Len(queue)
    BY <1>3
  <2> HIDE DEF p
  <2>2. \A i \in DOMAIN sent : i \in DOMAIN p /\ p[i] = sent[i]
    BY <1>5, <2>1
  <2> QED
    BY <2>1, <2>2 DEF p
<1>7. ASSUME NEW i \in DOMAIN Pending
      PROVE  Pending[i] \in lost' \/ \E j \in DOMAIN sent : sent[j] = Pending[i]
  <2> HIDE DEF p
  <2>1. i \in 1 .. Len(sent) + Len(Middle) + Len(queue)
    BY <1>5, <1>7 DEF p
  <2>2. CASE i <= Len(sent)
    <3>1. i \in DOMAIN sent /\ p[i] = sent[i]
      BY <1>5, <1>6, <2>1, <2>2
    <3> QED
      BY <3>1 DEF p
  <2>3. CASE i > Len(sent) /\ i <= Len(sent) + Len(Middle)
    <3> DEFINE j == i - Len(sent)
    <3>1. j \in 1 .. Len(Middle) /\ i = Len(sent) + j
      BY <1>6, <2>1, <2>3
    <3> HIDE DEF j
    <3>2. p[i] = Middle[j]
      BY <1>5, <3>1
    <3>3. sending # None /\ Middle[j] = sending
      <4>1. Len(Middle) >= 1
        BY <1>6, <3>1
      <4>2. CASE sending = None
        BY <4>1, <4>2 DEF Middle
      <4>3. CASE sending # None
        <5>1. Middle = <<sending>>
          BY <4>3 DEF Middle
        <5>2. j = 1
          BY <3>1, <5>1
        <5> QED
          BY <4>3, <5>1, <5>2
      <4> QED
        BY <4>2, <4>3
    <3> QED
      BY <1>1, <3>2, <3>3 DEF p
  <2>4. CASE i > Len(sent) + Len(Middle)
    <3> DEFINE j == i - (Len(sent) + Len(Middle))
    <3>1. j \in 1 .. Len(queue) /\ i = Len(sent) + Len(Middle) + j
      BY <1>6, <2>1, <2>4
    <3> HIDE DEF j
    <3>2. p[i] = queue[j] /\ j \in DOMAIN queue
      BY <1>5, <1>6, <3>1
    <3> QED
      BY <1>1, <3>2 DEF p
  <2> QED
    BY <1>6, <2>1, <2>2, <2>3, <2>4
<1> HIDE DEF p
<1>8. \A i, j \in DOMAIN sent : i # j => sent[i] # sent[j]
  BY <1>6 DEF MailInv, EventsInOrder
<1>9. \A w \in Writers : \/ tx'[w].pc = "rolledback"
                         \/ tx'[w] = tx[w] /\ tx[w].pc # "answered"
  <2> SUFFICES ASSUME NEW w \in Writers
               PROVE  \/ tx'[w].pc = "rolledback"
                      \/ tx'[w] = tx[w] /\ tx[w].pc # "answered"
    OBVIOUS
  <2>1. CASE w \in InFlight
    BY <1>1, <2>1, BlankType DEF Req, Label
  <2>2. CASE w \notin InFlight
    BY <1>1, <2>2 DEF Req, InFlight, InDatabase
  <2> QED
    BY <2>1, <2>2
<1>10. \A i \in DOMAIN sent : tx'[sent[i]].pc \notin {"idle", "write"}
  <2>1. \A i \in DOMAIN sent : sent[i] \in Writers /\ tx[sent[i]].pc \notin {"idle", "write"}
    BY <1>3, <1>6 DEF MailInv
  <2> QED
    BY <1>9, <2>1
<1>11. \A w \in Committed : Announces(book[w].kind) => w \in lost' \/ \E i \in DOMAIN sent : sent[i] = w
  <2>1. lost \subseteq lost'
    BY <1>1
  <2> QED
    BY <1>7, <2>1 DEF MailInv, EventsInOrder
<1>12. \A w \in Writers : tx'[w].pc # "answered"
  BY <1>9
<1>13. Committed' = Committed
  BY <1>1 DEF Committed
<1> QED
  BY <1>1, <1>4, <1>8, <1>10, <1>11, <1>12, <1>13 DEF MailInv, EventsInOrder

(* The readers announce nothing. *)
LEMMA MailReader ==
    ASSUME MailInv, ReadInv, NEW r \in Readers,
           \/ Ask(r) \/ ReadLines(r) \/ ReadOpen(r) \/ ReadRows(r)
           \/ Resume(r) \/ StoreSnapshot(r) \/ Fail(r)
    PROVE  MailInv'
<1>1. UNCHANGED <<mail, rest>>
  BY DEF Ask, ReadLines, ReadOpen, ReadRows, Resume, StoreSnapshot, Fail
<1>2. TypeOK /\ r \in Req /\ \A w \in Writers : w # r /\ w \in Req /\ tx[w].waits = None
  BY Constants DEF ReadInv, Req, WriterFormed
<1>3. ASSUME NEW ks, NEW v, NEW label, Settle(r, ks, v, label), NEW w \in Writers PROVE tx'[w] = tx[w]
  BY <1>2, <1>3 DEF Settle
<1>4. ASSUME NEW t, tx' = [tx EXCEPT ![r] = t], NEW w \in Writers PROVE tx'[w] = tx[w]
  BY <1>2, <1>4 DEF TypeOK
<1>5. ASSUME NEW w \in Writers PROVE tx'[w] = tx[w]
  <2>1. CASE Ask(r)
    BY <1>4, <2>1 DEF Ask
  <2>2. CASE ReadLines(r)
    BY <1>2, <2>2 DEF ReadLines, TypeOK
  <2>3. CASE ReadOpen(r)
    BY <1>2, <1>3, <2>3 DEF ReadOpen, TypeOK
  <2>4. CASE ReadRows(r)
    BY <1>3, <2>4 DEF ReadRows
  <2>5. CASE Resume(r)
    BY <1>3, <2>5 DEF Resume
  <2>6. CASE StoreSnapshot(r)
    BY <1>2, <2>6 DEF StoreSnapshot, Stop, TypeOK
  <2>7. CASE Fail(r)
    BY <1>2, <2>7 DEF Fail
  <2> QED
    BY <2>1, <2>2, <2>3, <2>4, <2>5, <2>6, <2>7
<1>6. Pending' = Pending /\ lost' = lost /\ book' = book
  BY <1>1 DEF mail, rest, Pending
<1> QED
  BY <1>5, <1>6, MailStays

LEMMA MailWriter ==
    ASSUME MailInv, ReadInv, TypeOK', NEW w \in Writers,
           Submit(w) \/ Answer(w) \/ Commit(w) \/ RollBack(w)
    PROVE  MailInv'
<1>1. TypeOK /\ w \in Req /\ tx[w] \in Transaction /\ Writers \subseteq Req
  BY Fields DEF ReadInv, Req
<1>2. CASE Submit(w)
  <2>1. PICK d \in Documents :
         tx' = [tx EXCEPT ![w] = [Blank("write") EXCEPT !.start = clock, !.doc = [d EXCEPT !.id = w]]]
    BY <1>2 DEF Submit
  <2>2. tx'[w].pc = "write" /\ tx[w].pc = "idle" /\ \A v \in Writers : v # w => tx'[v] = tx[v]
    BY <1>1, <1>2, <2>1 DEF Submit, TypeOK, Blank
  <2>3. Pending' = Pending /\ lost' = lost /\ book' = book
    BY <1>2 DEF Submit, mail, rest, Pending
  <2> QED
    BY <2>2, <2>3, MailStays
<1>3. CASE Answer(w)
  BY <1>3, MailAnswer
<1>4. CASE Commit(w)
  <2>1. /\ tx'[w].pc = "committed" /\ tx[w].pc = "answered"
        /\ \A v \in Writers : v # w => tx'[v] = tx[v] /\ book'[v] = book[v]
        /\ book'[w] = tx[w].doc
    BY <1>1, <1>4 DEF Commit, TypeOK, Transaction
  <2>2. Pending' = Pending /\ lost' = lost
    BY <1>4 DEF Commit, mail, Pending
  <2> QED
    BY <2>1, <2>2, MailStays
<1>5. CASE RollBack(w)
  <2>1. tx'[w].pc = "rolledback" /\ \A v \in Writers : v # w => tx'[v] = tx[v]
    BY <1>1, <1>5 DEF RollBack, TypeOK, Transaction
  <2>2. Pending' = Pending /\ lost' = lost /\ book' = book
    BY <1>5 DEF RollBack, mail, rest, Pending
  <2> QED
    BY <2>1, <2>2, MailStays
<1> QED
  BY <1>2, <1>3, <1>4, <1>5

LEMMA MailNext == ReadInv /\ MailInv /\ [HistoryNext]_<<vars, raced>> => MailInv'
<1> SUFFICES ASSUME ReadInv, MailInv, [HistoryNext]_<<vars, raced>> PROVE MailInv'
  OBVIOUS
<1>1. TypeOK'
  BY ReadNext DEF ReadInv
<1>2. CASE HistoryNext
  <2>1. Next
    BY <1>2 DEF HistoryNext
  <2>2. ASSUME NEW w \in Writers, Submit(w) \/ Answer(w) \/ Commit(w) \/ RollBack(w) PROVE MailInv'
    BY <1>1, <2>2, MailWriter
  <2>3. ASSUME NEW r \in Readers,
               \/ Ask(r) \/ ReadLines(r) \/ ReadOpen(r) \/ ReadRows(r)
               \/ Resume(r) \/ StoreSnapshot(r) \/ Fail(r)
        PROVE  MailInv'
    BY <2>3, MailReader
  <2>4. ASSUME Tick PROVE MailInv'
    BY <2>4, MailStays DEF Tick, mail, Pending
  <2> QED
    BY <2>1, <2>2, <2>3, <2>4, MailTickWorker, MailDispatch, MailRestart DEF Next
<1>3. CASE UNCHANGED <<vars, raced>>
  BY <1>3, MailStays DEF vars, Pending
<1> QED
  BY <1>2, <1>3

LEMMA MailInit == HistoryInit => MailInv
<1> SUFFICES ASSUME HistoryInit PROVE MailInv
  OBVIOUS
<1>1. /\ queue = <<>> /\ sending = None /\ sent = <<>> /\ book = [w \in Writers |-> None]
      /\ tx = [r \in Req |-> Blank("idle")]
  BY DEF HistoryInit, Init
<1>2. Pending = <<>> /\ Committed = {}
  <2>1. <<>> \in Seq(Writers)
    OBVIOUS
  <2>2. Pending = (<<>> \o <<>>) \o <<>>
    BY <1>1 DEF Pending
  <2> QED
    BY <1>1, <2>1, <2>2, ConcatEmptySeq DEF Committed
<1>3. \A w \in Writers : tx[w].pc = "idle"
  BY <1>1, BlankType DEF Req, Label
<1> QED
  BY <1>2, <1>3 DEF MailInv, EventsInOrder

(* Events leave inMemoryQueue in the order of their announcement, each once,
   and only a full queue or a restart loses one (notification-queue.ts). *)
THEOREM EventsStayInOrder == HistorySpec => []EventsInOrder
<1>1. HistoryInit => MailInv
  BY MailInit
<1>2. ReadInv /\ MailInv /\ [HistoryNext]_<<vars, raced>> => MailInv'
  BY MailNext
<1>3. MailInv => EventsInOrder
  BY DEF MailInv
<1> QED
  BY <1>1, <1>2, <1>3, ReadInvariance, PTL DEF HistorySpec

-----------------------------------------------------------------------------
(* What the reports compute: the lines of a document. *)

(* The lines of L on account a, and what lines debit and credit. *)
OnAccount(L, a) == {l \in L : l.account = a}
DebitSum(L)     == SumFunction([l \in L |-> l.debit])
CreditSum(L)    == SumFunction([l \in L |-> l.credit])

(* Each line of L is on an account of its own. *)
Separate(L) == /\ \A x \in L : x.debit \in Int /\ x.credit \in Int
               /\ \A x, y \in L : x.account = y.account => x = y

LEMMA LineOrNone ==
    ASSUME NEW L, Separate(L), NEW a
    PROVE  /\ \A x \in OnAccount(L, a) : /\ DebitSum(OnAccount(L, a)) = x.debit
                                         /\ CreditSum(OnAccount(L, a)) = x.credit
           /\ OnAccount(L, a) = {} => DebitSum(OnAccount(L, a)) = 0 /\ CreditSum(OnAccount(L, a)) = 0
<1>1. PICK K : K = OnAccount(L, a)
  OBVIOUS
<1>2. PICK f : f = [l \in K |-> l.debit]
  OBVIOUS
<1>3. PICK g : g = [l \in K |-> l.credit]
  OBVIOUS
<1>4. DebitSum(K) = SumFunctionOnSet(f, K) /\ CreditSum(K) = SumFunctionOnSet(g, K)
  BY <1>2, <1>3 DEF DebitSum, CreditSum, SumFunction
<1>5. ASSUME NEW x \in K
      PROVE  DebitSum(K) = x.debit /\ CreditSum(K) = x.credit
  <2>1. K = {x}
    BY <1>1 DEF OnAccount, Separate
  <2>2. f[x] = x.debit /\ g[x] = x.credit /\ f[x] \in Int /\ g[x] \in Int
    BY <1>1, <1>2, <1>3 DEF OnAccount, Separate
  <2> QED BY <1>4, <2>1, <2>2, SumOne
<1>6. ASSUME K = {} PROVE DebitSum(K) = 0 /\ CreditSum(K) = 0
  BY <1>4, <1>6, SumEmpty
<1> QED BY <1>1, <1>5, <1>6

(* The amount a document moves, and what of it to which account. *)
Turnover(d) ==
    CASE ~ d.auto \/ d.kind = "PROFORMA"              -> 0
      [] d.auto /\ d.kind \in {"FISCAL", "STORNO", "SUPPLIER"} -> d.base + d.tax
      [] d.auto /\ d.kind = "PAYROLL"                 -> d.base + d.cam
      [] OTHER                                        -> d.base

Debits(d, a) ==
    IF ~ d.auto THEN 0
    ELSE CASE d.kind = "FISCAL" /\ a = "4111"                       -> d.base + d.tax
           [] d.kind \in {"STORNO"} /\ a = "707"                    -> d.base
           [] d.kind = "STORNO" /\ a = "4427"                       -> d.tax
           [] d.kind = "SUPPLIER" /\ a = "6xx"                      -> d.base
           [] d.kind = "SUPPLIER" /\ a = "4426"                     -> d.tax
           [] d.kind \in {"RECEIPT", "MATCH", "MANUAL"} /\ a = "5121" -> d.base
           [] d.kind = "PAYMENT" /\ a = "401"                       -> d.base
           [] d.kind = "PAYROLL" /\ a = "6xx"                       -> d.base + d.cam
           [] OTHER                                                 -> 0

Credits(d, a) ==
    IF ~ d.auto THEN 0
    ELSE CASE d.kind = "FISCAL" /\ a = "707"                        -> d.base
           [] d.kind = "FISCAL" /\ a = "4427"                       -> d.tax
           [] d.kind = "STORNO" /\ a = "4111"                       -> d.base + d.tax
           [] d.kind = "SUPPLIER" /\ a = "401"                      -> d.base + d.tax
           [] d.kind \in {"RECEIPT", "MATCH"} /\ a = "4111"         -> d.base
           [] d.kind = "PAYMENT" /\ a = "5121"                      -> d.base
           [] d.kind = "PAYROLL" /\ a = "421"                       -> d.base - d.tax
           [] d.kind = "PAYROLL" /\ a = "43x"                       -> d.tax + d.cam
           [] d.kind = "MANUAL" /\ a = "707"                        -> d.base
           [] OTHER                                                 -> 0

LEMMA LinesOf ==
    ASSUME NEW d \in Document, NEW a
    PROVE  /\ Separate(Lines(d))
           /\ \A x \in Lines(d) : x.account = a => x.debit = Debits(d, a) /\ x.credit = Credits(d, a)
           /\ (\A x \in Lines(d) : x.account # a) => Debits(d, a) = 0 /\ Credits(d, a) = 0
<1>1. /\ d.kind \in Kind /\ d.base \in Nat /\ d.tax \in Nat /\ d.cam \in Nat /\ d.auto \in BOOLEAN
  BY DEF Document
<1>2. CASE ~ d.auto \/ d.kind = "PROFORMA"
  <2>1. Lines(d) = {}
    BY <1>2 DEF Lines
  <2>2. Debits(d, a) = 0 /\ Credits(d, a) = 0
    BY <1>2 DEF Debits, Credits
  <2> QED BY <2>1, <2>2 DEF Separate
<1>3. CASE d.auto /\ d.kind = "FISCAL"
  <2>1. Lines(d) = {Dr("4111", d.base + d.tax), Cr("707", d.base), Cr("4427", d.tax)}
    BY <1>3 DEF Lines
  <2> QED BY <1>1, <1>3, <2>1 DEF Dr, Cr, Debits, Credits, Separate
<1>4. CASE d.auto /\ d.kind = "STORNO"
  <2>1. Lines(d) = {Cr("4111", d.base + d.tax), Dr("707", d.base), Dr("4427", d.tax)}
    BY <1>4 DEF Lines
  <2> QED BY <1>1, <1>4, <2>1 DEF Dr, Cr, Debits, Credits, Separate
<1>5. CASE d.auto /\ d.kind = "SUPPLIER"
  <2>1. CASE d.tax > 0
    <3>1. Lines(d) = {Dr("6xx", d.base), Cr("401", d.base + d.tax), Dr("4426", d.tax)}
      BY <1>5, <2>1 DEF Lines
    <3> QED BY <1>1, <1>5, <3>1 DEF Dr, Cr, Debits, Credits, Separate
  <2>2. CASE ~(d.tax > 0)
    <3>1. Lines(d) = {Dr("6xx", d.base), Cr("401", d.base + d.tax)} /\ d.tax = 0
      BY <1>1, <1>5, <2>2 DEF Lines
    <3> QED BY <1>1, <1>5, <3>1 DEF Dr, Cr, Debits, Credits, Separate
  <2> QED BY <2>1, <2>2
<1>6. CASE d.auto /\ d.kind \in {"RECEIPT", "MATCH"}
  <2>1. Lines(d) = {Dr("5121", d.base), Cr("4111", d.base)}
    BY <1>6 DEF Lines
  <2> QED BY <1>1, <1>6, <2>1 DEF Dr, Cr, Debits, Credits, Separate
<1>7. CASE d.auto /\ d.kind = "PAYMENT"
  <2>1. Lines(d) = {Dr("401", d.base), Cr("5121", d.base)}
    BY <1>7 DEF Lines
  <2> QED BY <1>1, <1>7, <2>1 DEF Dr, Cr, Debits, Credits, Separate
<1>8. CASE d.auto /\ d.kind = "PAYROLL"
  <2>1. Lines(d) = {Dr("6xx", d.base + d.cam), Cr("421", d.base - d.tax), Cr("43x", d.tax + d.cam)}
    BY <1>8 DEF Lines
  <2> QED BY <1>1, <1>8, <2>1 DEF Dr, Cr, Debits, Credits, Separate
<1>9. CASE d.auto /\ d.kind = "MANUAL"
  <2>1. Lines(d) = {Dr("5121", d.base), Cr("707", d.base)}
    BY <1>9 DEF Lines
  <2> QED BY <1>1, <1>9, <2>1 DEF Dr, Cr, Debits, Credits, Separate
<1> QED BY <1>1, <1>2, <1>3, <1>4, <1>5, <1>6, <1>7, <1>8, <1>9 DEF Kind

LEMMA DocumentSides ==
    ASSUME NEW d \in Document, NEW a
    PROVE  /\ DebitSum(OnAccount(Lines(d), a)) = Debits(d, a)
           /\ CreditSum(OnAccount(Lines(d), a)) = Credits(d, a)
           /\ Debits(d, a) \in Int /\ Credits(d, a) \in Int
<1>1. /\ Separate(Lines(d))
      /\ \A x \in Lines(d) : x.account = a => x.debit = Debits(d, a) /\ x.credit = Credits(d, a)
      /\ (\A x \in Lines(d) : x.account # a) => Debits(d, a) = 0 /\ Credits(d, a) = 0
  BY LinesOf
<1>2. /\ \A x \in OnAccount(Lines(d), a) : /\ DebitSum(OnAccount(Lines(d), a)) = x.debit
                                           /\ CreditSum(OnAccount(Lines(d), a)) = x.credit
      /\ OnAccount(Lines(d), a) = {} => /\ DebitSum(OnAccount(Lines(d), a)) = 0
                                        /\ CreditSum(OnAccount(Lines(d), a)) = 0
  BY <1>1, LineOrNone
<1>3. CASE OnAccount(Lines(d), a) = {}
  BY <1>1, <1>2, <1>3 DEF OnAccount
<1>4. ASSUME NEW x \in OnAccount(Lines(d), a)
      PROVE  /\ DebitSum(OnAccount(Lines(d), a)) = Debits(d, a)
             /\ CreditSum(OnAccount(Lines(d), a)) = Credits(d, a)
             /\ Debits(d, a) \in Int /\ Credits(d, a) \in Int
  <2>1. x \in Lines(d) /\ x.account = a
    BY DEF OnAccount
  <2> QED BY <1>1, <1>2, <2>1 DEF Separate
<1> QED BY <1>3, <1>4

(* What the documents of S put on one side of account a. *)
DebitsIn(S, a)  == [d \in S |-> Debits(d, a)]
CreditsIn(S, a) == [d \in S |-> Credits(d, a)]

LEMMA SidesOf ==
    ASSUME NEW S \in SUBSET Document, IsFiniteSet(S), NEW a
    PROVE  /\ DebitOf(S, a) = SumFunctionOnSet(DebitsIn(S, a), S)
           /\ CreditOf(S, a) = SumFunctionOnSet(CreditsIn(S, a), S)
           /\ DebitOf(S, a) \in Int /\ CreditOf(S, a) \in Int
<1>1. PICK f : f = [d \in S |-> DebitSum(OnAccount(Lines(d), a))]
  OBVIOUS
<1>2. PICK g : g = [d \in S |-> CreditSum(OnAccount(Lines(d), a))]
  OBVIOUS
<1>3. DebitOf(S, a) = SumFunctionOnSet(f, S)
  <2>1. DebitOf(S, a) = SumFunction([d \in S |-> SumFunction([l \in {l \in Lines(d) : l.account = a} |-> l.debit])])
    BY DEF DebitOf, Total
  <2>2. DebitOf(S, a) = SumFunction(f)
    BY <1>1, <2>1 DEF DebitSum, OnAccount
  <2> QED BY <1>1, <2>2 DEF SumFunction
<1>4. CreditOf(S, a) = SumFunctionOnSet(g, S)
  <2>1. CreditOf(S, a) = SumFunction([d \in S |-> SumFunction([l \in {l \in Lines(d) : l.account = a} |-> l.credit])])
    BY DEF CreditOf, Total
  <2>2. CreditOf(S, a) = SumFunction(g)
    BY <1>2, <2>1 DEF CreditSum, OnAccount
  <2> QED BY <1>2, <2>2 DEF SumFunction
<1>5. \A d \in S : /\ f[d] = DebitsIn(S, a)[d] /\ g[d] = CreditsIn(S, a)[d]
                   /\ DebitsIn(S, a)[d] \in Int /\ CreditsIn(S, a)[d] \in Int
  BY <1>1, <1>2, DocumentSides DEF DebitsIn, CreditsIn
<1>6. /\ SumFunctionOnSet(f, S) = SumFunctionOnSet(DebitsIn(S, a), S)
      /\ SumFunctionOnSet(g, S) = SumFunctionOnSet(CreditsIn(S, a), S)
  BY <1>5, SumSame
<1>7. /\ SumFunctionOnSet(DebitsIn(S, a), S) \in Int
      /\ SumFunctionOnSet(CreditsIn(S, a), S) \in Int
  BY <1>5, SumInt
<1> QED BY <1>3, <1>4, <1>6, <1>7

(* What is summed over the documents of S. *)
Bases(S)    == [d \in S |-> d.base]
Charges(S)  == [d \in S |-> d.tax + d.cam]
Vats(S)     == [d \in S |-> Vat(d)]
Nets(S)     == [d \in S |-> Net(d)]
Grosses(S)  == [d \in S |-> Gross(d)]

LEMMA TotalIs ==
    ASSUME NEW S
    PROVE  /\ Total(LAMBDA d : d.base, S) = SumFunctionOnSet(Bases(S), S)
           /\ Total(LAMBDA d : d.tax + d.cam, S) = SumFunctionOnSet(Charges(S), S)
           /\ Total(Vat, S) = SumFunctionOnSet(Vats(S), S)
           /\ Total(Net, S) = SumFunctionOnSet(Nets(S), S)
           /\ Total(Gross, S) = SumFunctionOnSet(Grosses(S), S)
BY DEF Total, SumFunction, Bases, Charges, Vats, Nets, Grosses

LEMMA Amounts ==
    ASSUME NEW d \in Document
    PROVE  /\ d.kind \in Kind /\ d.base \in Nat /\ d.tax \in Nat /\ d.cam \in Nat
           /\ d.auto \in BOOLEAN /\ d.month \in Nat
           /\ Vat(d) \in Int /\ Net(d) \in Int /\ Gross(d) \in Int
           /\ d.kind # "STORNO" => Vat(d) = d.tax /\ Net(d) = d.base /\ Gross(d) \in Nat
           /\ d.kind = "STORNO" => Vat(d) = -d.tax /\ Net(d) = -d.base
BY DEF Document, Vat, Net, Gross, Sign

(* Which documents reach which account, once they are posted. *)
LEMMA PostedSides ==
    ASSUME NEW d \in Document, d.auto
    PROVE  /\ Debits(d, "401") = IF d.kind = "PAYMENT" THEN d.base ELSE 0
           /\ Credits(d, "43x") = IF d.kind = "PAYROLL" THEN d.tax + d.cam ELSE 0
           /\ Credits(d, "4427") = (IF d.kind \in {"FISCAL", "STORNO"} THEN Vat(d) ELSE 0) + Debits(d, "4427")
           /\ Debits(d, "4426") = IF d.kind = "SUPPLIER" THEN Vat(d) ELSE 0
           /\ Credits(d, "707") = (IF d.kind \in {"FISCAL", "STORNO"} THEN Net(d) ELSE 0)
                                  + ((IF d.kind = "MANUAL" THEN d.base ELSE 0) + Debits(d, "707"))
BY Amounts DEF Debits, Credits

LEMMA SidesNeverReached ==
    ASSUME NEW d \in Document
    PROVE  /\ Credits(d, "4426") = 0 /\ Credits(d, "6xx") = 0
           /\ d.kind # "STORNO" => Debits(d, "707") = 0
BY Amounts DEF Debits, Credits

-----------------------------------------------------------------------------
(* Double entry over the accounts. *)

LEMMA AccountFinite == IsFiniteSet(Account)
<1>1. IsFiniteSet({"4111"} \cup {"5121"} \cup {"4426"} \cup {"401"} \cup {"4427"})
  BY FS_Singleton, FS_Union
<1>2. IsFiniteSet({"421"} \cup {"43x"} \cup {"1012"} \cup {"707"} \cup {"6xx"})
  BY FS_Singleton, FS_Union
<1>3. Account = ({"4111"} \cup {"5121"} \cup {"4426"} \cup {"401"} \cup {"4427"})
                \cup ({"421"} \cup {"43x"} \cup {"1012"} \cup {"707"} \cup {"6xx"})
  BY DEF Account
<1> QED BY <1>1, <1>2, <1>3, FS_Union

(* Two accounts have all there is. *)
LEMMA TwoAccounts ==
    ASSUME NEW f, NEW a \in Account, NEW b \in Account, a # b, f[a] \in Int, f[b] \in Int,
           \A c \in Account \ {a, b} : f[c] = 0
    PROVE  SumFunctionOnSet(f, Account) = f[a] + f[b]
<1>1. SumFunctionOnSet(f, Account) = SumFunctionOnSet(f, {a, b})
  <2>1. \A c \in {a, b} : f[c] \in Int /\ f[c] = f[c]
    OBVIOUS
  <2>2. {a, b} \in SUBSET Account
    OBVIOUS
  <2> QED BY <2>1, <2>2, AccountFinite, SumWhere
<1>2. {a, b} = {a} \cup {b} /\ IsFiniteSet({b}) /\ a \notin {b}
  BY FS_Singleton
<1>3. {b} \cup {a} = {a, b} /\ \A y \in {b} \cup {a} : f[y] \in Int
  OBVIOUS
<1>4. SumFunctionOnSet(f, {b} \cup {a}) = f[a] + SumFunctionOnSet(f, {b})
  BY <1>2, <1>3, SumAdd
<1>5. SumFunctionOnSet(f, {b}) = f[b]
  BY SumOne
<1> QED BY <1>1, <1>3, <1>4, <1>5

DebitRow(d)  == [a \in Account |-> Debits(d, a)]
CreditRow(d) == [a \in Account |-> Credits(d, a)]

(* A document credits what it debits. *)
LEMMA DocumentBalances ==
    ASSUME NEW d \in Document
    PROVE  /\ SumFunctionOnSet(DebitRow(d), Account) = Turnover(d)
           /\ SumFunctionOnSet(CreditRow(d), Account) = Turnover(d)
           /\ Turnover(d) \in Int
<1>1. PICK f : f = DebitRow(d)
  OBVIOUS
<1>2. PICK g : g = CreditRow(d)
  OBVIOUS
<1>3. /\ \A a \in Account : f[a] = Debits(d, a) /\ g[a] = Credits(d, a)
      /\ \A a \in Account : f[a] \in Int /\ g[a] \in Int
  BY <1>1, <1>2, DocumentSides DEF DebitRow, CreditRow
<1>4. /\ d.kind \in Kind /\ d.base \in Nat /\ d.tax \in Nat /\ d.cam \in Nat /\ d.auto \in BOOLEAN
  BY Amounts
<1>5. ASSUME NEW a \in Account, NEW b \in Account, a # b,
             \A c \in Account \ {a, b} : Debits(d, c) = 0, Debits(d, a) + Debits(d, b) = Turnover(d)
      PROVE  SumFunctionOnSet(f, Account) = Turnover(d)
  BY <1>3, <1>5, TwoAccounts
<1>6. ASSUME NEW a \in Account, NEW b \in Account, a # b,
             \A c \in Account \ {a, b} : Credits(d, c) = 0, Credits(d, a) + Credits(d, b) = Turnover(d)
      PROVE  SumFunctionOnSet(g, Account) = Turnover(d)
  BY <1>3, <1>6, TwoAccounts
<1>7. Turnover(d) \in Int
  BY <1>4 DEF Turnover
<1>8. {"4111", "5121", "4426", "401", "4427", "421", "43x", "707", "6xx"} \subseteq Account
  BY DEF Account
<1>9. SumFunctionOnSet(f, Account) = Turnover(d)
  <2>1. CASE d.kind = "FISCAL" \/ ~ d.auto \/ d.kind = "PROFORMA"
    <3>1. \A c \in Account \ {"4111", "401"} : Debits(d, c) = 0
      BY <2>1, <1>4 DEF Debits
    <3>2. Debits(d, "4111") + Debits(d, "401") = Turnover(d)
      BY <2>1, <1>4 DEF Debits, Turnover
    <3> QED BY <1>5, <1>8, <3>1, <3>2
  <2>2. CASE d.auto /\ d.kind = "STORNO"
    <3>1. \A c \in Account \ {"707", "4427"} : Debits(d, c) = 0
      BY <2>2, <1>4 DEF Debits
    <3>2. Debits(d, "707") + Debits(d, "4427") = Turnover(d)
      BY <2>2, <1>4 DEF Debits, Turnover
    <3> QED BY <1>5, <1>8, <3>1, <3>2
  <2>3. CASE d.auto /\ d.kind \in {"SUPPLIER", "PAYROLL"}
    <3>1. \A c \in Account \ {"6xx", "4426"} : Debits(d, c) = 0
      BY <2>3, <1>4 DEF Debits
    <3>2. Debits(d, "6xx") + Debits(d, "4426") = Turnover(d)
      BY <2>3, <1>4 DEF Debits, Turnover
    <3> QED BY <1>5, <1>8, <3>1, <3>2
  <2>4. CASE d.auto /\ d.kind \in {"RECEIPT", "MATCH", "PAYMENT", "MANUAL"}
    <3>1. \A c \in Account \ {"5121", "401"} : Debits(d, c) = 0
      BY <2>4, <1>4 DEF Debits
    <3>2. Debits(d, "5121") + Debits(d, "401") = Turnover(d)
      BY <2>4, <1>4 DEF Debits, Turnover
    <3> QED BY <1>5, <1>8, <3>1, <3>2
  <2> QED BY <1>4, <2>1, <2>2, <2>3, <2>4 DEF Kind
<1>10. SumFunctionOnSet(g, Account) = Turnover(d)
  <2>1. CASE d.auto /\ d.kind = "FISCAL"
    <3>1. \A c \in Account \ {"707", "4427"} : Credits(d, c) = 0
      BY <2>1, <1>4 DEF Credits
    <3>2. Credits(d, "707") + Credits(d, "4427") = Turnover(d)
      BY <2>1, <1>4 DEF Credits, Turnover
    <3> QED BY <1>6, <1>8, <3>1, <3>2
  <2>2. CASE ~ d.auto \/ d.kind \in {"PROFORMA", "STORNO", "SUPPLIER", "RECEIPT", "MATCH"}
    <3>1. \A c \in Account \ {"4111", "401"} : Credits(d, c) = 0
      BY <2>2, <1>4 DEF Credits
    <3>2. Credits(d, "4111") + Credits(d, "401") = Turnover(d)
      BY <2>2, <1>4 DEF Credits, Turnover
    <3> QED BY <1>6, <1>8, <3>1, <3>2
  <2>3. CASE d.auto /\ d.kind = "PAYROLL"
    <3>1. \A c \in Account \ {"421", "43x"} : Credits(d, c) = 0
      BY <2>3, <1>4 DEF Credits
    <3>2. Credits(d, "421") + Credits(d, "43x") = Turnover(d)
      BY <2>3, <1>4 DEF Credits, Turnover
    <3> QED BY <1>6, <1>8, <3>1, <3>2
  <2>4. CASE d.auto /\ d.kind \in {"PAYMENT", "MANUAL"}
    <3>1. \A c \in Account \ {"5121", "707"} : Credits(d, c) = 0
      BY <2>4, <1>4 DEF Credits
    <3>2. Credits(d, "5121") + Credits(d, "707") = Turnover(d)
      BY <2>4, <1>4 DEF Credits, Turnover
    <3> QED BY <1>6, <1>8, <3>1, <3>2
  <2> QED BY <1>4, <2>1, <2>2, <2>3, <2>4 DEF Kind
<1> QED BY <1>1, <1>2, <1>7, <1>9, <1>10

Turnovers(S)    == [d \in S |-> Turnover(d)]
DebitRows(S)    == [d \in S |-> DebitRow(d)]
CreditRows(S)   == [d \in S |-> CreditRow(d)]
DebitColumns(S)  == [a \in Account |-> DebitsIn(S, a)]
CreditColumns(S) == [a \in Account |-> CreditsIn(S, a)]
DebitTotals(S)  == [a \in Account |-> DebitOf(S, a)]
CreditTotals(S) == [a \in Account |-> CreditOf(S, a)]

(* Both sides of the trial balance add up to what the documents move. *)
LEMMA TrialTotals ==
    ASSUME NEW S \in SUBSET Document, IsFiniteSet(S)
    PROVE  /\ TrialTotal(S, "debit") = SumFunctionOnSet(DebitTotals(S), Account)
           /\ TrialTotal(S, "credit") = SumFunctionOnSet(CreditTotals(S), Account)
           /\ TrialTotal(S, "debit") = SumFunctionOnSet(Turnovers(S), S)
           /\ TrialTotal(S, "credit") = SumFunctionOnSet(Turnovers(S), S)
<1>1. TrialTotal(S, "debit") = SumFunctionOnSet(DebitTotals(S), Account)
  <2>1. [a \in Account |-> TrialBalance(S)[a]["debit"]] = DebitTotals(S)
    BY DEF TrialBalance, DebitTotals
  <2>2. TrialTotal(S, "debit") = SumFunction([a \in Account |-> TrialBalance(S)[a]["debit"]])
    BY DEF TrialTotal, Total
  <2>3. DOMAIN DebitTotals(S) = Account
    BY DEF DebitTotals
  <2> QED BY <2>1, <2>2, <2>3 DEF SumFunction
<1>2. TrialTotal(S, "credit") = SumFunctionOnSet(CreditTotals(S), Account)
  <2>1. [a \in Account |-> TrialBalance(S)[a]["credit"]] = CreditTotals(S)
    BY DEF TrialBalance, CreditTotals
  <2>2. TrialTotal(S, "credit") = SumFunction([a \in Account |-> TrialBalance(S)[a]["credit"]])
    BY DEF TrialTotal, Total
  <2>3. DOMAIN CreditTotals(S) = Account
    BY DEF CreditTotals
  <2> QED BY <2>1, <2>2, <2>3 DEF SumFunction
<1>3. Transposed(DebitRows(S), DebitColumns(S), S, Account)
  BY DocumentSides DEF Transposed, DebitRows, DebitRow, DebitColumns, DebitsIn
<1>4. Transposed(CreditRows(S), CreditColumns(S), S, Account)
  BY DocumentSides DEF Transposed, CreditRows, CreditRow, CreditColumns, CreditsIn
<1>5. RowTotals(Turnovers(S), DebitRows(S), S, Account)
  BY DocumentBalances DEF RowTotals, Turnovers, DebitRows
<1>6. RowTotals(Turnovers(S), CreditRows(S), S, Account)
  BY DocumentBalances DEF RowTotals, Turnovers, CreditRows
<1>7. RowTotals(DebitTotals(S), DebitColumns(S), Account, S)
  BY SidesOf DEF RowTotals, DebitTotals, DebitColumns
<1>8. RowTotals(CreditTotals(S), CreditColumns(S), Account, S)
  BY SidesOf DEF RowTotals, CreditTotals, CreditColumns
<1>9. SumFunctionOnSet(Turnovers(S), S) = SumFunctionOnSet(DebitTotals(S), Account)
  BY <1>3, <1>5, <1>7, AccountFinite, SumSwap
<1>10. SumFunctionOnSet(Turnovers(S), S) = SumFunctionOnSet(CreditTotals(S), Account)
  BY <1>4, <1>6, <1>8, AccountFinite, SumSwap
<1> QED BY <1>1, <1>2, <1>9, <1>10

Balances(S) == [a \in Account |-> DebitOf(S, a) - CreditOf(S, a)]
TypeBalances(S) == [t \in {"ASSET", "LIABILITY", "EQUITY", "REVENUE", "EXPENSE"} |-> BalanceOf(S, t)]

LEMMA BalanceIs ==
    ASSUME NEW S \in SUBSET Document, IsFiniteSet(S), NEW t
    PROVE  BalanceOf(S, t) = SumFunctionOnSet(Balances(S), {a \in Account : AccountType[a] = t})
<1>1. PICK T : T = {a \in Account : AccountType[a] = t}
  OBVIOUS
<1>2. PICK g : g = [a \in T |-> DebitOf(S, a) - CreditOf(S, a)]
  OBVIOUS
<1>3. BalanceOf(S, t) = SumFunctionOnSet(g, T)
  BY <1>1, <1>2 DEF BalanceOf, Total, SumFunction
<1>4. \A a \in T : g[a] = Balances(S)[a]
  BY <1>1, <1>2 DEF Balances
<1>5. IsFiniteSet(T)
  BY <1>1, AccountFinite, FS_Subset
<1>6. SumFunctionOnSet(g, T) = SumFunctionOnSet(Balances(S), T)
  BY <1>4, <1>5, SumSame
<1> QED BY <1>1, <1>3, <1>6

(* Debits less credits come to nothing over all accounts. *)
LEMMA BalancesCancel ==
    ASSUME NEW S \in SUBSET Document, IsFiniteSet(S)
    PROVE  SumFunctionOnSet(Balances(S), Account) = 0
<1>1. \A a \in Account : /\ Balances(S)[a] \in Int /\ CreditTotals(S)[a] \in Int
                         /\ DebitTotals(S)[a] = Balances(S)[a] + CreditTotals(S)[a]
  BY SidesOf DEF Balances, CreditTotals, DebitTotals
<1>2. SumFunctionOnSet(DebitTotals(S), Account)
      = SumFunctionOnSet(Balances(S), Account) + SumFunctionOnSet(CreditTotals(S), Account)
  BY <1>1, AccountFinite, SumPlus
<1>3. /\ SumFunctionOnSet(Balances(S), Account) \in Int
      /\ SumFunctionOnSet(CreditTotals(S), Account) \in Int
  BY <1>1, AccountFinite, SumInt
<1>4. SumFunctionOnSet(DebitTotals(S), Account) = SumFunctionOnSet(CreditTotals(S), Account)
  BY TrialTotals
<1> QED BY <1>2, <1>3, <1>4

(* The types of account have their balances between them. *)
LEMMA TypesCancel ==
    ASSUME NEW S \in SUBSET Document, IsFiniteSet(S)
    PROVE  /\ \A t \in {"ASSET", "LIABILITY", "EQUITY", "REVENUE", "EXPENSE"} : BalanceOf(S, t) \in Int
           /\ BalanceOf(S, "ASSET") + BalanceOf(S, "LIABILITY") + BalanceOf(S, "EQUITY")
              + BalanceOf(S, "REVENUE") + BalanceOf(S, "EXPENSE") = 0
<1>1. PICK T : T = {"ASSET", "LIABILITY", "EQUITY", "REVENUE", "EXPENSE"}
  OBVIOUS
<1>2. PICK f : f = TypeBalances(S)
  OBVIOUS
<1>3. IsFiniteSet(T)
  <2>1. IsFiniteSet({"ASSET"} \cup {"LIABILITY"} \cup {"EQUITY"} \cup {"REVENUE"} \cup {"EXPENSE"})
    BY FS_Singleton, FS_Union
  <2>2. T = {"ASSET"} \cup {"LIABILITY"} \cup {"EQUITY"} \cup {"REVENUE"} \cup {"EXPENSE"}
    BY <1>1
  <2> QED BY <2>1, <2>2
<1>4. \A a \in Account : Balances(S)[a] \in Int /\ AccountType[a] \in T
  BY <1>1, SidesOf DEF Balances, AccountType
<1>5. \A t \in T : f[t] = SumFunctionOnSet(Balances(S), {a \in Account : AccountType[a] = t})
  BY <1>1, <1>2, BalanceIs DEF TypeBalances
<1>11. GroupTotals(f, Balances(S), AccountType, Account, T)
  BY <1>5, Zenon DEF GroupTotals
<1>6. SumFunctionOnSet(f, T) = SumFunctionOnSet(Balances(S), Account)
  BY <1>3, <1>4, <1>11, AccountFinite, SumGroups
<1>7. \A t \in T : f[t] \in Int
  <2> SUFFICES ASSUME NEW t \in T PROVE f[t] \in Int
    OBVIOUS
  <2>1. PICK A : A = {a \in Account : AccountType[a] = t}
    OBVIOUS
  <2>2. IsFiniteSet(A) /\ \A a \in A : Balances(S)[a] \in Int
    BY <1>4, <2>1, AccountFinite, FS_Subset
  <2>3. SumFunctionOnSet(Balances(S), A) \in Int
    BY <2>2, SumInt
  <2> QED BY <1>5, <2>1, <2>3
<1>8. SumFunctionOnSet(f, T)
      = f["ASSET"] + (f["LIABILITY"] + (f["EQUITY"] + (f["REVENUE"] + f["EXPENSE"])))
  <2>1. SumFunctionOnSet(f, T) = f["ASSET"] + SumFunctionOnSet(f, T \ {"ASSET"})
    BY <1>1, <1>3, <1>7, SumRemove
  <2>2. PICK U : U = {"LIABILITY", "EQUITY", "REVENUE", "EXPENSE"}
    OBVIOUS
  <2>3. U = T \ {"ASSET"} /\ IsFiniteSet(U) /\ \A t \in U : f[t] \in Int
    <3>1. U = T \ {"ASSET"}
      BY <1>1, <2>2
    <3> QED BY <1>3, <1>7, <3>1, FS_Subset
  <2>4. SumFunctionOnSet(f, U) = f["LIABILITY"] + SumFunctionOnSet(f, U \ {"LIABILITY"})
    BY <2>2, <2>3, SumRemove
  <2>5. PICK V : V = {"EQUITY", "REVENUE", "EXPENSE"}
    OBVIOUS
  <2>6. V = U \ {"LIABILITY"} /\ IsFiniteSet(V) /\ \A t \in V : f[t] \in Int
    <3>1. V = U \ {"LIABILITY"}
      BY <2>2, <2>5
    <3> QED BY <2>3, <3>1, FS_Subset
  <2>7. SumFunctionOnSet(f, V) = f["EQUITY"] + SumFunctionOnSet(f, V \ {"EQUITY"})
    BY <2>5, <2>6, SumRemove
  <2>8. PICK W : W = {"REVENUE", "EXPENSE"}
    OBVIOUS
  <2>9. W = V \ {"EQUITY"} /\ IsFiniteSet(W) /\ \A t \in W : f[t] \in Int
    <3>1. W = V \ {"EQUITY"}
      BY <2>5, <2>8
    <3> QED BY <2>6, <3>1, FS_Subset
  <2>10. SumFunctionOnSet(f, W) = f["REVENUE"] + SumFunctionOnSet(f, W \ {"REVENUE"})
    BY <2>8, <2>9, SumRemove
  <2>11. W \ {"REVENUE"} = {"EXPENSE"} /\ f["EXPENSE"] \in Int
    BY <2>8, <2>9
  <2>12. SumFunctionOnSet(f, {"EXPENSE"}) = f["EXPENSE"]
    BY <2>11, SumOne
  <2> QED BY <2>1, <2>3, <2>4, <2>6, <2>7, <2>9, <2>10, <2>11, <2>12
<1>9. \A t \in T : f[t] = BalanceOf(S, t)
  BY <1>1, <1>2 DEF TypeBalances
<1>10. SumFunctionOnSet(f, T) = 0
  BY <1>6, BalancesCancel
<1> HIDE DEF TypeBalances
<1> QED BY <1>1, <1>7, <1>8, <1>9, <1>10

LEMMA BooksDoBalance ==
    ASSUME NEW S \in SUBSET Document, IsFiniteSet(S)
    PROVE  BooksBalance(S)
<1>1. TrialTotal(S, "debit") = TrialTotal(S, "credit")
  BY TrialTotals
<1>2. /\ BalanceOf(S, "ASSET") \in Int /\ BalanceOf(S, "LIABILITY") \in Int
      /\ BalanceOf(S, "EQUITY") \in Int /\ BalanceOf(S, "REVENUE") \in Int
      /\ BalanceOf(S, "EXPENSE") \in Int
      /\ BalanceOf(S, "ASSET") + BalanceOf(S, "LIABILITY") + BalanceOf(S, "EQUITY")
         + BalanceOf(S, "REVENUE") + BalanceOf(S, "EXPENSE") = 0
  BY TypesCancel
<1>3. /\ BalanceSheet(S).assets = BalanceOf(S, "ASSET")
      /\ BalanceSheet(S).liabilities = -BalanceOf(S, "LIABILITY")
      /\ BalanceSheet(S).equity = -BalanceOf(S, "EQUITY")
      /\ NetProfit(S) = (-BalanceOf(S, "REVENUE")) - BalanceOf(S, "EXPENSE")
  BY DEF BalanceSheet, NetProfit, Revenues, Expenses
<1> QED BY <1>1, <1>2, <1>3 DEF BooksBalance

(* The accounts of the profit and loss account. *)
LEMMA ProfitAndLoss ==
    ASSUME NEW S \in SUBSET Document, IsFiniteSet(S)
    PROVE  /\ Revenues(S) = CreditOf(S, "707") - DebitOf(S, "707")
           /\ NetProfit(S) = (CreditOf(S, "707") - DebitOf(S, "707")) - DebitOf(S, "6xx")
           /\ CreditOf(S, "6xx") = 0
<1>1. /\ {a \in Account : AccountType[a] = "REVENUE"} = {"707"}
      /\ {a \in Account : AccountType[a] = "EXPENSE"} = {"6xx"}
  BY DEF Account, AccountType
<1>2. /\ Balances(S)["707"] = DebitOf(S, "707") - CreditOf(S, "707")
      /\ Balances(S)["6xx"] = DebitOf(S, "6xx") - CreditOf(S, "6xx")
  BY DEF Balances, Account
<1>3. /\ DebitOf(S, "707") \in Int /\ CreditOf(S, "707") \in Int
      /\ DebitOf(S, "6xx") \in Int /\ CreditOf(S, "6xx") \in Int
  BY SidesOf
<1>4. BalanceOf(S, "REVENUE") = Balances(S)["707"]
  <2>1. BalanceOf(S, "REVENUE") = SumFunctionOnSet(Balances(S), {"707"})
    BY <1>1, BalanceIs
  <2>2. Balances(S)["707"] \in Int
    BY <1>2, <1>3
  <2> QED BY <2>1, <2>2, SumOne
<1>5. BalanceOf(S, "EXPENSE") = Balances(S)["6xx"]
  <2>1. BalanceOf(S, "EXPENSE") = SumFunctionOnSet(Balances(S), {"6xx"})
    BY <1>1, BalanceIs
  <2>2. Balances(S)["6xx"] \in Int
    BY <1>2, <1>3
  <2> QED BY <2>1, <2>2, SumOne
<1>6. CreditOf(S, "6xx") = 0
  <2>1. CreditOf(S, "6xx") = SumFunctionOnSet(CreditsIn(S, "6xx"), S)
    BY SidesOf
  <2>2. \A d \in S : CreditsIn(S, "6xx")[d] = 0
    BY SidesNeverReached DEF CreditsIn
  <2>3. SumFunctionOnSet(CreditsIn(S, "6xx"), S) = 0
    BY <2>2, SumZero
  <2> QED BY <2>1, <2>3
<1> QED BY <1>2, <1>3, <1>4, <1>5, <1>6 DEF NetProfit, Revenues, Expenses

-----------------------------------------------------------------------------
(* The declarations. *)

LEMMA SomeOf ==
    ASSUME NEW S \in SUBSET Document, IsFiniteSet(S), NEW kinds
    PROVE  Of(S, kinds) \in SUBSET S /\ Of(S, kinds) \in SUBSET Document /\ IsFiniteSet(Of(S, kinds))
<1>1. Of(S, kinds) \subseteq S
  BY DEF Of
<1> QED BY <1>1, FS_Subset

LEMMA SumsAreInt ==
    ASSUME NEW S \in SUBSET Document, IsFiniteSet(S)
    PROVE  /\ SumFunctionOnSet(Bases(S), S) \in Int /\ SumFunctionOnSet(Charges(S), S) \in Nat
           /\ SumFunctionOnSet(Vats(S), S) \in Int /\ SumFunctionOnSet(Nets(S), S) \in Int
           /\ SumFunctionOnSet(Grosses(S), S) \in Int
<1>1. \A d \in S : /\ Bases(S)[d] \in Int /\ Charges(S)[d] \in Nat /\ Vats(S)[d] \in Int
                   /\ Nets(S)[d] \in Int /\ Grosses(S)[d] \in Int
  BY Amounts DEF Bases, Charges, Vats, Nets, Grosses
<1> HIDE DEF Bases, Charges, Vats, Nets, Grosses
<1> QED BY <1>1, SumInt, SumNat

(* Account 43x is the payroll, once it is posted. *)
LEMMA PayrollPosted ==
    ASSUME NEW S \in SUBSET Document, IsFiniteSet(S), Posted(S)
    PROVE  CreditOf(S, "43x") = SumFunctionOnSet(Charges(Payrolls(S)), Payrolls(S))
<1>1. PICK T : T = Payrolls(S)
  OBVIOUS
<1>2. T \in SUBSET S
  BY <1>1 DEF Payrolls, Of
<1>3. \A d \in T : Charges(T)[d] \in Int /\ CreditsIn(S, "43x")[d] = Charges(T)[d]
  BY <1>1, <1>2, PostedSides, Amounts DEF Payrolls, Of, Charges, CreditsIn, Posted
<1>4. \A d \in S \ T : CreditsIn(S, "43x")[d] = 0
  BY <1>1, PostedSides DEF Payrolls, Of, CreditsIn, Posted
<1>5. SumFunctionOnSet(CreditsIn(S, "43x"), S) = SumFunctionOnSet(Charges(T), T)
  BY <1>2, <1>3, <1>4, SumWhere
<1> QED BY <1>1, <1>5, SidesOf

(* Account 401 is debited with the payments, once they are posted. *)
LEMMA PaymentsPosted ==
    ASSUME NEW S \in SUBSET Document, IsFiniteSet(S), Posted(S)
    PROVE  DebitOf(S, "401") = SumFunctionOnSet(Bases(Of(S, {"PAYMENT"})), Of(S, {"PAYMENT"}))
<1>1. PICK T : T = Of(S, {"PAYMENT"})
  OBVIOUS
<1>2. T \in SUBSET S
  BY <1>1 DEF Of
<1>3. \A d \in T : Bases(T)[d] \in Int /\ DebitsIn(S, "401")[d] = Bases(T)[d]
  BY <1>1, <1>2, PostedSides, Amounts DEF Of, Bases, DebitsIn, Posted
<1>4. \A d \in S \ T : DebitsIn(S, "401")[d] = 0
  BY <1>1, PostedSides DEF Of, DebitsIn, Posted
<1>5. SumFunctionOnSet(DebitsIn(S, "401"), S) = SumFunctionOnSet(Bases(T), T)
  BY <1>2, <1>3, <1>4, SumWhere
<1> QED BY <1>1, <1>5, SidesOf

(* The VAT accounts hold the VAT of the invoices, once they are posted. *)
VatIn(S, T) == [d \in S |-> IF d \in T THEN Vat(d) ELSE 0]

LEMMA CollectedPosted ==
    ASSUME NEW S \in SUBSET Document, IsFiniteSet(S), Posted(S), "PROFORMA" \notin Kinds(S)
    PROVE  CreditOf(S, "4427") - DebitOf(S, "4427") = SumFunctionOnSet(Vats(Invoices(S)), Invoices(S))
<1>1. PICK T : T = Invoices(S)
  OBVIOUS
<1>2. T \in SUBSET S
  BY <1>1 DEF Invoices, Of
<1>3. \A d \in S : d \in T <=> d.kind \in {"FISCAL", "STORNO"}
  BY <1>1 DEF Invoices, Of, Kinds
<1>4. \A d \in S : /\ VatIn(S, T)[d] \in Int /\ DebitsIn(S, "4427")[d] \in Int
                   /\ CreditsIn(S, "4427")[d] = VatIn(S, T)[d] + DebitsIn(S, "4427")[d]
  BY <1>3, PostedSides, Amounts, DocumentSides DEF VatIn, DebitsIn, CreditsIn, Posted
<1>5. SumFunctionOnSet(CreditsIn(S, "4427"), S)
      = SumFunctionOnSet(VatIn(S, T), S) + SumFunctionOnSet(DebitsIn(S, "4427"), S)
  BY <1>4, SumPlus
<1>6. /\ \A d \in T : Vats(T)[d] \in Int /\ VatIn(S, T)[d] = Vats(T)[d]
      /\ \A d \in S \ T : VatIn(S, T)[d] = 0
  BY <1>2, Amounts DEF Vats, VatIn
<1>7. SumFunctionOnSet(VatIn(S, T), S) = SumFunctionOnSet(Vats(T), T)
  BY <1>2, <1>6, SumWhere
<1>8. SumFunctionOnSet(VatIn(S, T), S) \in Int
  BY <1>4, SumInt
<1> QED BY <1>1, <1>5, <1>7, <1>8, SidesOf

LEMMA DeductedPosted ==
    ASSUME NEW S \in SUBSET Document, IsFiniteSet(S), Posted(S)
    PROVE  DebitOf(S, "4426") - CreditOf(S, "4426") = SumFunctionOnSet(Vats(Purchases(S)), Purchases(S))
<1>1. PICK T : T = Purchases(S)
  OBVIOUS
<1>2. T \in SUBSET S
  BY <1>1 DEF Purchases, Of
<1>3. \A d \in T : Vats(T)[d] \in Int /\ DebitsIn(S, "4426")[d] = Vats(T)[d]
  BY <1>1, <1>2, PostedSides, Amounts DEF Purchases, Of, Vats, DebitsIn, Posted
<1>4. \A d \in S \ T : DebitsIn(S, "4426")[d] = 0
  BY <1>1, PostedSides DEF Purchases, Of, DebitsIn, Posted
<1>5. SumFunctionOnSet(DebitsIn(S, "4426"), S) = SumFunctionOnSet(Vats(T), T)
  BY <1>2, <1>3, <1>4, SumWhere
<1>6. \A d \in S : CreditsIn(S, "4426")[d] = 0
  BY SidesNeverReached DEF CreditsIn
<1>7. SumFunctionOnSet(CreditsIn(S, "4426"), S) = 0
  BY <1>6, SumZero
<1> QED BY <1>1, <1>5, <1>7, SidesOf

(* The revenue is what was invoiced and what was noted by hand. *)
NetIn(S, T)  == [d \in S |-> IF d \in T THEN Net(d) ELSE 0]
BaseIn(S, T) == [d \in S |-> IF d \in T THEN d.base ELSE 0]
RevenueIn(S) == [d \in S |-> Credits(d, "707") - Debits(d, "707")]

LEMMA RevenuePosted ==
    ASSUME NEW S \in SUBSET Document, IsFiniteSet(S), Posted(S), "PROFORMA" \notin Kinds(S)
    PROVE  CreditOf(S, "707") - DebitOf(S, "707")
           = SumFunctionOnSet(Nets(Invoices(S)), Invoices(S))
             + SumFunctionOnSet(Bases(Of(S, {"MANUAL"})), Of(S, {"MANUAL"}))
<1>1. PICK T : T = Invoices(S)
  OBVIOUS
<1>2. PICK U : U = Of(S, {"MANUAL"})
  OBVIOUS
<1>3. T \in SUBSET S /\ U \in SUBSET S
  BY <1>1, <1>2 DEF Invoices, Of
<1>4. \A d \in S : (d \in T <=> d.kind \in {"FISCAL", "STORNO"}) /\ (d \in U <=> d.kind = "MANUAL")
  BY <1>1, <1>2 DEF Invoices, Of, Kinds
<1>5. \A d \in S : /\ NetIn(S, T)[d] \in Int /\ BaseIn(S, U)[d] \in Int
                   /\ RevenueIn(S)[d] = NetIn(S, T)[d] + BaseIn(S, U)[d]
                   /\ RevenueIn(S)[d] \in Int /\ DebitsIn(S, "707")[d] \in Int
                   /\ CreditsIn(S, "707")[d] = RevenueIn(S)[d] + DebitsIn(S, "707")[d]
  BY <1>4, PostedSides, Amounts, DocumentSides DEF NetIn, BaseIn, RevenueIn, DebitsIn, CreditsIn, Posted
<1>6. SumFunctionOnSet(RevenueIn(S), S)
      = SumFunctionOnSet(NetIn(S, T), S) + SumFunctionOnSet(BaseIn(S, U), S)
  BY <1>5, SumPlus
<1>7. SumFunctionOnSet(CreditsIn(S, "707"), S)
      = SumFunctionOnSet(RevenueIn(S), S) + SumFunctionOnSet(DebitsIn(S, "707"), S)
  BY <1>5, SumPlus
<1>8. /\ \A d \in T : Nets(T)[d] \in Int /\ NetIn(S, T)[d] = Nets(T)[d]
      /\ \A d \in S \ T : NetIn(S, T)[d] = 0
  BY <1>3, Amounts DEF Nets, NetIn
<1>9. /\ \A d \in U : Bases(U)[d] \in Int /\ BaseIn(S, U)[d] = Bases(U)[d]
      /\ \A d \in S \ U : BaseIn(S, U)[d] = 0
  BY <1>3, Amounts DEF Bases, BaseIn
<1>10. /\ SumFunctionOnSet(NetIn(S, T), S) = SumFunctionOnSet(Nets(T), T)
       /\ SumFunctionOnSet(BaseIn(S, U), S) = SumFunctionOnSet(Bases(U), U)
  BY <1>3, <1>8, <1>9, SumWhere
<1>11. SumFunctionOnSet(RevenueIn(S), S) \in Int
  BY <1>5, SumInt
<1> QED BY <1>1, <1>2, <1>6, <1>7, <1>10, <1>11, SidesOf

(* Only a storno debits the revenue. *)
LEMMA RevenueCredited ==
    ASSUME NEW S \in SUBSET Document, IsFiniteSet(S), "STORNO" \notin Kinds(S)
    PROVE  DebitOf(S, "707") = 0
<1>1. \A d \in S : DebitsIn(S, "707")[d] = 0
  BY SidesNeverReached DEF DebitsIn, Kinds
<1>2. SumFunctionOnSet(DebitsIn(S, "707"), S) = 0
  BY <1>1, SumZero
<1> QED BY <1>2, SidesOf

(* An amount of the documents abroad is a part of the amount of all. *)
LEMMA GrossPart ==
    ASSUME NEW S \in SUBSET Document, IsFiniteSet(S), \A d \in S : d.kind # "STORNO",
           NEW T \in SUBSET S
    PROVE  SumFunctionOnSet(Grosses(T), T) <= SumFunctionOnSet(Grosses(S), S)
<1>1. IsFiniteSet(T)
  BY FS_Subset
<1>2. \A d \in T : Grosses(T)[d] = Grosses(S)[d]
  BY DEF Grosses
<1>3. \A d \in S : Grosses(S)[d] \in Nat
  BY Amounts DEF Grosses
<1>4. SumFunctionOnSet(Grosses(T), T) = SumFunctionOnSet(Grosses(S), T)
  BY <1>1, <1>2, SumSame
<1> QED BY <1>3, <1>4, SumPart

LEMMA LeiGrows == ASSUME NEW x \in Int, NEW y \in Int, x <= y PROVE Lei(x) <= Lei(y)
BY DEF Lei

(* An invoice that is posted moves the VAT account. *)
LEMMA InvoiceMovesVat ==
    ASSUME NEW d \in Document, d.auto, d.kind \in {"FISCAL", "STORNO"}
    PROVE  \E l \in Lines(d) : l.account = "4427"
<1>1. CASE d.kind = "FISCAL"
  <2>1. Cr("4427", d.tax) \in Lines(d)
    BY <1>1 DEF Lines
  <2> QED BY <2>1 DEF Cr
<1>2. CASE d.kind = "STORNO"
  <2>1. Dr("4427", d.tax) \in Lines(d)
    BY <1>2 DEF Lines
  <2> QED BY <2>1 DEF Dr
<1> QED BY <1>1, <1>2

(* The VAT statement is the VAT of the invoices of the month. *)
LEMMA VatStatement ==
    ASSUME NEW S \in SUBSET Document, IsFiniteSet(S), Posted(S), "PROFORMA" \notin Kinds(S), NEW m
    PROVE  D300(S, m) = Lei(Total(Vat, Invoices(InMonth(S, m))) - Total(Vat, Purchases(InMonth(S, m))))
<1>1. PICK M : M = InMonth(S, m)
  OBVIOUS
<1>2. M \subseteq S
  BY <1>1 DEF InMonth
<1>3. M \in SUBSET Document /\ IsFiniteSet(M) /\ Posted(M) /\ "PROFORMA" \notin Kinds(M)
  BY <1>2, FS_Subset DEF Posted, Kinds
<1>4. VatCollected(S, m) = Total(Vat, Invoices(M))
  <2>1. CASE Moved(M, "4427")
    BY <1>1, <1>3, <2>1, CollectedPosted, TotalIs DEF VatCollected
  <2>2. CASE ~ Moved(M, "4427")
    <3>1. ASSUME NEW d \in Invoices(M) PROVE FALSE
      <4>1. d \in M /\ d.kind \in {"FISCAL", "STORNO"} /\ d.auto
        BY <1>3 DEF Invoices, Of, Kinds, Posted
      <4> QED BY <1>3, <2>2, <4>1, InvoiceMovesVat DEF Moved
    <3>2. Invoices(M) = {} /\ Taxed(S, m) = {}
      BY <1>1, <3>1 DEF Taxed
    <3> QED BY <1>1, <2>2, <3>2 DEF VatCollected
  <2> QED BY <2>1, <2>2
<1>5. VatDeductible(S, m) = Total(Vat, Purchases(M))
  <2>1. CASE Moved(M, "4426")
    BY <1>1, <1>3, <2>1, DeductedPosted, TotalIs DEF VatDeductible
  <2>2. CASE ~ Moved(M, "4426")
    BY <1>1, <2>2 DEF VatDeductible
  <2> QED BY <2>1, <2>2
<1> QED BY <1>1, <1>4, <1>5 DEF D300

(* A document that is posted has a line. *)
LEMMA PostedHasLines ==
    ASSUME NEW d \in Document, d.auto, d.kind # "PROFORMA"
    PROVE  Lines(d) # {}
<1>1. d.kind \in Kind
  BY Amounts
<1>2. CASE d.kind \in {"FISCAL", "STORNO"}
  BY <1>2, InvoiceMovesVat
<1>3. CASE d.kind = "SUPPLIER"
  <2>1. Dr("6xx", d.base) \in Lines(d)
    BY <1>3 DEF Lines
  <2> QED BY <2>1
<1>4. CASE d.kind \in {"RECEIPT", "MATCH", "MANUAL"}
  <2>1. Dr("5121", d.base) \in Lines(d)
    BY <1>4 DEF Lines
  <2> QED BY <2>1
<1>5. CASE d.kind = "PAYMENT"
  <2>1. Dr("401", d.base) \in Lines(d)
    BY <1>5 DEF Lines
  <2> QED BY <2>1
<1>6. CASE d.kind = "PAYROLL"
  <2>1. Cr("43x", d.tax + d.cam) \in Lines(d)
    BY <1>6 DEF Lines
  <2> QED BY <2>1
<1> QED BY <1>1, <1>2, <1>3, <1>4, <1>5, <1>6 DEF Kind

(* The general ledger of the SAF-T file. *)
LEMMA FileLedger ==
    ASSUME NEW S \in SUBSET Document, IsFiniteSet(S), NEW m
    PROVE  /\ D406(S, m).ledger.debit = SumFunctionOnSet(Turnovers(S), InMonth(S, m))
           /\ D406(S, m).ledger.credit = SumFunctionOnSet(Turnovers(S), InMonth(S, m))
<1>1. PICK M : M = InMonth(S, m)
  OBVIOUS
<1>2. PICK N : N = {d \in M : Lines(d) # {}}
  OBVIOUS
<1>3. M \subseteq S /\ N \in SUBSET M
  BY <1>1, <1>2 DEF InMonth
<1>4. /\ N \in SUBSET Document /\ IsFiniteSet(N) /\ IsFiniteSet(M)
  BY <1>3, FS_Subset
<1>5. /\ D406(S, m).ledger.debit = TrialTotal(N, "debit")
      /\ D406(S, m).ledger.credit = TrialTotal(N, "credit")
  BY <1>1, <1>2 DEF D406, GeneralLedgerEntries
<1>6. /\ TrialTotal(N, "debit") = SumFunctionOnSet(Turnovers(N), N)
      /\ TrialTotal(N, "credit") = SumFunctionOnSet(Turnovers(N), N)
  BY <1>4, TrialTotals
<1>7. \A d \in N : Turnovers(N)[d] \in Int /\ Turnovers(S)[d] = Turnovers(N)[d]
  BY <1>3, <1>4, DocumentBalances DEF Turnovers
<1>8. \A d \in M \ N : Turnovers(S)[d] = 0
  <2> SUFFICES ASSUME NEW d \in M \ N PROVE Turnover(d) = 0
    BY <1>3 DEF Turnovers
  <2>1. d \in Document /\ Lines(d) = {}
    BY <1>2, <1>3
  <2>2. d.auto \in BOOLEAN /\ d.kind \in Kind
    BY <2>1, Amounts
  <2>3. ~ d.auto \/ d.kind = "PROFORMA"
    BY <2>1, PostedHasLines
  <2> QED BY <2>3 DEF Turnover
<1>9. SumFunctionOnSet(Turnovers(S), M) = SumFunctionOnSet(Turnovers(N), N)
  BY <1>3, <1>4, <1>7, <1>8, SumWhere
<1> QED BY <1>1, <1>5, <1>6, <1>9

MonthTotals(S) == [m \in Months(S) |-> D406(S, m).ledger.debit]
MonthOf(S)    == [d \in S |-> d.month]

LEMMA MonthsFinite ==
    ASSUME NEW S, IsFiniteSet(S) PROVE IsFiniteSet(Months(S))
<1>1. PICK f : f = MonthOf(S)
  OBVIOUS
<1>2. f \in Surjection(S, Months(S))
  <2>1. f \in [S -> Months(S)] /\ \A m \in Months(S) : \E d \in S : f[d] = m
    BY <1>1 DEF MonthOf, Months
  <2> QED BY <2>1 DEF Surjection
<1> QED BY <1>2, FS_Surjection

(* The files of all months have the whole ledger between them. *)
LEMMA FilesHaveTheLedger ==
    ASSUME NEW S \in SUBSET Document, IsFiniteSet(S)
    PROVE  SumFunctionOnSet(MonthTotals(S), Months(S)) = TrialTotal(S, "debit")
<1>1. PICK T : T = Months(S)
  OBVIOUS
<1>2. PICK f : f = MonthTotals(S)
  OBVIOUS
<1>3. PICK g : g = MonthOf(S)
  OBVIOUS
<1>4. PICK w : w = Turnovers(S)
  OBVIOUS
<1>5. \A d \in S : w[d] \in Int /\ g[d] \in T
  BY <1>1, <1>3, <1>4, DocumentBalances DEF Turnovers, MonthOf, Months
<1>6. GroupTotals(f, w, g, S, T)
  <2> SUFFICES ASSUME NEW m \in T PROVE f[m] = SumFunctionOnSet(w, {d \in S : g[d] = m})
    BY Zenon DEF GroupTotals
  <2>1. f[m] = SumFunctionOnSet(w, InMonth(S, m))
    BY <1>1, <1>2, <1>4, FileLedger DEF MonthTotals
  <2>2. InMonth(S, m) = {d \in S : g[d] = m}
    BY <1>3 DEF InMonth, MonthOf
  <2> QED BY <2>1, <2>2
<1>7. SumFunctionOnSet(f, T) = SumFunctionOnSet(w, S)
  BY <1>1, <1>5, <1>6, MonthsFinite, SumGroups
<1> QED BY <1>1, <1>2, <1>4, <1>7, TrialTotals

LEMMA MonthsAgree ==
    ASSUME NEW S \in SUBSET Document, IsFiniteSet(S), NEW m
    PROVE  MonthAgrees(S, m)
<1>1. PICK M : M = InMonth(S, m)
  OBVIOUS
<1>2. M \subseteq S
  BY <1>1 DEF InMonth
<1>3. M \in SUBSET Document /\ IsFiniteSet(M)
  BY <1>2, FS_Subset
<1>4. /\ D406(S, m).sales.gross = Total(Gross, Invoices(M))
      /\ D406(S, m).sales.tax = Total(Vat, Invoices(M))
      /\ D406(S, m).sales.entries = Cardinality(Invoices(M))
      /\ D406(S, m).purchases.tax = Total(Vat, Purchases(M))
  BY <1>1 DEF D406, SalesInvoices, PurchaseInvoices
<1>5. /\ D394(S, m).total = Lei(Total(Gross, Invoices(M)))
      /\ D394(S, m).invoices = Cardinality(Invoices(M))
      /\ D100(S, m).base = Lei(Total(Gross, Invoices(M)))
  BY <1>1 DEF D394, D100
<1>6. D406(S, m).ledger.debit = D406(S, m).ledger.credit
  BY FileLedger
<1>7. ASSUME "PROFORMA" \notin Kinds(S), Posted(S)
      PROVE  D300(S, m) = Lei(D406(S, m).sales.tax - D406(S, m).purchases.tax)
  BY <1>1, <1>4, <1>7, VatStatement
<1>8. ASSUME Posted(S)
      PROVE  D112(S, m).owed = Lei(CreditOf(M, "43x"))
  <2>1. Posted(M)
    BY <1>2, <1>8 DEF Posted
  <2>2. CreditOf(M, "43x") = SumFunctionOnSet(Charges(Payrolls(M)), Payrolls(M))
    BY <1>3, <2>1, PayrollPosted
  <2>3. SumFunctionOnSet(Charges(Payrolls(M)), Payrolls(M)) \in Nat
    BY <1>3, SomeOf, SumsAreInt DEF Payrolls
  <2>4. D112(S, m).owed = UnsignedLei(SumFunctionOnSet(Charges(Payrolls(M)), Payrolls(M)))
    BY <1>1, TotalIs DEF D112
  <2>5. ASSUME NEW x \in Nat PROVE UnsignedLei(x) = Lei(x)
    BY DEF UnsignedLei, Lei, NotNegative
  <2> QED BY <2>2, <2>3, <2>4, <2>5
<1>9. ASSUME "STORNO" \notin Kinds(S)
      PROVE  D393(S, m).value <= D394(S, m).total
  <2>1. PICK I : I = Invoices(M)
    OBVIOUS
  <2>2. PICK A : A = {d \in I : d.abroad}
    OBVIOUS
  <2>3. I \in SUBSET M /\ I \in SUBSET Document /\ IsFiniteSet(I)
    BY <1>3, <2>1, SomeOf DEF Invoices
  <2>4. A \in SUBSET I /\ A \in SUBSET Document /\ IsFiniteSet(A)
    BY <2>2, <2>3, FS_Subset
  <2>5. \A d \in I : d.kind # "STORNO"
    BY <1>2, <1>9, <2>3 DEF Kinds
  <2>6. SumFunctionOnSet(Grosses(A), A) <= SumFunctionOnSet(Grosses(I), I)
    BY <2>3, <2>4, <2>5, GrossPart
  <2>7. D393(S, m).value = Lei(SumFunctionOnSet(Grosses(A), A))
    BY <1>1, <2>1, <2>2, TotalIs DEF D393
  <2>8. D394(S, m).total = Lei(SumFunctionOnSet(Grosses(I), I))
    BY <1>5, <2>1, TotalIs
  <2>9. SumFunctionOnSet(Grosses(A), A) \in Int /\ SumFunctionOnSet(Grosses(I), I) \in Int
    BY <2>3, <2>4, SumsAreInt
  <2> QED BY <2>6, <2>7, <2>8, <2>9, LeiGrows
<1> QED BY <1>1, <1>4, <1>5, <1>6, <1>7, <1>8, <1>9, SMT DEF MonthAgrees

LEMMA YearsAgree ==
    ASSUME NEW S \in SUBSET Document, IsFiniteSet(S)
    PROVE  YearAgrees(S)
<1>1. ASSUME "STORNO" \notin Kinds(S) PROVE D101(S).profit = Lei(NetProfit(S))
  <2>1. D101(S).profit = Lei(CreditOf(S, "707") - DebitOf(S, "6xx"))
    BY DEF D101
  <2>2. NetProfit(S) = CreditOf(S, "707") - DebitOf(S, "6xx")
    <3>1. CreditOf(S, "707") \in Int /\ DebitOf(S, "6xx") \in Int
      BY SidesOf
    <3>2. DebitOf(S, "707") = 0
      BY <1>1, RevenueCredited
    <3>3. NetProfit(S) = (CreditOf(S, "707") - DebitOf(S, "707")) - DebitOf(S, "6xx")
      BY ProfitAndLoss
    <3> QED BY <3>1, <3>2, <3>3
  <2> QED BY <2>1, <2>2
<1>2. ASSUME Posted(S) PROVE D205(S) = Lei(DebitOf(S, "401"))
  BY <1>2, PaymentsPosted, TotalIs DEF D205
<1>3. ASSUME Posted(S) PROVE TaxSummary(S, S).payroll = CreditOf(S, "43x")
  <2>1. TaxSummary(S, S).payroll = Total(LAMBDA d : d.tax + d.cam, Payrolls(S))
    BY DEF TaxSummary
  <2> QED BY <1>3, <2>1, PayrollPosted, TotalIs
<1>4. ASSUME "PROFORMA" \notin Kinds(S), Posted(S)
      PROVE  TaxSummary(S, S).sales = Revenues(S) - Total(LAMBDA d : d.base, Of(S, {"MANUAL"}))
  <2>1. TaxSummary(S, S).sales = Total(Net, Invoices(S))
    BY DEF TaxSummary
  <2>2. PICK x : x = SumFunctionOnSet(Nets(Invoices(S)), Invoices(S))
    OBVIOUS
  <2>3. PICK y : y = SumFunctionOnSet(Bases(Of(S, {"MANUAL"})), Of(S, {"MANUAL"}))
    OBVIOUS
  <2>4. x \in Int /\ y \in Int
    BY <2>2, <2>3, SomeOf, SumsAreInt DEF Invoices
  <2>5. Total(Net, Invoices(S)) = x /\ Total(LAMBDA d : d.base, Of(S, {"MANUAL"})) = y
    BY <2>2, <2>3, TotalIs
  <2>6. CreditOf(S, "707") - DebitOf(S, "707") = x + y
    BY <1>4, <2>2, <2>3, RevenuePosted
  <2>7. Revenues(S) = x + y
    BY <2>6, ProfitAndLoss
  <2> QED BY <2>1, <2>4, <2>5, <2>7
<1>5. D392(S).value <= Lei(PurchaseInvoices(S).gross)
  <2>1. PICK P : P = Purchases(S)
    OBVIOUS
  <2>2. PICK A : A = {d \in P : d.abroad}
    OBVIOUS
  <2>3. P \in SUBSET S /\ P \in SUBSET Document /\ IsFiniteSet(P)
    BY <2>1, SomeOf DEF Purchases
  <2>4. A \in SUBSET P /\ A \in SUBSET Document /\ IsFiniteSet(A)
    BY <2>2, <2>3, FS_Subset
  <2>5. \A d \in P : d.kind # "STORNO"
    BY <2>1 DEF Purchases, Of
  <2>6. SumFunctionOnSet(Grosses(A), A) <= SumFunctionOnSet(Grosses(P), P)
    BY <2>3, <2>4, <2>5, GrossPart
  <2>7. D392(S).value = Lei(SumFunctionOnSet(Grosses(A), A))
    <3>1. D392(S).value = Lei(Total(Gross, A))
      BY <2>1, <2>2 DEF D392
    <3> QED BY <3>1, TotalIs
  <2>8. PurchaseInvoices(S).gross = SumFunctionOnSet(Grosses(P), P)
    <3>1. PurchaseInvoices(S).gross = Total(Gross, P)
      BY <2>1 DEF PurchaseInvoices
    <3> QED BY <3>1, TotalIs
  <2>9. SumFunctionOnSet(Grosses(A), A) \in Int /\ SumFunctionOnSet(Grosses(P), P) \in Int
    BY <2>3, <2>4, SumsAreInt
  <2> QED BY <2>6, <2>7, <2>8, <2>9, LeiGrows
<1> QED BY <1>1, <1>2, <1>3, <1>4, <1>5, SMT DEF YearAgrees

-----------------------------------------------------------------------------
(* The committed books. *)

LEMMA BookStep ==
    ASSUME ReadInv, [HistoryNext]_<<vars, raced>>
    PROVE  book' = book \/ \E w \in Writers : book' = [book EXCEPT ![w] = tx[w].doc]
<1>1. CASE UNCHANGED <<vars, raced>>
  BY <1>1 DEF vars
<1>2. CASE HistoryNext
  <2>1. Next
    BY <1>2 DEF HistoryNext
  <2>2. ASSUME NEW w \in Writers, Submit(w) \/ Answer(w) \/ RollBack(w) PROVE book' = book
    BY <2>2 DEF Submit, Answer, RollBack, rest
  <2>3. ASSUME NEW w \in Writers, Commit(w) PROVE book' = [book EXCEPT ![w] = tx[w].doc]
    BY <2>3 DEF Commit
  <2>4. ASSUME NEW r \in Readers,
               \/ Ask(r) \/ ReadLines(r) \/ ReadOpen(r) \/ ReadRows(r)
               \/ Resume(r) \/ StoreSnapshot(r) \/ Fail(r)
        PROVE  book' = book
    BY <2>4 DEF Ask, ReadLines, ReadOpen, ReadRows, Resume, StoreSnapshot, Fail, rest
  <2>5. ASSUME TickWorker \/ Dispatch \/ Tick \/ Restart PROVE book' = book
    BY <2>5 DEF TickWorker, Dispatch, Tick, Restart, rest
  <2> QED BY <2>1, <2>2, <2>3, <2>4, <2>5 DEF Next
<1> QED BY <1>1, <1>2

(* However many requests there may be, finitely many have committed. *)
LEMMA FinitelyCommitted == HistorySpec => [](ReadInv /\ IsFiniteSet(Committed))
<1>1. HistoryInit => IsFiniteSet(Committed)
  <2> SUFFICES ASSUME HistoryInit PROVE IsFiniteSet(Committed)
    OBVIOUS
  <2>1. Committed = {}
    BY DEF HistoryInit, Init, Committed
  <2> QED BY <2>1, FS_EmptySet
<1>2. ReadInv /\ IsFiniteSet(Committed) /\ [HistoryNext]_<<vars, raced>> => IsFiniteSet(Committed)'
  <2> SUFFICES ASSUME ReadInv, IsFiniteSet(Committed), [HistoryNext]_<<vars, raced>>
               PROVE  IsFiniteSet(Committed')
    OBVIOUS
  <2>1. CASE book' = book
    <3>1. Committed' = Committed
      BY <2>1 DEF Committed
    <3> QED BY <3>1
  <2>2. ASSUME NEW w \in Writers, book' = [book EXCEPT ![w] = tx[w].doc]
        PROVE  IsFiniteSet(Committed')
    <3>1. Committed' \subseteq Committed \cup {w}
      BY <2>2 DEF Committed, ReadInv, TypeOK
    <3>2. IsFiniteSet(Committed \cup {w})
      BY FS_AddElement
    <3> QED BY <3>1, <3>2, FS_Subset
  <2> QED BY <2>1, <2>2, BookStep
<1> QED BY <1>1, <1>2, ReadInvariance, PTL DEF HistorySpec

LEMMA BooksAre ==
    ASSUME ReadInv, IsFiniteSet(Committed)
    PROVE  Books(Committed) \in SUBSET Document /\ IsFiniteSet(Books(Committed))
<1>1. PICK f : f = [w \in Committed |-> book[w]]
  OBVIOUS
<1>2. f \in Surjection(Committed, Books(Committed))
  <2>1. f \in [Committed -> Books(Committed)] /\ \A d \in Books(Committed) : \E w \in Committed : f[w] = d
    BY <1>1 DEF Books
  <2> QED BY <2>1 DEF Surjection
<1>3. Books(Committed) \subseteq Document
  BY DEF Books, Committed, ReadInv, TypeOK
<1> QED BY <1>2, <1>3, FS_Surjection

(* Whatever is committed, the trial balance balances and the balance sheet
   differs from zero by exactly the profit (computeStatements of
   statements-service.ts). *)
THEOREM TrialBalanceBalances == HistorySpec => []BooksBalance(Books(Committed))
<1>1. ReadInv /\ IsFiniteSet(Committed) => BooksBalance(Books(Committed))
  BY BooksAre, BooksDoBalance
<1> QED BY <1>1, FinitelyCommitted, PTL

(* Whatever is committed, the declarations agree with each other and with the
   journal (anaf-service.ts and statements-service.ts). *)
THEOREM DeclarationsAlwaysAgree == HistorySpec => []DeclarationsAgree
<1>1. ReadInv /\ IsFiniteSet(Committed) => DeclarationsAgree
  <2> SUFFICES ASSUME ReadInv, IsFiniteSet(Committed) PROVE DeclarationsAgree
    OBVIOUS
  <2>1. PICK S : S = Books(Committed)
    OBVIOUS
  <2>2. S \in SUBSET Document /\ IsFiniteSet(S)
    BY <2>1, BooksAre
  <2>3. \A m \in Months(S) : MonthAgrees(S, m)
    BY <2>2, MonthsAgree
  <2>4. YearAgrees(S)
    BY <2>2, YearsAgree
  <2>5. Total(LAMBDA m : D406(S, m).ledger.debit, Months(S)) = TrialTotal(S, "debit")
    <3>1. Total(LAMBDA m : D406(S, m).ledger.debit, Months(S)) = SumFunction(MonthTotals(S))
      BY DEF Total, MonthTotals
    <3>2. DOMAIN MonthTotals(S) = Months(S)
      BY DEF MonthTotals
    <3>3. SumFunctionOnSet(MonthTotals(S), Months(S)) = TrialTotal(S, "debit")
      BY <2>2, FilesHaveTheLedger
    <3> QED BY <3>1, <3>2, <3>3 DEF SumFunction
  <2> QED BY <2>1, <2>3, <2>4, <2>5 DEF DeclarationsAgree
<1> QED BY <1>1, FinitelyCommitted, PTL

-----------------------------------------------------------------------------
(* What is open and how old it is. *)

Owed(S, P)     == [p \in P |-> OpenPayable(S, p)]
Due(S, I)      == [i \in I |-> OpenAmount(S, i)]
Age(D, today)  == [d \in D |-> Bucket(today - d.due)]
Counted(w, D, E) == [d \in D |-> IF d \in E THEN w[d] ELSE 0]
Left(w, D, E)    == [d \in D |-> IF d \in E THEN 0 ELSE w[d]]

LEMMA OpenIsNat ==
    ASSUME NEW S \in SUBSET Document, IsFiniteSet(S), NEW d \in Document
    PROVE  OpenPayable(S, d) \in Nat /\ OpenAmount(S, d) \in Nat
<1>1. PICK P : P = {p \in Of(S, {"PAYMENT"}) : p.of = d.id}
  OBVIOUS
<1>2. PICK R : R = ReceiptsOf(S, d)
  OBVIOUS
<1>3. P \subseteq S /\ R \subseteq S
  BY <1>1, <1>2 DEF Of, ReceiptsOf
<1>4. P \in SUBSET Document /\ IsFiniteSet(P) /\ R \in SUBSET Document /\ IsFiniteSet(R)
  BY <1>3, FS_Subset
<1>5. SumFunctionOnSet(Bases(P), P) \in Int /\ SumFunctionOnSet(Bases(R), R) \in Int
  BY <1>4, SumsAreInt
<1>6. OpenPayable(S, d) = NotNegative(Gross(d) - SumFunctionOnSet(Bases(P), P))
  BY <1>1, TotalIs DEF OpenPayable
<1>7. OpenAmount(S, d) = NotNegative(Gross(d) - SumFunctionOnSet(Bases(R), R))
  BY <1>2, TotalIs DEF OpenAmount, Received
<1>8. ASSUME NEW x \in Int PROVE NotNegative(x) \in Nat
  BY DEF NotNegative
<1> QED BY <1>5, <1>6, <1>7, <1>8, Amounts

LEMMA BucketsFinite == IsFiniteSet(Buckets)
<1>1. IsFiniteSet({"current"} \cup {"d1_30"} \cup {"d31_60"} \cup {"d61_90"} \cup {"d90_plus"})
  BY FS_Singleton, FS_Union
<1>2. Buckets = {"current"} \cup {"d1_30"} \cup {"d31_60"} \cup {"d61_90"} \cup {"d90_plus"}
  BY DEF Buckets
<1> QED BY <1>1, <1>2

LEMMA BucketOf ==
    ASSUME NEW days \in Int
    PROVE  Bucket(days) \in Buckets /\ (Bucket(days) = "current" <=> days <= 0)
<1>1. CASE days <= 0
  BY <1>1 DEF Bucket, Buckets
<1>2. CASE days > 0 /\ days <= 30
  BY <1>2 DEF Bucket, Buckets
<1>3. CASE days > 30 /\ days <= 60
  BY <1>3 DEF Bucket, Buckets
<1>4. CASE days > 60 /\ days <= 90
  BY <1>4 DEF Bucket, Buckets
<1>5. CASE days > 90
  BY <1>5 DEF Bucket, Buckets
<1> QED BY <1>1, <1>2, <1>3, <1>4, <1>5

(* Two parts of what is open that have nothing in common. *)
LEMMA SumApart ==
    ASSUME NEW D, IsFiniteSet(D), NEW w, \A d \in D : w[d] \in Nat,
           NEW E \in SUBSET D, NEW F \in SUBSET D, E \cap F = {}
    PROVE  SumFunctionOnSet(w, E) + SumFunctionOnSet(w, F) <= SumFunctionOnSet(w, D)
<1>1. \A d \in D : /\ Counted(w, D, E)[d] \in Int /\ Left(w, D, E)[d] \in Nat
                   /\ w[d] = Counted(w, D, E)[d] + Left(w, D, E)[d]
  BY DEF Counted, Left
<1>2. SumFunctionOnSet(w, D) = SumFunctionOnSet(Counted(w, D, E), D) + SumFunctionOnSet(Left(w, D, E), D)
  BY <1>1, SumPlus
<1>3. /\ \A d \in E : w[d] \in Int /\ Counted(w, D, E)[d] = w[d]
      /\ \A d \in D \ E : Counted(w, D, E)[d] = 0
  BY DEF Counted
<1>4. SumFunctionOnSet(Counted(w, D, E), D) = SumFunctionOnSet(w, E)
  BY <1>3, SumWhere
<1>5. SumFunctionOnSet(Left(w, D, E), F) <= SumFunctionOnSet(Left(w, D, E), D)
  BY <1>1, SumPart
<1>6. \A d \in F : Left(w, D, E)[d] = w[d]
  BY DEF Left
<1>7. IsFiniteSet(F)
  BY FS_Subset
<1>8. SumFunctionOnSet(Left(w, D, E), F) = SumFunctionOnSet(w, F)
  BY <1>6, <1>7, SumSame
<1>9. /\ SumFunctionOnSet(w, E) \in Int /\ SumFunctionOnSet(w, F) \in Int
      /\ SumFunctionOnSet(Left(w, D, E), D) \in Int
  <2>1. IsFiniteSet(E) /\ (\A d \in E : w[d] \in Int) /\ (\A d \in F : w[d] \in Int)
        /\ \A d \in D : Left(w, D, E)[d] \in Int
    BY <1>1, FS_Subset
  <2> HIDE DEF Left
  <2> QED BY <1>7, <2>1, SumInt
<1> QED BY <1>2, <1>4, <1>5, <1>8, <1>9

AgedBy(aging, w, D, today, B) ==
    \A b \in B : aging[b] = SumFunctionOnSet(w, {d \in D : Bucket(today - d.due) = b})

(* The buckets of an aging have between them what is open of the documents
   that fall into them. *)
LEMMA AgesAre ==
    ASSUME NEW D \in SUBSET Document, IsFiniteSet(D), NEW w, \A d \in D : w[d] \in Int,
           NEW today \in Int, NEW B \in SUBSET Buckets, \A d \in D : Bucket(today - d.due) \in B,
           NEW aging, AgedBy(aging, w, D, today, B)
    PROVE  Ages(aging, B) = SumFunctionOnSet(w, D)
<1> USE DEF AgedBy
<1>1. PICK g : g = Age(D, today)
  OBVIOUS
<1>2. PICK f : f = [b \in B |-> aging[b]]
  OBVIOUS
<1>3. Ages(aging, B) = SumFunctionOnSet(f, B)
  BY <1>2 DEF Ages, Total, SumFunction
<1>4. \A d \in D : w[d] \in Int /\ g[d] \in B
  BY <1>1 DEF Age
<1>5. GroupTotals(f, w, g, D, B)
  <2> SUFFICES ASSUME NEW b \in B PROVE f[b] = SumFunctionOnSet(w, {d \in D : g[d] = b})
    BY Zenon DEF GroupTotals
  <2>1. {d \in D : g[d] = b} = {d \in D : Bucket(today - d.due) = b}
    BY <1>1 DEF Age
  <2> QED BY <1>2, <2>1
<1>6. IsFiniteSet(B)
  BY BucketsFinite, FS_Subset
<1>7. SumFunctionOnSet(f, B) = SumFunctionOnSet(w, D)
  BY <1>4, <1>5, <1>6, SumGroups
<1> QED BY <1>3, <1>7

LEMMA AgingsDoAddUp ==
    ASSUME NEW S \in SUBSET Document, IsFiniteSet(S), NEW today \in Int
    PROVE  AgingsAddUp(S, today)
<1>1. PICK P : P = OpenPayables(S)
  OBVIOUS
<1>2. PICK I : I = OpenInvoices(S)
  OBVIOUS
<1>3. PICK w : w = Owed(S, P)
  OBVIOUS
<1>4. PICK u : u = Due(S, I)
  OBVIOUS
<1>5. P \subseteq S /\ I \subseteq S
  BY <1>1, <1>2 DEF OpenPayables, Purchases, OpenInvoices, Invoices, Of
<1>6. P \in SUBSET Document /\ IsFiniteSet(P) /\ I \in SUBSET Document /\ IsFiniteSet(I)
  BY <1>5, FS_Subset
<1>7. (\A p \in P : w[p] \in Nat) /\ (\A i \in I : u[i] \in Nat)
  BY <1>3, <1>4, <1>6, OpenIsNat DEF Owed, Due
<1>8. ASSUME NEW Q \in SUBSET P
      PROVE  Total(LAMBDA p : OpenPayable(S, p), Q) = SumFunctionOnSet(w, Q)
  <2>1. Total(LAMBDA p : OpenPayable(S, p), Q) = SumFunctionOnSet(Owed(S, Q), Q)
    BY DEF Total, SumFunction, Owed
  <2>2. \A p \in Q : Owed(S, Q)[p] = w[p]
    BY <1>3 DEF Owed
  <2>3. IsFiniteSet(Q)
    BY <1>6, FS_Subset
  <2> QED BY <2>1, <2>2, <2>3, SumSame
<1>9. ASSUME NEW J \in SUBSET I
      PROVE  Total(LAMBDA i : OpenAmount(S, i), J) = SumFunctionOnSet(u, J)
  <2>1. Total(LAMBDA i : OpenAmount(S, i), J) = SumFunctionOnSet(Due(S, J), J)
    BY DEF Total, SumFunction, Due
  <2>2. \A i \in J : Due(S, J)[i] = u[i]
    BY <1>4 DEF Due
  <2>3. IsFiniteSet(J)
    BY <1>6, FS_Subset
  <2> QED BY <2>1, <2>2, <2>3, SumSame
<1>10. \A d \in P \cup I : /\ d.due \in Nat /\ Bucket(today - d.due) \in Buckets
                          /\ (Bucket(today - d.due) = "current" <=> ~(d.due < today))
  <2> SUFFICES ASSUME NEW d \in Document
               PROVE  /\ d.due \in Nat /\ Bucket(today - d.due) \in Buckets
                      /\ (Bucket(today - d.due) = "current" <=> ~(d.due < today))
    BY <1>6
  <2>1. d.due \in Nat
    BY DEF Document
  <2> QED BY <2>1, BucketOf
<1>11. PICK aging : aging = PayablesAging(S, today)
  OBVIOUS
<1>12. ASSUME NEW b \in Buckets
       PROVE  aging[b] = SumFunctionOnSet(w, {p \in P : Bucket(today - p.due) = b})
  <2>1. PICK Q : Q = {p \in P : Bucket(today - p.due) = b}
    OBVIOUS
  <2>2. aging[b] = Total(LAMBDA p : OpenPayable(S, p), Q)
    BY <1>1, <1>11, <2>1 DEF PayablesAging
  <2> QED BY <1>8, <2>1, <2>2
<1>13. PICK late : late = {p \in P : p.due < today}
  OBVIOUS
<1>14. PICK soon : soon = {p \in P : p.due \in today..(today + 7)}
  OBVIOUS
<1>15. PurchasesDashboard(S, today).open = SumFunctionOnSet(w, P)
  <2>1. PurchasesDashboard(S, today).open = Total(LAMBDA p : OpenPayable(S, p), P)
    BY <1>1 DEF PurchasesDashboard
  <2> QED BY <1>8, <2>1
<1>16. PurchasesDashboard(S, today).overdue = SumFunctionOnSet(w, late)
  <2>1. PurchasesDashboard(S, today).overdue = Total(LAMBDA p : OpenPayable(S, p), late)
    BY <1>1, <1>13 DEF PurchasesDashboard
  <2>2. late \in SUBSET P
    BY <1>13
  <2> QED BY <1>8, <2>1, <2>2
<1>17. PurchasesDashboard(S, today).dueNext7 = SumFunctionOnSet(w, soon)
  <2>1. PurchasesDashboard(S, today).dueNext7 = Total(LAMBDA p : OpenPayable(S, p), soon)
    BY <1>1, <1>14 DEF PurchasesDashboard
  <2>2. soon \in SUBSET P
    BY <1>14
  <2> QED BY <1>8, <2>1, <2>2
<1>18. Ages(aging, Buckets) = SumFunctionOnSet(w, P)
  <2>1. AgedBy(aging, w, P, today, Buckets)
    BY <1>12, Zenon DEF AgedBy
  <2> QED BY <1>6, <1>7, <1>10, <2>1, AgesAre
<1>19. Ages(aging, Buckets \ {"current"}) = SumFunctionOnSet(w, late)
  <2>1. late \in SUBSET Document /\ IsFiniteSet(late) /\ late \subseteq P
    BY <1>6, <1>13, FS_Subset
  <2>2. PICK B : B = Buckets \ {"current"}
    OBVIOUS
  <2>3. B \in SUBSET Buckets /\ (\A d \in late : w[d] \in Int)
        /\ \A d \in late : Bucket(today - d.due) \in B
    BY <1>7, <1>10, <1>13, <2>2
  <2>4. ASSUME NEW b \in B
        PROVE  aging[b] = SumFunctionOnSet(w, {d \in late : Bucket(today - d.due) = b})
    <3>1. {d \in late : Bucket(today - d.due) = b} = {p \in P : Bucket(today - p.due) = b}
      BY <1>10, <1>13, <2>2
    <3> QED BY <1>12, <2>2, <3>1
  <2>5. AgedBy(aging, w, late, today, B)
    BY <2>4, Zenon DEF AgedBy
  <2>6. Ages(aging, B) = SumFunctionOnSet(w, late)
    BY <2>1, <2>3, <2>5, AgesAre
  <2> QED BY <2>2, <2>6
<1>20. SumFunctionOnSet(w, late) + SumFunctionOnSet(w, soon) <= SumFunctionOnSet(w, P)
  <2>1. late \in SUBSET P /\ soon \in SUBSET P /\ late \cap soon = {}
    BY <1>10, <1>13, <1>14
  <2> QED BY <1>6, <1>7, <2>1, SumApart
<1>21. NetOpenPosition(S) = SumFunctionOnSet(u, I) - SumFunctionOnSet(w, P)
  <2>1. PICK J : J = OpenReceivables(S)
    OBVIOUS
  <2>2. J \in SUBSET I /\ \A i \in I \ J : u[i] = 0
    BY <1>2, <1>4, <1>7, <2>1 DEF OpenReceivables, Due
  <2>3. SumFunctionOnSet(u, I) = SumFunctionOnSet(u, J)
    <3>1. \A i \in J : u[i] \in Int /\ u[i] = u[i]
      BY <1>7, <2>2
    <3> QED BY <1>6, <2>2, <3>1, SumWhere
  <2>4. Total(LAMBDA i : OpenAmount(S, i), J) = SumFunctionOnSet(u, J)
    BY <1>9, <2>2
  <2>5. Total(LAMBDA p : OpenPayable(S, p), P) = SumFunctionOnSet(w, P)
    BY <1>8
  <2>6. NetOpenPosition(S) = Total(LAMBDA i : OpenAmount(S, i), J) - Total(LAMBDA p : OpenPayable(S, p), P)
    BY <1>1, <2>1 DEF NetOpenPosition
  <2> QED BY <2>3, <2>4, <2>5, <2>6
<1>22. Ages(Aging(S, today), Buckets) = SumFunctionOnSet(u, I)
  <2>1. PICK a : a = Aging(S, today)
    OBVIOUS
  <2>2. ASSUME NEW b \in Buckets
        PROVE  a[b] = SumFunctionOnSet(u, {i \in I : Bucket(today - i.due) = b})
    <3>1. PICK J : J = {i \in I : Bucket(today - i.due) = b}
      OBVIOUS
    <3>2. a[b] = Total(LAMBDA i : OpenAmount(S, i), J)
      BY <1>2, <2>1, <3>1 DEF Aging
    <3> QED BY <1>9, <3>1, <3>2
  <2>3. AgedBy(a, u, I, today, Buckets)
    BY <2>2, Zenon DEF AgedBy
  <2>4. Ages(a, Buckets) = SumFunctionOnSet(u, I)
    BY <1>6, <1>7, <1>10, <2>3, AgesAre
  <2> QED BY <2>1, <2>4
<1> QED BY <1>11, <1>15, <1>16, <1>17, <1>18, <1>19, <1>20, <1>21, <1>22 DEF AgingsAddUp

(* Whatever is committed, on whatever day, the agings of receivables and
   payables split exactly what the dashboards call open, and no purchase is
   both overdue and due soon (statements-service.ts,
   dashboard-bi-service.ts and purchases.ts). *)
THEOREM AgingsAlwaysAddUp ==
    HistorySpec => [](\A today \in Int : AgingsAddUp(Books(Committed), today))
<1>1. ReadInv /\ IsFiniteSet(Committed) => \A today \in Int : AgingsAddUp(Books(Committed), today)
  BY BooksAre, AgingsDoAddUp
<1> QED BY <1>1, FinitelyCommitted, PTL

-----------------------------------------------------------------------------
(* Export jobs: their operators. *)
USE DEF Settled, JobStatus

(* A set of numbers that is not empty has a smallest one. *)
LEMMA LeastNumber ==
    ASSUME NEW T \in SUBSET Nat, T # {}
    PROVE  \E n \in T : \A m \in T : n <= m
<1>1. PICK n \in T : \A m \in T : <<m, n>> \notin OpToRel(<, Nat)
  BY WFMin, NatLessThanWellFounded, Zenon
<1>2. \A m \in T : ~(m < n)
  BY <1>1 DEF OpToRel
<1> QED BY <1>2

(* The oldest queued job is one of the queued jobs (findFirst by createdAt). *)
LEMMA OldestIsQueued ==
    ASSUME JobsInv, Queued # {}
    PROVE  Oldest \in Queued /\ Oldest \in Job
<1> DEFINE T == {k \in 1 .. Len(made) : made[k] \in Queued}
<1>1. Len(made) \in Nat
  BY DEF JobsInv, JobsTypeOK
<1>2. T # {} /\ T \in SUBSET Nat
  BY <1>1 DEF JobsInv, Queued
<1> HIDE DEF T
<1>3. PICK k \in T : \A m \in T : k <= m
  BY <1>2, LeastNumber
<1>4. k \in 1 .. Len(made) /\ IsOldest(k)
  BY <1>1, <1>3 DEF T, IsOldest
<1>5. IsOldest(CHOOSE n \in 1 .. Len(made) : IsOldest(n))
  BY <1>4
<1> QED BY <1>5 DEF IsOldest, Oldest, Queued

-----------------------------------------------------------------------------
(* Export jobs: steps of the requests.  They touch rows that no worker can see yet. *)

(* The request that creates a job, wherever it ends, keeps the invariant. *)
LEMMA RequestStep ==
    ASSUME JobsInv, NEW j \in Job, Request(j)
    PROVE  JobsInv'
<1> DEFINE JobRow == [st : JobStatus, attempts : Nat]
<1>1. /\ row \in [Job -> JobRow] /\ row[j] \in JobRow /\ worker' = worker /\ crashes' = crashes
      /\ mode' = mode /\ made \in Seq(Job)
      /\ req \in [Job -> {"idle", "audit", "enqueue", "answer", "done"}]
      /\ bull \in [Job -> {"absent", "waiting", "active"}]
  BY DEF JobsInv, JobsTypeOK, Request, CreateJob, WriteAudit, EnqueueExportJob, AnswerCreated,
         Disconnect, Timeout, EndEarly
<1>2. ASSUME \/ row' = row
             \/ /\ row[j].st \in {"ABSENT", "UNCOMMITTED"}
                /\ \E s \in {"ABSENT", "UNCOMMITTED", "QUEUED"} : row' = [row EXCEPT ![j].st = s]
                /\ \E k \in 1 .. Len(made') : made'[k] = j,
             made' = made \/ made' = Append(made, j),
             req' \in [Job -> {"audit", "enqueue", "answer", "done", "idle"}],
             \A i \in Job : req'[i] = "idle" => req[i] = "idle" /\ i # j,
             bull' \in [Job -> {"absent", "waiting", "active"}]
      PROVE  JobsInv'
  <2> DEFINE New(s) == [st |-> s, attempts |-> row[j].attempts]
  <2>1. /\ row' \in [Job -> JobRow] /\ \A i \in Job \ {j} : row'[i] = row[i]
        /\ \/ row'[j] = row[j]
           \/ /\ row[j].st \in {"ABSENT", "UNCOMMITTED"}
              /\ \E s \in {"ABSENT", "UNCOMMITTED", "QUEUED"} : row'[j] = New(s)
              /\ \E k \in 1 .. Len(made') : made'[k] = j
    <3>1. CASE row' = row
      BY <1>1, <3>1
    <3>2. ASSUME row[j].st \in {"ABSENT", "UNCOMMITTED"}, \E k \in 1 .. Len(made') : made'[k] = j,
                 NEW s \in {"ABSENT", "UNCOMMITTED", "QUEUED"}, row' = [row EXCEPT ![j].st = s]
          PROVE  /\ row' \in [Job -> JobRow] /\ \A i \in Job \ {j} : row'[i] = row[i]
                 /\ row'[j] = New(s)
      <4>1. row'[j] = [row[j] EXCEPT !.st = s] /\ \A i \in Job \ {j} : row'[i] = row[i]
        BY <1>1, <3>2
      <4>2. row'[j] = New(s)
        BY <1>1, <4>1
      <4>3. row' \in [Job -> JobRow]
        BY <1>1, <3>2
      <4> QED BY <3>2, <4>1, <4>2, <4>3
    <3> QED BY <1>2, <3>1, <3>2
  <2> HIDE DEF New
  <2>2. made' \in Seq(Job) /\ \A k \in 1 .. Len(made) : k \in 1 .. Len(made') /\ made'[k] = made[k]
    <3>1. CASE made' = made
      BY <1>1, <3>1
    <3>2. CASE made' = Append(made, j)
      BY <1>1, <3>2
    <3> QED BY <1>2, <3>1, <3>2
  <2>3. JobsTypeOK'
    BY <1>1, <1>2, <2>1, <2>2 DEF JobsInv, JobsTypeOK
  <2>4. ASSUME NEW i \in Job
        PROVE  /\ AttemptsByStatus(row'[i])
               /\ req'[i] = "idle" => row'[i].st = "ABSENT"
               /\ row'[i].st # "ABSENT" => \E k \in 1 .. Len(made') : made'[k] = i
    <3>1. /\ AttemptsByStatus(row[i])
          /\ req[i] = "idle" => row[i].st = "ABSENT"
          /\ row[i].st # "ABSENT" => \E k \in 1 .. Len(made) : made[k] = i
      BY DEF JobsInv
    <3>2. AttemptsByStatus(row'[i])
      <4>1. CASE row'[i] = row[i]
        BY <3>1, <4>1
      <4>2. ASSUME i = j, row[j].st \in {"ABSENT", "UNCOMMITTED"},
                   NEW s \in {"ABSENT", "UNCOMMITTED", "QUEUED"}, row'[j] = New(s)
            PROVE  AttemptsByStatus(row'[i])
        <5>1. row[j].attempts = 0
          BY <3>1, <4>2 DEF AttemptsByStatus
        <5>2. row'[i].st = s /\ row'[i].attempts = 0
          BY <4>2, <5>1 DEF New
        <5> QED BY <5>2, ExportJobsConstants DEF AttemptsByStatus
      <4> QED BY <2>1, <4>1, <4>2
    <3>3. req'[i] = "idle" => row'[i].st = "ABSENT"
      BY <1>2, <2>1, <3>1
    <3>4. row'[i].st # "ABSENT" => \E k \in 1 .. Len(made') : made'[k] = i
      BY <1>2, <2>1, <2>2, <3>1
    <3> QED BY <3>2, <3>3, <3>4
  <2>5. \A w \in Worker : worker[w].pc \in {"load", "run", "done", "failed"} =>
                             worker[w].job \in Job /\ row'[worker[w].job] = row[worker[w].job]
    BY <2>1 DEF JobsInv, OneRunner, Holding
  <2>6. /\ \A w \in Worker : /\ worker'[w].pc \notin {"down", "idle"} => worker'[w].job \in Job
                             /\ worker'[w].pc \in {"run", "done", "failed"}
                                  => worker'[w].attempts = row'[worker'[w].job].attempts
        /\ OneRunner'
    BY <1>1, <2>5 DEF JobsInv, OneRunner, Holding
  <2>7. \A i \in Job : AttemptsByStatus(row[i])'
    BY <2>4 DEF AttemptsByStatus
  <2> QED BY <2>3, <2>4, <2>6, <2>7 DEF JobsInv
<1>3. CASE CreateJob(j)
  <2>1. made'[Len(made')] = j /\ Len(made') \in 1 .. Len(made')
    BY <1>1, <1>3 DEF CreateJob
  <2>2. row[j].st = "ABSENT"
    BY <1>3 DEF CreateJob, JobsInv
  <2> QED BY <1>1, <1>2, <1>3, <2>1, <2>2 DEF CreateJob
<1>4. CASE WriteAudit(j)
  BY <1>1, <1>2, <1>4 DEF WriteAudit
<1>5. CASE EnqueueExportJob(j)
  <2>1. bull' \in [Job -> {"absent", "waiting", "active"}]
    BY <1>1, <1>5 DEF EnqueueExportJob, Added
  <2> QED BY <1>1, <1>2, <1>5, <2>1 DEF EnqueueExportJob
<1>6. row[j].st # "ABSENT" => \E k \in 1 .. Len(made) : made[k] = j
  BY DEF JobsInv
<1>7. CASE AnswerCreated(j)
  <2>1. CASE row[j].st = "UNCOMMITTED"
    BY <1>1, <1>2, <1>6, <1>7, <2>1 DEF AnswerCreated, CommittedRows
  <2>2. CASE row[j].st # "UNCOMMITTED"
    BY <1>1, <1>2, <1>7, <2>2 DEF AnswerCreated, CommittedRows
  <2> QED BY <2>1, <2>2
<1>8. req[j] = "idle" => row[j].st = "ABSENT"
  BY DEF JobsInv
<1>9. CASE Disconnect(j)
  BY <1>1, <1>2, <1>6, <1>8, <1>9 DEF Disconnect, EndEarly, CommittedRows
<1>10. CASE Timeout(j)
  BY <1>1, <1>2, <1>6, <1>8, <1>10 DEF Timeout, EndEarly
<1> QED BY <1>3, <1>4, <1>5, <1>7, <1>9, <1>10 DEF Request

-----------------------------------------------------------------------------
(* Export jobs: steps of the workers. *)

Slot == [pc : {"down", "idle", "find", "claim", "load", "run", "done", "failed",
               "requeue", "release"},
         job : Job \cup {NoJob}, attempts : Nat]

(* A worker moves on without writing a row: it holds nothing it did not hold. *)
LEMMA MoveStep ==
    ASSUME JobsInv, NEW w \in Worker, NEW u \in Slot,
           worker' = [worker EXCEPT ![w] = u],
           row' = row, made' = made, req' = req, mode' = mode, crashes' \in 0 .. Crashes,
           bull' \in [Job -> {"absent", "waiting", "active"}],
           u.pc \notin {"down", "idle"} => u.job \in Job,
           u.pc \in {"run", "done", "failed"} => u.attempts = row[u.job].attempts,
           u.pc \in {"load", "run", "done", "failed"} => Holding(w) /\ u.job = worker[w].job
    PROVE  JobsInv'
<1>1. worker \in [Worker -> Slot]
  BY DEF JobsInv, JobsTypeOK, Slot
<1>2. worker' \in [Worker -> Slot] /\ worker'[w] = u /\ \A v \in Worker \ {w} : worker'[v] = worker[v]
  BY <1>1
<1>3. JobsTypeOK'
  BY <1>2 DEF JobsInv, JobsTypeOK, Slot
<1>4. \A j \in Job : AttemptsByStatus(row[j])'
  BY DEF JobsInv, AttemptsByStatus
<1>5. \A v \in Worker : Holding(v)' => Holding(v) /\ worker'[v].job = worker[v].job
  BY <1>2 DEF Holding
<1>6. OneRunner'
  BY <1>5 DEF JobsInv, OneRunner
<1>7. \A v \in Worker : /\ worker'[v].pc \notin {"down", "idle"} => worker'[v].job \in Job
                        /\ worker'[v].pc \in {"run", "done", "failed"}
                             => worker'[v].attempts = row'[worker'[v].job].attempts
  BY <1>2 DEF JobsInv
<1> QED BY <1>3, <1>4, <1>6, <1>7 DEF JobsInv

(* A worker writes the row of its job, which nobody else holds. *)
LEMMA WriteStep ==
    ASSUME JobsInv, NEW w \in Worker, NEW label \in {"load", "requeue", "release"},
           NEW e \in [st : JobStatus, attempts : Nat],
           worker[w].job \in Job,
           worker' = [worker EXCEPT ![w].pc = label],
           row' = [row EXCEPT ![worker[w].job] = e],
           made' = made, req' = req, mode' = mode, crashes' = crashes, bull' = bull,
           row[worker[w].job].st # "ABSENT", e.st # "ABSENT", AttemptsByStatus(e),
           label = "load" => e.st = "PROCESSING",
           \A v \in Worker \ {w} : ~(Holding(v) /\ worker[v].job = worker[w].job)
    PROVE  JobsInv'
<1> DEFINE j == worker[w].job
<1>1. /\ worker \in [Worker -> Slot] /\ worker[w] \in Slot
      /\ row \in [Job -> [st : JobStatus, attempts : Nat]]
  BY DEF JobsInv, JobsTypeOK, Slot
<1>2. worker'[w] = [worker[w] EXCEPT !.pc = label] /\ \A v \in Worker \ {w} : worker'[v] = worker[v]
  BY <1>1
<1>3. /\ worker' \in [Worker -> Slot]
      /\ worker'[w].pc = label /\ worker'[w].job = j
  BY <1>1, <1>2 DEF Slot
<1>4. /\ row' \in [Job -> [st : JobStatus, attempts : Nat]]
      /\ row'[j] = e /\ \A i \in Job \ {j} : row'[i] = row[i]
  BY <1>1
<1>5. JobsTypeOK'
  BY <1>3, <1>4 DEF JobsInv, JobsTypeOK, Slot
<1>6. ASSUME NEW i \in Job
      PROVE  /\ AttemptsByStatus(row[i])'
             /\ req'[i] = "idle" => row'[i].st = "ABSENT"
             /\ row'[i].st # "ABSENT" => \E k \in 1 .. Len(made') : made'[k] = i
  <2>1. AttemptsByStatus(row'[i])
    BY <1>4 DEF JobsInv
  <2>2. AttemptsByStatus(row[i])'
    BY <2>1 DEF AttemptsByStatus
  <2> QED BY <1>4, <2>2 DEF JobsInv
<1>7. ASSUME NEW v \in Worker, v # w, Holding(v)
      PROVE  worker[v].job \in Job /\ worker[v].job # j /\ row'[worker[v].job] = row[worker[v].job]
  BY <1>4, <1>7 DEF JobsInv, Holding
<1>8. \A v \in Worker : /\ worker'[v].pc \notin {"down", "idle"} => worker'[v].job \in Job
                        /\ worker'[v].pc \in {"run", "done", "failed"}
                             => worker'[v].attempts = row'[worker'[v].job].attempts
  BY <1>2, <1>3, <1>7 DEF JobsInv, Holding
<1>9. OneRunner'
  <2> SUFFICES ASSUME NEW v \in Worker, Holding(v)'
               PROVE  /\ row'[worker'[v].job].st = "PROCESSING"
                      /\ \A x \in Worker : Holding(x)' /\ worker'[x].job = worker'[v].job => x = v
    BY DEF OneRunner
  <2>1. \A x \in Worker \ {w} : (Holding(x)' <=> Holding(x)) /\ worker'[x].job = worker[x].job
    BY <1>2 DEF Holding
  <2>2. Holding(w)' => e.st = "PROCESSING"
    BY <1>3 DEF Holding
  <2>3. CASE v = w
    BY <1>3, <1>4, <1>7, <2>1, <2>2, <2>3
  <2>4. CASE v # w
    BY <1>3, <1>7, <2>1, <2>4 DEF JobsInv, OneRunner
  <2> QED BY <2>3, <2>4
<1> QED BY <1>5, <1>6, <1>8, <1>9 DEF JobsInv

(* Whatever a worker does, or however it dies, it keeps the invariant. *)
LEMMA WorkStep ==
    ASSUME JobsInv, NEW w \in Worker, Work(w) \/ Crash(w)
    PROVE  JobsInv'
<1> DEFINE u == worker[w]
           j == u.job
<1>1. /\ worker \in [Worker -> Slot] /\ u \in Slot
      /\ row \in [Job -> [st : JobStatus, attempts : Nat]] /\ crashes \in 0 .. Crashes
      /\ bull \in [Job -> {"absent", "waiting", "active"}]
  BY DEF JobsInv, JobsTypeOK, Slot
<1>2. /\ u.pc \notin {"down", "idle"} => j \in Job
      /\ u.pc \in {"run", "done", "failed"} => u.attempts = row[j].attempts
  BY DEF JobsInv
<1>3. ASSUME NEW label, Goto(w, label)
      PROVE  worker' = [worker EXCEPT ![w] = [u EXCEPT !.pc = label]]
  BY <1>1, <1>3 DEF Goto
<1>4. [pc |-> "idle", job |-> NoJob, attempts |-> 0] \in Slot
      /\ [pc |-> "down", job |-> NoJob, attempts |-> 0] \in Slot
  BY DEF Slot
<1>5. CASE StartWorker(w)
  <2>1. bull' \in [Job -> {"absent", "waiting", "active"}]
    BY <1>1, <1>5 DEF StartWorker, Added
  <2> QED BY <1>1, <1>4, <1>5, <2>1, MoveStep DEF StartWorker, Free
<1>6. CASE TakeFromBull(w)
  <2>1. PICK i \in Job : /\ bull' = [bull EXCEPT ![i] = "active"]
                         /\ worker' = [worker EXCEPT ![w].pc = "find", ![w].job = i]
    BY <1>6 DEF TakeFromBull
  <2>2. worker' = [worker EXCEPT ![w] = [u EXCEPT !.pc = "find", !.job = i]]
    BY <1>1, <2>1
  <2>3. /\ [u EXCEPT !.pc = "find", !.job = i] \in Slot
        /\ [u EXCEPT !.pc = "find", !.job = i].pc = "find"
        /\ [u EXCEPT !.pc = "find", !.job = i].job = i
    BY <1>1 DEF Slot
  <2>4. bull' \in [Job -> {"absent", "waiting", "active"}]
    BY <1>1, <2>1
  <2> HIDE DEF u
  <2> QED BY <1>1, <1>6, <2>2, <2>3, <2>4, MoveStep DEF TakeFromBull
<1>7. ASSUME NEW label \in {"claim", "done", "failed", "release"}, Goto(w, label),
             row' = row, made' = made, req' = req, mode' = mode, crashes' = crashes,
             bull' \in [Job -> {"absent", "waiting", "active"}],
             u.pc \notin {"down", "idle"}, label \in {"done", "failed"} => u.pc = "run"
      PROVE  JobsInv'
  <2> DEFINE v == [u EXCEPT !.pc = label]
  <2>1. v \in Slot /\ v.pc = label /\ v.job = j /\ v.attempts = u.attempts
    BY <1>1, <1>7 DEF Slot
  <2>2. worker' = [worker EXCEPT ![w] = v]
    BY <1>3, <1>7
  <2> HIDE DEF v
  <2> QED BY <1>1, <1>2, <1>7, <2>1, <2>2, MoveStep DEF Holding
<1>8. CASE FindQueuedJob(w)
  <2>1. CASE mode = "bull" /\ At(w, "find")
             /\ Goto(w, IF worker[w].job \in Queued THEN "claim" ELSE "release")
    BY <1>1, <1>7, <1>8, <2>1 DEF FindQueuedJob, At
  <2>2. CASE Queued # {} /\ worker' = [worker EXCEPT ![w].pc = "claim", ![w].job = Oldest]
    <3>1. Oldest \in Job
      BY <2>2, OldestIsQueued
    <3> DEFINE v == [u EXCEPT !.pc = "claim", !.job = Oldest]
    <3>2. worker' = [worker EXCEPT ![w] = v]
      BY <1>1, <2>2
    <3>3. v \in Slot /\ v.pc = "claim" /\ v.job = Oldest
      BY <1>1, <3>1 DEF Slot
    <3> HIDE DEF v
    <3> QED BY <1>1, <1>8, <3>1, <3>2, <3>3, MoveStep DEF FindQueuedJob
  <2> QED BY <1>8, <2>1, <2>2 DEF FindQueuedJob
<1>9. CASE ClaimJob(w)
  <2>1. CASE j \in Queued
    <3> DEFINE e == [st |-> "PROCESSING", attempts |-> row[j].attempts + 1]
    <3>1. row' = [row EXCEPT ![j] = e] /\ worker' = [worker EXCEPT ![w].pc = "load"]
      BY <1>9, <2>1 DEF ClaimJob, Goto
    <3>2. j \in Job /\ row[j].st = "QUEUED" /\ row[j].attempts \in Nat
      BY <1>1, <2>1 DEF Queued
    <3>3. row[j].attempts < MaxAttempts
      BY <3>2 DEF JobsInv, AttemptsByStatus
    <3>4. e \in [st : JobStatus, attempts : Nat] /\ AttemptsByStatus(e)
      BY <3>2, <3>3, ExportJobsConstants DEF AttemptsByStatus
    <3>5. \A v \in Worker : ~(Holding(v) /\ worker[v].job = j)
      BY <3>2 DEF JobsInv, OneRunner
    <3>6. e.st = "PROCESSING"
      OBVIOUS
    <3> HIDE DEF e
    <3> QED BY <1>9, <3>1, <3>2, <3>4, <3>5, <3>6, WriteStep DEF ClaimJob
  <2>2. CASE j \notin Queued
    BY <1>1, <1>7, <1>9, <2>2 DEF ClaimJob, At
  <2> QED BY <2>1, <2>2
<1>10. CASE LoadJob(w)
  <2> DEFINE v == [u EXCEPT !.pc = "run", !.attempts = row[j].attempts]
  <2>1. j \in Job /\ row[j].attempts \in Nat /\ Holding(w)
    BY <1>1, <1>2, <1>10 DEF LoadJob, At, Holding
  <2>2. worker' = [worker EXCEPT ![w] = v]
    BY <1>1, <1>10 DEF LoadJob
  <2>3. v \in Slot /\ v.pc = "run" /\ v.job = j /\ v.attempts = row[j].attempts
    BY <1>1, <2>1 DEF Slot
  <2> HIDE DEF v
  <2> QED BY <1>1, <1>10, <2>1, <2>2, <2>3, MoveStep DEF LoadJob
<1>11. CASE ExecuteExportJob(w)
  BY <1>1, <1>7, <1>11 DEF ExecuteExportJob, At
<1>12. ASSUME Holding(w)
       PROVE  /\ j \in Job /\ row[j].st = "PROCESSING" /\ row[j].attempts \in 1 .. MaxAttempts
              /\ \A v \in Worker \ {w} : ~(Holding(v) /\ worker[v].job = j)
  BY <1>2, <1>12 DEF JobsInv, OneRunner, AttemptsByStatus, Holding
<1>13. CASE SaveResult(w)
  <2> DEFINE e == [row[j] EXCEPT !.st = "DONE"]
  <2>1. Holding(w)
    BY <1>13 DEF SaveResult, At, Holding
  <2>2. row' = [row EXCEPT ![j] = e] /\ worker' = [worker EXCEPT ![w].pc = "release"]
    BY <1>1, <1>12, <1>13, <2>1 DEF SaveResult, Goto
  <2>3. e \in [st : JobStatus, attempts : Nat] /\ e.st = "DONE" /\ e.attempts = row[j].attempts
    BY <1>1, <1>12, <2>1
  <2>4. AttemptsByStatus(e)
    BY <1>12, <2>1, <2>3 DEF AttemptsByStatus
  <2> HIDE DEF e
  <2> QED BY <1>12, <1>13, <2>1, <2>2, <2>3, <2>4, WriteStep DEF SaveResult
<1>14. CASE SaveFailure(w)
  <2> DEFINE e == [row[j] EXCEPT !.st = IF ShouldRetry(w) THEN "QUEUED" ELSE "FAILED"]
             label == IF ShouldRetry(w) /\ mode = "bull" THEN "requeue" ELSE "release"
  <2>1. Holding(w) /\ u.attempts = row[j].attempts
    BY <1>2, <1>14 DEF SaveFailure, At, Holding
  <2>2. row' = [row EXCEPT ![j] = e] /\ worker' = [worker EXCEPT ![w].pc = label]
    BY <1>1, <1>12, <1>14, <2>1 DEF SaveFailure, Goto
  <2>3. /\ e \in [st : JobStatus, attempts : Nat] /\ e.attempts = row[j].attempts
        /\ e.st = IF ShouldRetry(w) THEN "QUEUED" ELSE "FAILED"
    BY <1>1, <1>12, <2>1
  <2>4. AttemptsByStatus(e) /\ e.st # "ABSENT"
    BY <1>12, <2>1, <2>3, ExportJobsConstants DEF AttemptsByStatus, ShouldRetry
  <2>5. label \in {"requeue", "release"}
    OBVIOUS
  <2> HIDE DEF e, label
  <2> QED BY <1>12, <1>14, <2>1, <2>2, <2>3, <2>4, <2>5, WriteStep DEF SaveFailure
<1>15. CASE Requeue(w)
  <2>1. bull' \in [Job -> {"absent", "waiting", "active"}]
    BY <1>1, <1>15 DEF Requeue, Added
  <2> QED BY <1>1, <1>7, <1>15, <2>1 DEF Requeue, At
<1>16. CASE Release(w)
  <2>1. bull' \in [Job -> {"absent", "waiting", "active"}]
    BY <1>1, <1>16 DEF Release
  <2> QED BY <1>1, <1>4, <1>16, <2>1, MoveStep DEF Release, Free
<1>17. CASE Crash(w)
  <2>1. bull' \in [Job -> {"absent", "waiting", "active"}] /\ crashes' \in 0 .. Crashes
    BY <1>1, <1>17, ExportJobsConstants DEF Crash
  <2> QED BY <1>1, <1>4, <1>17, <2>1, MoveStep DEF Crash, Free
<1> QED BY <1>5, <1>6, <1>8, <1>9, <1>10, <1>11, <1>13, <1>14, <1>15, <1>16, <1>17 DEF Work

-----------------------------------------------------------------------------
(* Export jobs: the invariant holds before the first request and is kept by
   every step. *)
LEMMA JobsInvInit == JobsInit => JobsInv
<1> SUFFICES ASSUME JobsInit PROVE JobsInv
  OBVIOUS
<1>1. 0 \in Nat /\ <<>> \in Seq(Job) /\ 0 \in 0 .. Crashes
  BY ExportJobsConstants
<1>2. JobsTypeOK
  BY <1>1, ExportJobsConstants DEF JobsInit, JobsTypeOK
<1>3. \A j \in Job : row[j].st = "ABSENT" /\ row[j].attempts = 0
  BY DEF JobsInit
<1>4. \A w \in Worker : worker[w].pc = "down"
  BY DEF JobsInit
<1> QED BY <1>2, <1>3, <1>4 DEF JobsInv, AttemptsByStatus, OneRunner, Holding

(* The invariant is inductive. *)
LEMMA JobsInvStep == JobsInv /\ [JobsNext]_jobVars => JobsInv'
<1> SUFFICES ASSUME JobsInv, [JobsNext]_jobVars PROVE JobsInv'
  OBVIOUS
<1>1. CASE JobsNext
  BY <1>1, RequestStep, WorkStep DEF JobsNext
<1>2. CASE UNCHANGED jobVars
  BY <1>2 DEF jobVars, JobsInv, JobsTypeOK, AttemptsByStatus, OneRunner, Holding
<1> QED BY <1>1, <1>2

(* Every reachable state satisfies the inductive invariant of
   export-job-queue.ts and of the request that creates a job. *)
THEOREM JobsInvariance == JobsSpec => []JobsInv
<1>1. JobsInit => JobsInv
  BY JobsInvInit
<1>2. JobsInv /\ [JobsNext]_jobVars => JobsInv'
  BY JobsInvStep
<1> QED BY <1>1, <1>2, PTL DEF JobsSpec

(* No two workers ever execute the same job at once, however many there are
   and wherever they crash. *)
THEOREM JobsHaveOneRunner == JobsSpec => []OneRunner
<1>1. JobsInv => OneRunner
  BY DEF JobsInv
<1> QED BY <1>1, JobsInvariance, PTL

(* A job is never executed more than maxAttempts times, and is only given up
   after exactly as many. *)
THEOREM JobsAreGivenUpInTime == JobsSpec => []GivenUpInTime
<1>1. ASSUME JobsInv PROVE GivenUpInTime
  <2> SUFFICES ASSUME NEW j \in Job
               PROVE  /\ row[j].attempts <= MaxAttempts
                      /\ row[j].st = "FAILED" => row[j].attempts = MaxAttempts
    BY DEF GivenUpInTime
  <2>1. AttemptsByStatus(row[j]) /\ row[j].attempts \in Nat
    BY <1>1 DEF JobsInv, JobsTypeOK
  <2> QED BY <2>1, ExportJobsConstants DEF AttemptsByStatus
<1> QED BY <1>1, JobsInvariance, PTL

(* A finished job stays as it is: neither a late worker nor the request that
   created it changes a row that is DONE or FAILED. *)
THEOREM SettledStaysSettled ==
    JobsSpec => [][\A j \in Job : row[j].st \in Settled => row'[j] = row[j]]_jobVars
<1>1. ASSUME JobsInv, JobsNext PROVE \A j \in Job : row[j].st \in Settled => row'[j] = row[j]
  <2>1. row \in [Job -> [st : JobStatus, attempts : Nat]]
    BY <1>1 DEF JobsInv, JobsTypeOK
  <2>2. ASSUME NEW i \in Job, Request(i), NEW j \in Job, row[j].st \in Settled
        PROVE  row'[j] = row[j]
    <3>1. req[i] = "idle" => row[i].st = "ABSENT"
      BY <1>1 DEF JobsInv
    <3> QED BY <2>1, <2>2, <3>1 DEF Request, CreateJob, WriteAudit, EnqueueExportJob, AnswerCreated,
                                    Disconnect, Timeout, EndEarly, CommittedRows
  <2>3. ASSUME NEW w \in Worker, Work(w) \/ Crash(w), NEW j \in Job, row[j].st \in Settled
        PROVE  row'[j] = row[j]
    <3>1. Holding(w) => row[worker[w].job].st = "PROCESSING" /\ worker[w].job \in Job
      BY <1>1 DEF JobsInv, OneRunner, Holding
    <3> QED BY <2>1, <2>3, <3>1
            DEF Work, Crash, StartWorker, TakeFromBull, FindQueuedJob, ClaimJob, LoadJob,
                ExecuteExportJob, SaveResult, SaveFailure, Requeue, Release, At, Queued, Holding
  <2> QED BY <1>1, <2>2, <2>3 DEF JobsNext
<1> QED BY <1>1, JobsInvariance, PTL DEF JobsSpec

-----------------------------------------------------------------------------
(* Browser client: sequences as sets of members with an order. *)

(* Nothing is in the empty sequence. *)
LEMMA EmptyHas ==
    /\ <<>> \in Seq(Op) /\ ToSet(<<>>) = {}
    /\ \A p, o : ~ Before(<<>>, p, o)
  BY DEF ToSet, Before

(* What is appended comes after everything else. *)
LEMMA AppendHas ==
    ASSUME NEW q \in Seq(Op), NEW x \in Op
    PROVE  /\ Append(q, x) \in Seq(Op) /\ ToSet(Append(q, x)) = ToSet(q) \cup {x}
           /\ \A p, o : Before(Append(q, x), p, o)
                          <=> Before(q, p, o) \/ (p \in ToSet(q) /\ o = x)
<1> DEFINE s == Append(q, x)
           n == Len(q)
<1>1. /\ s \in Seq(Op) /\ n \in Nat /\ DOMAIN q = 1 .. n /\ DOMAIN s = 1 .. (n + 1)
      /\ s[n + 1] = x /\ \A i \in 1 .. n : s[i] = q[i]
  OBVIOUS
<1> HIDE DEF s, n
<1>2. ToSet(s) = ToSet(q) \cup {x}
  <2>1. ASSUME NEW y \in ToSet(s) PROVE y \in ToSet(q) \cup {x}
    <3>1. PICK i \in 1 .. (n + 1) : y = s[i]
      BY <1>1, <2>1 DEF ToSet
    <3>2. CASE i = n + 1
      BY <1>1, <3>1, <3>2
    <3>3. CASE i # n + 1
      <4>1. i \in 1 .. n
        BY <1>1, <3>3
      <4> QED
        BY <1>1, <3>1, <4>1 DEF ToSet
    <3> QED
      BY <3>2, <3>3
  <2>2. ASSUME NEW y \in ToSet(q) PROVE y \in ToSet(s)
    <3>1. PICK i \in 1 .. n : y = q[i]
      BY <1>1, <2>2 DEF ToSet
    <3>2. i \in 1 .. (n + 1)
      BY <1>1
    <3> QED
      BY <1>1, <3>1, <3>2 DEF ToSet
  <2>3. x \in ToSet(s)
    <3>1. n + 1 \in 1 .. (n + 1)
      BY <1>1
    <3> QED
      BY <1>1, <3>1 DEF ToSet
  <2> QED
    BY <2>1, <2>2, <2>3
<1>3. ASSUME NEW p, NEW o, Before(s, p, o)
      PROVE  Before(q, p, o) \/ (p \in ToSet(q) /\ o = x)
  <2>1. PICK i, j \in 1 .. (n + 1) : i < j /\ s[i] = p /\ s[j] = o
    BY <1>1, <1>3 DEF Before
  <2>2. i \in 1 .. n /\ (j = n + 1 \/ j \in 1 .. n)
    BY <1>1, <2>1
  <2>3. CASE j = n + 1
    BY <1>1, <2>1, <2>2, <2>3 DEF ToSet
  <2>4. CASE j \in 1 .. n
    BY <1>1, <2>1, <2>2, <2>4 DEF Before
  <2> QED
    BY <2>2, <2>3, <2>4
<1>4. ASSUME NEW p, NEW o, Before(q, p, o)
      PROVE  Before(s, p, o)
  <2>1. PICK i, j \in 1 .. n : i < j /\ q[i] = p /\ q[j] = o
    BY <1>1, <1>4 DEF Before
  <2>2. i \in 1 .. (n + 1) /\ j \in 1 .. (n + 1)
    BY <1>1
  <2> QED
    BY <1>1, <2>1, <2>2 DEF Before
<1>5. ASSUME NEW p, p \in ToSet(q)
      PROVE  Before(s, p, x)
  <2>1. PICK i \in 1 .. n : q[i] = p
    BY <1>1, <1>5 DEF ToSet
  <2>2. i \in 1 .. (n + 1) /\ n + 1 \in 1 .. (n + 1) /\ i < n + 1
    BY <1>1
  <2> QED
    BY <1>1, <2>1, <2>2 DEF Before
<1> QED
  BY <1>1, <1>2, <1>3, <1>4, <1>5 DEF s

(* The head comes before everything else. *)
LEMMA TailHas ==
    ASSUME NEW q \in Seq(Op), q # <<>>
    PROVE  /\ Head(q) \in Op /\ Tail(q) \in Seq(Op)
           /\ ToSet(q) = {Head(q)} \cup ToSet(Tail(q))
           /\ \A p, o : Before(q, p, o)
                          <=> Before(Tail(q), p, o) \/ (p = Head(q) /\ o \in ToSet(Tail(q)))
<1> DEFINE t == Tail(q)
           h == Head(q)
           n == Len(t)
<1>1. /\ h \in Op /\ t \in Seq(Op) /\ n \in Nat /\ DOMAIN t = 1 .. n /\ DOMAIN q = 1 .. (n + 1)
      /\ q[1] = h /\ \A i \in 1 .. n : t[i] = q[i + 1]
  OBVIOUS
<1> HIDE DEF t, h, n
<1>2. \A i \in 1 .. (n + 1) : i = 1 \/ (i - 1 \in 1 .. n /\ q[i] = t[i - 1])
  <2> SUFFICES ASSUME NEW i \in 1 .. (n + 1), i # 1 PROVE i - 1 \in 1 .. n /\ q[i] = t[i - 1]
    OBVIOUS
  <2>1. i - 1 \in 1 .. n /\ (i - 1) + 1 = i
    BY <1>1
  <2> QED
    BY <1>1, <2>1
<1>3. \A i \in 1 .. n : i + 1 \in 1 .. (n + 1) /\ q[i + 1] = t[i]
  BY <1>1
<1>4. 1 \in 1 .. (n + 1)
  BY <1>1
<1>5. ToSet(q) = {h} \cup ToSet(t)
  <2>1. ASSUME NEW y \in ToSet(q) PROVE y \in {h} \cup ToSet(t)
    <3>1. PICK i \in 1 .. (n + 1) : y = q[i]
      BY <1>1, <2>1 DEF ToSet
    <3> QED
      BY <1>1, <1>2, <3>1 DEF ToSet
  <2>2. ASSUME NEW y \in ToSet(t) PROVE y \in ToSet(q)
    <3>1. PICK i \in 1 .. n : y = t[i]
      BY <1>1, <2>2 DEF ToSet
    <3> QED
      BY <1>1, <1>3, <3>1 DEF ToSet
  <2>3. h \in ToSet(q)
    BY <1>1, <1>4 DEF ToSet
  <2> QED
    BY <2>1, <2>2, <2>3
<1>6. ASSUME NEW p, NEW o, Before(q, p, o)
      PROVE  Before(t, p, o) \/ (p = h /\ o \in ToSet(t))
  <2>1. PICK i, j \in 1 .. (n + 1) : i < j /\ q[i] = p /\ q[j] = o
    BY <1>1, <1>6 DEF Before
  <2>2. j # 1 /\ j - 1 \in 1 .. n /\ t[j - 1] = o
    BY <1>1, <1>2, <2>1
  <2>3. CASE i = 1
    BY <1>1, <2>1, <2>2, <2>3 DEF ToSet
  <2>4. CASE i # 1
    <3>1. i - 1 \in 1 .. n /\ t[i - 1] = p /\ i - 1 < j - 1
      BY <1>1, <1>2, <2>1, <2>4
    <3> QED
      BY <1>1, <2>2, <3>1 DEF Before
  <2> QED
    BY <2>3, <2>4
<1>7. ASSUME NEW p, NEW o, Before(t, p, o)
      PROVE  Before(q, p, o)
  <2>1. PICK i, j \in 1 .. n : i < j /\ t[i] = p /\ t[j] = o
    BY <1>1, <1>7 DEF Before
  <2>2. /\ i + 1 \in 1 .. (n + 1) /\ j + 1 \in 1 .. (n + 1) /\ i + 1 < j + 1
        /\ q[i + 1] = p /\ q[j + 1] = o
    BY <1>1, <1>3, <2>1
  <2> QED
    BY <1>1, <2>2 DEF Before
<1>8. ASSUME NEW o \in ToSet(t)
      PROVE  Before(q, h, o)
  <2>1. PICK j \in 1 .. n : t[j] = o
    BY <1>1, <1>8 DEF ToSet
  <2>2. j + 1 \in 1 .. (n + 1) /\ q[j + 1] = o /\ 1 < j + 1
    BY <1>1, <1>3, <2>1
  <2> QED
    BY <1>1, <1>4, <2>2 DEF Before
<1> QED
  BY <1>1, <1>5, <1>6, <1>7, <1>8 DEF t, h

(* The recursion of Filter on the first m members. *)
Filters(F, q, T, m) ==
    F = [n \in 0 .. m |-> IF n = 0 THEN <<>>
                          ELSE IF q[n] \in T THEN Append(F[n - 1], q[n]) ELSE F[n - 1]]

(* It has a solution. *)
LEMMA FiltersExists ==
    ASSUME NEW q, NEW T, NEW k \in Nat
    PROVE  \E F : Filters(F, q, T, k)
<1> DEFINE Bad == {m \in Nat : ~ \E F : Filters(F, q, T, m)}
<1> SUFFICES ASSUME Bad # {} PROVE FALSE
  OBVIOUS
<1>1. PICK m \in Bad : \A n \in Bad : m <= n
  <2>1. Bad \in SUBSET Nat
    OBVIOUS
  <2> HIDE DEF Bad
  <2> QED
    BY <2>1, LeastNumber
<1>2. m \in Nat /\ ~ \E F : Filters(F, q, T, m)
  OBVIOUS
<1>3. CASE m = 0
  <2> DEFINE G == [n \in 0 .. 0 |-> <<>>]
  <2>1. \A n \in 0 .. 0 : n = 0
    OBVIOUS
  <2>2. G = [n \in 0 .. 0 |-> IF n = 0 THEN <<>>
                          ELSE IF q[n] \in T THEN Append(G[n - 1], q[n]) ELSE G[n - 1]]
    BY <2>1
  <2> HIDE DEF G
  <2> QED
    BY <1>2, <1>3, <2>2 DEF Filters
<1>4. CASE m # 0
  <2>1. m - 1 \in Nat /\ m - 1 \notin Bad
    BY <1>1, <1>2, <1>4
  <2>2. PICK F : Filters(F, q, T, m - 1)
    BY <2>1
  <2> DEFINE top == IF q[m] \in T THEN Append(F[m - 1], q[m]) ELSE F[m - 1]
             G == [n \in 0 .. m |-> IF n = m THEN top ELSE F[n]]
  <2>3. ASSUME NEW n \in 0 .. m
        PROVE  G[n] = IF n = 0 THEN <<>>
                      ELSE IF q[n] \in T THEN Append(G[n - 1], q[n]) ELSE G[n - 1]
    <3>1. CASE n = m
      <4>1. m - 1 \in 0 .. m /\ m - 1 # m
        BY <1>2, <2>1
      <4>2. G[m - 1] = F[m - 1]
        BY <4>1
      <4> QED
        BY <1>2, <1>4, <3>1, <4>2
    <3>2. CASE n # m
      <4>1. n \in 0 .. (m - 1)
        BY <1>2, <3>2
      <4>2. F[n] = IF n = 0 THEN <<>>
                   ELSE IF q[n] \in T THEN Append(F[n - 1], q[n]) ELSE F[n - 1]
        BY <2>2, <4>1 DEF Filters
      <4>3. n # 0 => n - 1 \in 0 .. m /\ n - 1 # m
        BY <1>2, <3>2
      <4>4. G[n] = F[n] /\ (n # 0 => G[n - 1] = F[n - 1])
        BY <3>2, <4>3
      <4> HIDE DEF G, top
      <4> QED
        BY <4>2, <4>4
    <3> QED
      BY <3>1, <3>2
  <2>4. G = [n \in 0 .. m |-> G[n]]
    OBVIOUS
  <2> HIDE DEF G
  <2>5. Filters(G, q, T, m)
    BY <2>3, <2>4 DEF Filters
  <2> QED
    BY <1>2, <2>5
<1> QED
  BY <1>3, <1>4

(* What a filter keeps, in the order of the sequence. *)
LEMMA FilterHas ==
    ASSUME NEW q \in Seq(Op), NEW T
    PROVE  /\ Filter(q, T) \in Seq(Op) /\ ToSet(Filter(q, T)) = ToSet(q) \cap T
           /\ \A p, o : Before(Filter(q, T), p, o) <=> Before(q, p, o) /\ p \in T /\ o \in T
<1> DEFINE k == Len(q)
<1>1. k \in Nat /\ DOMAIN q = 1 .. k /\ \A i \in 1 .. k : q[i] \in Op
  OBVIOUS
<1>2. Filter(q, T) = (CHOOSE F : Filters(F, q, T, k))[k]
  BY DEF Filter, Filters
<1> HIDE DEF k
<1>3. PICK F : Filters(F, q, T, k) /\ Filter(q, T) = F[k]
  BY <1>1, <1>2, FiltersExists
<1> DEFINE Good(m) ==
      /\ F[m] \in Seq(Op)
      /\ \A y : y \in ToSet(F[m]) <=> \E i \in 1 .. m : q[i] = y /\ y \in T
      /\ \A p, o : Before(F[m], p, o)
                     <=> \E i, j \in 1 .. m : i < j /\ q[i] = p /\ q[j] = o /\ p \in T /\ o \in T
<1>4. Good(0)
  <2>1. F[0] = <<>>
    BY <1>1, <1>3 DEF Filters
  <2>2. 1 .. 0 = {}
    OBVIOUS
  <2> QED
    BY <2>1, <2>2, EmptyHas
<1>5. ASSUME NEW m \in 1 .. k, Good(m - 1)
      PROVE  Good(m)
  <2>1. F[m] = IF q[m] \in T THEN Append(F[m - 1], q[m]) ELSE F[m - 1]
    <3>1. m \in 0 .. k /\ m # 0
      BY <1>1
    <3> QED
      BY <1>3, <3>1 DEF Filters
  <2>2. /\ m \in 1 .. m /\ 1 .. (m - 1) \subseteq 1 .. m
        /\ \A i \in 1 .. m : i = m \/ i \in 1 .. (m - 1)
        /\ \A i \in 1 .. (m - 1) : i < m
        /\ \A i \in 1 .. m : ~(m < i)
    BY <1>1
  <2>3. CASE q[m] \notin T
    <3>1. F[m] = F[m - 1]
      BY <2>1, <2>3
    <3>2. \A y : (\E i \in 1 .. m : q[i] = y /\ y \in T) <=> (\E i \in 1 .. (m - 1) : q[i] = y /\ y \in T)
      BY <2>2, <2>3
    <3>3. \A p, o : (\E i, j \in 1 .. m : i < j /\ q[i] = p /\ q[j] = o /\ p \in T /\ o \in T)
                <=> (\E i, j \in 1 .. (m - 1) : i < j /\ q[i] = p /\ q[j] = o /\ p \in T /\ o \in T)
      BY <2>2, <2>3
    <3> QED
      BY <1>5, <3>1, <3>2, <3>3
  <2>4. CASE q[m] \in T
    <3> DEFINE f == F[m - 1]
    <3>1. F[m] = Append(f, q[m]) /\ f \in Seq(Op) /\ q[m] \in Op
      BY <1>1, <1>5, <2>1, <2>4
    <3>2. /\ \A y : y \in ToSet(f) <=> \E i \in 1 .. (m - 1) : q[i] = y /\ y \in T
          /\ \A p, o : Before(f, p, o)
               <=> \E i, j \in 1 .. (m - 1) : i < j /\ q[i] = p /\ q[j] = o /\ p \in T /\ o \in T
      BY <1>5
    <3> HIDE DEF f
    <3>3. /\ F[m] \in Seq(Op) /\ ToSet(F[m]) = ToSet(f) \cup {q[m]}
          /\ \A p, o : Before(F[m], p, o) <=> Before(f, p, o) \/ (p \in ToSet(f) /\ o = q[m])
      BY <3>1, AppendHas
    <3>4. \A y : y \in ToSet(F[m]) <=> \E i \in 1 .. m : q[i] = y /\ y \in T
      BY <2>2, <2>4, <3>2, <3>3
    <3>5. ASSUME NEW p, NEW o, Before(F[m], p, o)
          PROVE  \E i, j \in 1 .. m : i < j /\ q[i] = p /\ q[j] = o /\ p \in T /\ o \in T
      BY <2>2, <2>4, <3>2, <3>3, <3>5
    <3>6. ASSUME NEW p \in T, NEW o \in T, NEW i \in 1 .. m, NEW j \in 1 .. m,
                 i < j, q[i] = p, q[j] = o
          PROVE  Before(F[m], p, o)
      <4>1. i \in 1 .. (m - 1)
        BY <2>2, <3>6
      <4>2. CASE j = m
        BY <3>2, <3>3, <3>6, <4>1, <4>2
      <4>3. CASE j \in 1 .. (m - 1)
        BY <3>2, <3>3, <3>6, <4>1, <4>3
      <4> QED
        BY <2>2, <4>2, <4>3
    <3> QED
      BY <3>3, <3>4, <3>5, <3>6
  <2> QED
    BY <2>3, <2>4
<1>6. Good(k)
  <2> DEFINE Bad == {m \in 0 .. k : ~Good(m)}
  <2>1. CASE Bad = {}
    <3>1. k \in 0 .. k
      BY <1>1
    <3> HIDE DEF Good
    <3> QED
      BY <2>1, <3>1
  <2>2. CASE Bad # {}
    <3>1. Bad \in SUBSET Nat
      BY <1>1
    <3> HIDE DEF Bad
    <3>2. PICK m \in Bad : \A n \in Bad : m <= n
      BY <2>2, <3>1, LeastNumber
    <3> HIDE DEF Good
    <3>3. m \in 0 .. k /\ ~Good(m)
      BY <3>2 DEF Bad
    <3>4. m # 0
      BY <1>4, <3>3
    <3>5. m \in 1 .. k /\ m - 1 \in 0 .. k /\ m - 1 \notin Bad
      BY <1>1, <3>2, <3>3, <3>4
    <3>6. Good(m - 1)
      BY <3>5 DEF Bad
    <3> QED
      BY <1>5, <3>3, <3>5, <3>6
  <2> QED
    BY <2>1, <2>2
<1>7. \A y : y \in ToSet(q) <=> \E i \in 1 .. k : q[i] = y
  BY <1>1 DEF ToSet
<1>8. \A p, o : Before(q, p, o) <=> \E i, j \in 1 .. k : i < j /\ q[i] = p /\ q[j] = o
  BY <1>1 DEF Before
<1> DEFINE z == F[k]
<1>9. /\ z \in Seq(Op)
      /\ \A y : y \in ToSet(z) <=> \E i \in 1 .. k : q[i] = y /\ y \in T
      /\ \A p, o : Before(z, p, o)
                     <=> \E i, j \in 1 .. k : i < j /\ q[i] = p /\ q[j] = o /\ p \in T /\ o \in T
  BY <1>6
<1>10. Filter(q, T) = z
  BY <1>3
<1> HIDE DEF z, Good
<1>11. ToSet(z) = ToSet(q) \cap T
  BY <1>7, <1>9
<1>12. \A p, o : Before(z, p, o) <=> Before(q, p, o) /\ p \in T /\ o \in T
  BY <1>8, <1>9
<1> QED
  BY <1>9, <1>10, <1>11, <1>12

-----------------------------------------------------------------------------
(* Browser client: the write path. *)

(* Steps that leave queue, loops and requests alone. *)
LEMMA WritesStay ==
    ASSUME WriteInv, user' \in User \cup {Null},
           UNCHANGED <<writeQueue, owner, todo, wire, log, unheard, doubled>>
    PROVE  WriteInv'
  BY DEF WriteInv, WriteTypeOK, Direct, Replays, OneLoop, Settles, DuplicatesExplained,
         AppliedInOrder, Running, Waiting, Applied, Carries

(* Steps that only move requests on: they are sent, answered with a refusal,
   lost, or dealt with. *)
LEMMA RequestsMove ==
    ASSUME WriteInv, UNCHANGED <<user, writeQueue, owner, todo, log, doubled>>,
           wire' \in [Sender -> Wire], unheard \subseteq unheard', unheard' \subseteq Op,
           \A s \in Sender : wire'[s] = "ok" => wire[s] = "ok",
           \A l \in Loop :
             /\ wire'[l] # "none" => wire[l] # "none" \/ (Running(l) /\ todo[l] # <<>>)
             /\ wire[l] = "ok" => wire'[l] = "ok" \/ Head(todo[l]) \in unheard',
           \A o \in Op :
             /\ wire'[o] # "none" => wire[o] # "none"
             /\ wire'[o] \in {"req", "unauth", "again", "refused"}
                  => wire[o] \in {"req", "unauth", "again", "refused"}
             /\ wire'[o] = "lost" => wire[o] # "ok" \/ o \in unheard'
    PROVE  WriteInv'
<1>1. WriteTypeOK'
  BY DEF WriteInv, WriteTypeOK
<1>2. Applied' = Applied
  BY DEF Applied
<1>3. ASSUME NEW o \in Op PROVE Direct(o)' /\ ~ Before(writeQueue, o, o)'
  <2>1. Direct(o) /\ ~ Before(writeQueue, o, o) /\ wire[o] \in Wire
    BY DEF WriteInv, WriteTypeOK, Sender
  <2>2. Waiting(o)' = Waiting(o) /\ \A l \in Loop : Running(l)' = Running(l)
    BY DEF Waiting, Running
  <2>3. wire'[o] \in Wire
    BY DEF Sender
  <2>4. Direct(o)'
    BY <1>2, <2>1, <2>2, <2>3 DEF Direct, Wire
  <2> QED
    BY <2>1, <2>4
<1>4. ASSUME NEW l \in Loop PROVE Replays(l)'
  <2>1. Replays(l)
    BY DEF WriteInv
  <2> QED
    BY <1>2, <2>1 DEF Replays, Running
<1>5. \A s \in Sender : wire'[s] = "ok" => Carries(s)' \in Applied'
  BY <1>2 DEF WriteInv, Carries
<1>6. OneLoop'
  <2> SUFFICES ASSUME ~doubled
               PROVE  /\ \A l, k \in Loop : Running(l)' /\ Running(k)' => l = k
                      /\ \A o \in Applied' \ unheard' :
                           /\ Waiting(o)' => \E l \in Loop : Settles(l, o)'
                           /\ \A l \in Loop : Running(l)' /\ o \in ToSet(todo'[l]) => Settles(l, o)'
    BY DEF OneLoop
  <2>1. \A l \in Loop : Running(l)' = Running(l)
    BY DEF Running
  <2>2. ASSUME NEW o \in Applied \ unheard', NEW l \in Loop, Settles(l, o)
        PROVE  Settles(l, o)'
    BY <2>2 DEF Settles, Running
  <2> QED
    BY <1>2, <2>1, <2>2 DEF WriteInv, OneLoop, Waiting
<1>7. DuplicatesExplained' /\ AppliedInOrder'
  BY <1>2 DEF WriteInv, DuplicatesExplained, AppliedInOrder
<1> QED
  BY <1>1, <1>3, <1>4, <1>5, <1>6, <1>7 DEF WriteInv

(* Steps that take operations off the queue. *)
LEMMA QueueShrinks ==
    ASSUME WriteInv, user' \in User \cup {Null},
           UNCHANGED <<owner, todo, wire, log, unheard, doubled>>,
           writeQueue' \in Seq(Op), ToSet(writeQueue') \subseteq ToSet(writeQueue),
           \A p, o : Before(writeQueue', p, o) => Before(writeQueue, p, o)
    PROVE  WriteInv'
<1>1. WriteTypeOK'
  BY DEF WriteInv, WriteTypeOK
<1>2. Applied' = Applied /\ \A l \in Loop : Running(l)' = Running(l)
  BY DEF Applied, Running
<1>3. \A o \in Op : Waiting(o)' => Waiting(o)
  BY DEF Waiting
<1>4. ASSUME NEW o \in Op PROVE Direct(o)' /\ ~ Before(writeQueue, o, o)'
  BY <1>2, <1>3 DEF WriteInv, Direct
<1>5. ASSUME NEW l \in Loop PROVE Replays(l)'
  BY <1>2 DEF WriteInv, Replays
<1>6. \A s \in Sender : wire'[s] = "ok" => Carries(s)' \in Applied'
  BY <1>2 DEF WriteInv, Carries
<1>7. OneLoop'
  <2>1. \A o : \A l \in Loop : Settles(l, o)' = Settles(l, o)
    BY DEF Settles, Running
  <2> QED
    BY <1>2, <1>3, <2>1 DEF WriteInv, OneLoop, Applied, WriteTypeOK, ToSet
<1>8. DuplicatesExplained' /\ AppliedInOrder'
  BY <1>2 DEF WriteInv, DuplicatesExplained, AppliedInOrder
<1> QED
  BY <1>1, <1>4, <1>5, <1>6, <1>7, <1>8 DEF WriteInv

(* Both members of an ordered pair are in the sequence. *)
LEMMA PairIn ==
    ASSUME NEW q, NEW p, NEW o, Before(q, p, o)
    PROVE  p \in ToSet(q) /\ o \in ToSet(q)
  BY DEF Before, ToSet

(* A replay loop is not an operation; what a request carries is one. *)
LEMMA Carried ==
    ASSUME WriteInv, NEW s \in Sender, wire[s] # "none"
    PROVE  /\ Carries(s) \in Op
           /\ s \in Loop => /\ s \notin Op /\ Carries(s) = Head(todo[s]) /\ Running(s)
                            /\ todo[s] \in Seq(Op) /\ todo[s] # <<>>
<1>1. CASE s \in Op
  BY <1>1, OfflineClientConstants DEF Carries
<1>2. CASE s \notin Op
  <2>1. s \in Loop
    BY <1>2 DEF Sender
  <2>2. Running(s) /\ todo[s] # <<>>
    BY <2>1 DEF WriteInv, Replays
  <2>3. todo[s] \in Seq(Op)
    BY <2>1, <2>2 DEF WriteInv, WriteTypeOK, Running
  <2> QED
    BY <1>2, <2>1, <2>2, <2>3 DEF Carries
<1> QED
  BY <1>1, <1>2

(* A write that could not be sent is queued: it is nowhere else, and the
   server applied it at most without being heard. *)
LEMMA QueueGrows ==
    ASSUME WriteInv, NEW x \in Op,
           writeQueue' = Append(writeQueue, x),
           owner' \in [Op -> User \cup {Null}], owner'[x] # Null,
           \A o \in Op \ {x} : owner'[o] = owner[o],
           wire' \in [Sender -> Wire], wire'[x] = "none",
           \A s \in Sender \ {x} : wire'[s] = wire[s],
           ~ Waiting(x), \A l \in Loop : Running(l) => x \notin ToSet(todo[l]),
           x \in Applied => x \in unheard,
           UNCHANGED <<user, todo, log, unheard, doubled>>
    PROVE  WriteInv'
<1>1. /\ writeQueue \in Seq(Op) /\ writeQueue' \in Seq(Op)
      /\ ToSet(writeQueue') = ToSet(writeQueue) \cup {x}
      /\ \A p, o : Before(writeQueue', p, o)
                     <=> Before(writeQueue, p, o) \/ (p \in ToSet(writeQueue) /\ o = x)
  BY AppendHas DEF WriteInv, WriteTypeOK
<1>2. WriteTypeOK'
  BY <1>1 DEF WriteInv, WriteTypeOK
<1>3. Applied' = Applied /\ \A l \in Loop : Running(l)' = Running(l)
  BY DEF Applied, Running
<1>4. x \notin ToSet(writeQueue) /\ \A p, o : Before(writeQueue, p, o) => p # x /\ o # x
  BY PairIn DEF Waiting
<1>5. \A l \in Loop : l \in Sender \ {x} /\ wire'[l] = wire[l]
  BY OfflineClientConstants DEF Sender
<1>6. ASSUME NEW o \in Op PROVE Direct(o)' /\ ~ Before(writeQueue, o, o)'
  <2>1. Direct(o) /\ ~ Before(writeQueue, o, o)
    BY DEF WriteInv
  <2>2. o \in Sender
    BY DEF Sender
  <2>3. o # x => (Waiting(o)' <=> Waiting(o))
    BY <1>1 DEF Waiting
  <2>4. CASE o = x
    BY <1>1, <1>4, <2>1, <2>4 DEF Direct
  <2>5. CASE o # x
    <3>1. Direct(o)'
      BY <1>3, <2>1, <2>2, <2>3, <2>5 DEF Direct
    <3> QED
      BY <1>1, <2>1, <2>5, <3>1
  <2> QED
    BY <2>4, <2>5
<1>7. ASSUME NEW l \in Loop PROVE Replays(l)'
  <2>1. Replays(l)
    BY DEF WriteInv
  <2>2. ASSUME Running(l), NEW o \in ToSet(todo[l]), NEW p \in Op,
               Before(writeQueue', p, o), owner'[p] = owner'[o]
        PROVE  p \in Applied \/ Before(todo[l], p, o)
    <3>1. o # x
      BY <2>2
    <3>2. Before(writeQueue, p, o) /\ p # x
      BY <1>1, <1>4, <2>2, <3>1
    <3>3. todo[l] \in Seq(Op)
      BY <2>2 DEF Running, WriteInv, WriteTypeOK
    <3>4. o \in Op
      BY <2>2, <3>3 DEF ToSet
    <3>5. owner[p] = owner[o]
      BY <2>2, <3>1, <3>2, <3>4
    <3> QED
      BY <2>1, <2>2, <3>2, <3>5 DEF Replays
  <2> QED
    BY <1>3, <1>5, <2>1, <2>2 DEF Replays
<1>8. \A s \in Sender : wire'[s] = "ok" => Carries(s)' \in Applied'
  BY <1>3 DEF WriteInv, Carries
<1>9. OneLoop'
  <2>1. \A o : \A l \in Loop : Settles(l, o)' = Settles(l, o)
    BY <1>5 DEF Settles, Running
  <2>2. \A o \in Applied \ unheard : o # x /\ (Waiting(o)' => Waiting(o))
    BY <1>1 DEF Waiting
  <2> QED
    BY <1>3, <2>1, <2>2 DEF WriteInv, OneLoop
<1>10. DuplicatesExplained'
  BY <1>3 DEF WriteInv, DuplicatesExplained
<1>11. AppliedInOrder'
  <2> SUFFICES ASSUME NEW p \in Op, NEW o \in Op, Before(writeQueue', p, o),
                      owner'[p] = owner'[o], o \in Applied \ unheard
               PROVE  p \in Applied
    BY <1>3 DEF AppliedInOrder
  <2>1. o # x
    OBVIOUS
  <2>2. Before(writeQueue, p, o) /\ p # x
    BY <1>1, <1>4, <2>1
  <2> QED
    BY <2>1, <2>2 DEF WriteInv, AppliedInOrder
<1> QED
  BY <1>2, <1>6, <1>7, <1>8, <1>9, <1>10, <1>11 DEF WriteInv

(* A new operation is sent at once: it was nowhere. *)
LEMMA DirectSent ==
    ASSUME WriteInv, NEW x \in Op, owner[x] = Null,
           owner' \in [Op -> User \cup {Null}], owner'[x] # Null,
           \A o \in Op \ {x} : owner'[o] = owner[o],
           wire' = [wire EXCEPT ![x] = "req"],
           UNCHANGED <<user, writeQueue, todo, log, unheard, doubled>>
    PROVE  WriteInv'
<1>1. Direct(x) /\ wire \in [Sender -> Wire] /\ x \in Sender
  BY DEF WriteInv, WriteTypeOK, Sender
<1>2. wire' \in [Sender -> Wire] /\ wire'[x] = "req" /\ \A s \in Sender \ {x} : wire'[s] = wire[s]
  BY <1>1 DEF Wire
<1>3. ~ Waiting(x) /\ x \notin Applied /\ \A l \in Loop : Running(l) => x \notin ToSet(todo[l])
  BY <1>1 DEF Direct
<1>4. WriteTypeOK'
  BY <1>2 DEF WriteInv, WriteTypeOK
<1>5. Applied' = Applied /\ (\A l \in Loop : Running(l)' = Running(l)) /\ \A o : Waiting(o)' = Waiting(o)
  BY DEF Applied, Running, Waiting
<1>6. \A p, o : Before(writeQueue, p, o) => p # x /\ o # x
  BY <1>3, PairIn DEF Waiting
<1>7. \A l \in Loop : l \in Sender \ {x} /\ wire'[l] = wire[l]
  BY <1>2, OfflineClientConstants DEF Sender
<1>8. ASSUME NEW o \in Op PROVE Direct(o)' /\ ~ Before(writeQueue, o, o)'
  <2>1. Direct(o) /\ ~ Before(writeQueue, o, o) /\ o \in Sender
    BY DEF WriteInv, Sender
  <2>2. CASE o = x
    BY <1>2, <1>3, <1>5, <2>1, <2>2 DEF Direct
  <2>3. CASE o # x
    BY <1>2, <1>5, <2>1, <2>3 DEF Direct
  <2> QED
    BY <2>2, <2>3
<1>9. ASSUME NEW l \in Loop PROVE Replays(l)'
  <2>1. Replays(l)
    BY DEF WriteInv
  <2>2. ASSUME Running(l), NEW o \in ToSet(todo[l]), NEW p \in Op,
               Before(writeQueue, p, o), owner'[p] = owner'[o]
        PROVE  owner[p] = owner[o]
    <3>1. o \in Op
      <4>1. todo[l] \in Seq(Op)
        BY <2>2 DEF Running, WriteInv, WriteTypeOK
      <4> QED
        BY <2>2, <4>1 DEF ToSet
    <3> QED
      BY <1>6, <2>2, <3>1
  <2> QED
    BY <1>5, <1>7, <2>1, <2>2 DEF Replays
<1>10. \A s \in Sender : wire'[s] = "ok" => Carries(s)' \in Applied'
  <2> SUFFICES ASSUME NEW s \in Sender, wire'[s] = "ok" PROVE Carries(s)' \in Applied'
    OBVIOUS
  <2>1. wire[s] = "ok"
    BY <1>2
  <2> QED
    BY <1>5, <2>1 DEF WriteInv, Carries
<1>11. OneLoop'
  <2>1. \A o : \A l \in Loop : Settles(l, o)' = Settles(l, o)
    BY <1>7 DEF Settles, Running
  <2> QED
    BY <1>5, <2>1 DEF WriteInv, OneLoop
<1>12. DuplicatesExplained'
  BY <1>5 DEF WriteInv, DuplicatesExplained
<1>13. AppliedInOrder'
  <2> SUFFICES ASSUME NEW p \in Op, NEW o \in Op, Before(writeQueue, p, o),
                      owner'[p] = owner'[o], o \in Applied \ unheard
               PROVE  p \in Applied
    BY <1>5 DEF AppliedInOrder
  <2>1. owner[p] = owner[o]
    BY <1>6
  <2> QED
    BY <2>1 DEF WriteInv, AppliedInOrder
<1> QED
  BY <1>4, <1>8, <1>9, <1>10, <1>11, <1>12, <1>13 DEF WriteInv

(* A loop over a snapshot of the queue keeps its order. *)
LEMMA LoopBegins ==
    ASSUME WriteInv, NEW l \in Loop, StartSync(l)
    PROVE  WriteInv'
<1> DEFINE q == Own(user)
<1>1. /\ ~ Running(l) /\ todo' = [todo EXCEPT ![l] = q]
      /\ doubled' = (doubled \/ \E k \in Loop : Running(k))
      /\ UNCHANGED <<user, writeQueue, owner, wire, log, unheard>>
  BY DEF StartSync
<1>2. /\ q \in Seq(Op) /\ ToSet(q) = ToSet(writeQueue) \cap {o \in Op : owner[o] = user}
      /\ \A p, o : Before(q, p, o) <=> /\ Before(writeQueue, p, o)
                                       /\ p \in {y \in Op : owner[y] = user}
                                       /\ o \in {y \in Op : owner[y] = user}
  BY FilterHas DEF Own, WriteInv, WriteTypeOK
<1> HIDE DEF q
<1>3. WriteTypeOK'
  BY <1>1, <1>2 DEF WriteInv, WriteTypeOK
<1>4. /\ todo'[l] = q /\ \A k \in Loop \ {l} : todo'[k] = todo[k] /\ Running(k)' = Running(k)
  BY <1>1 DEF WriteInv, WriteTypeOK, Running
<1>5. Applied' = Applied /\ \A o : Waiting(o)' = Waiting(o)
  BY <1>1 DEF Applied, Waiting
<1>6. ASSUME NEW o \in Op PROVE Direct(o)' /\ ~ Before(writeQueue, o, o)'
  <2>1. Direct(o) /\ ~ Before(writeQueue, o, o)
    BY DEF WriteInv
  <2>2. ASSUME NEW k \in Loop, Running(k)', o \in ToSet(todo'[k])
        PROVE  Waiting(o) \/ \E j \in Loop : Running(j) /\ o \in ToSet(todo[j])
    <3>1. CASE k = l
      BY <1>2, <1>4, <2>2, <3>1 DEF Waiting
    <3>2. CASE k # l
      BY <1>4, <2>2, <3>2
    <3> QED
      BY <3>1, <3>2
  <2> QED
    BY <1>1, <1>5, <2>1, <2>2 DEF Direct
<1>7. ASSUME NEW k \in Loop PROVE Replays(k)'
  <2>1. Replays(k)
    BY DEF WriteInv
  <2>2. CASE k = l
    <3>1. wire'[l] = "none"
      BY <1>1, <2>1, <2>2 DEF Replays
    <3>2. \A o \in ToSet(q) : o \in Op /\ owner[o] = user /\ ~ Before(q, o, o)
      BY <1>2 DEF WriteInv
    <3>3. \A o \in ToSet(q) : \A p \in Op :
            Before(writeQueue, p, o) /\ owner[p] = owner[o] => Before(q, p, o)
      BY <1>2, <3>2
    <3> QED
      BY <1>1, <1>4, <2>2, <3>1, <3>2, <3>3 DEF Replays
  <2>3. CASE k # l
    BY <1>1, <1>4, <1>5, <2>1, <2>3 DEF Replays
  <2> QED
    BY <2>2, <2>3
<1>8. \A s \in Sender : wire'[s] = "ok" => Carries(s)' \in Applied'
  <2> SUFFICES ASSUME NEW s \in Sender, wire'[s] = "ok" PROVE Carries(s)' \in Applied'
    OBVIOUS
  <2>1. wire[s] = "ok" /\ Carries(s) \in Applied
    BY <1>1 DEF WriteInv
  <2>2. s # l
    BY <1>1, <2>1 DEF WriteInv, Replays
  <2>3. Carries(s)' = Carries(s)
    BY <1>4, <2>2 DEF Carries, Sender
  <2> QED
    BY <1>5, <2>1, <2>3
<1>9. OneLoop'
  <2> SUFFICES ASSUME ~ doubled'
               PROVE  /\ \A j, k \in Loop : Running(j)' /\ Running(k)' => j = k
                      /\ \A o \in Applied' \ unheard' :
                           /\ Waiting(o)' => \E k \in Loop : Settles(k, o)'
                           /\ \A k \in Loop : Running(k)' /\ o \in ToSet(todo'[k]) => Settles(k, o)'
    BY DEF OneLoop
  <2>1. ~ doubled /\ \A k \in Loop : ~ Running(k)
    BY <1>1
  <2>2. \A k \in Loop : Running(k)' => k = l
    BY <1>4, <2>1
  <2>3. \A o \in Applied \ unheard : ~ Waiting(o)
    BY <2>1 DEF WriteInv, OneLoop, Settles
  <2> QED
    BY <1>1, <1>2, <1>4, <1>5, <2>2, <2>3 DEF Waiting
<1>10. DuplicatesExplained' /\ AppliedInOrder'
  BY <1>1, <1>5 DEF WriteInv, DuplicatesExplained, AppliedInOrder
<1> QED
  BY <1>3, <1>6, <1>7, <1>8, <1>9, <1>10 DEF WriteInv

(* An accepted operation leaves the queue and the loop that sent it. *)
LEMMA LoopGoesOn ==
    ASSUME WriteInv, NEW l \in Loop, LoopAccepted(l)
    PROVE  WriteInv'
<1> DEFINE h == Head(todo[l])
           t == Tail(todo[l])
<1>1. /\ Running(l) /\ wire[l] = "ok" /\ writeQueue' = Removed(h)
      /\ todo' = [todo EXCEPT ![l] = t] /\ wire' = [wire EXCEPT ![l] = "none"]
      /\ UNCHANGED <<user, owner, log, unheard, doubled>>
  BY DEF LoopAccepted, history
<1>2. l \in Sender /\ l \notin Op /\ Carries(l) = h /\ todo[l] \in Seq(Op) /\ todo[l] # <<>>
  BY <1>1, Carried DEF Sender
<1>3. h \in Applied
  BY <1>1, <1>2 DEF WriteInv
<1>4. /\ h \in Op /\ t \in Seq(Op) /\ ToSet(todo[l]) = {h} \cup ToSet(t)
      /\ \A p, o : Before(todo[l], p, o) <=> Before(t, p, o) \/ (p = h /\ o \in ToSet(t))
  BY <1>2, TailHas
<1> HIDE DEF h, t
<1>5. /\ writeQueue' \in Seq(Op) /\ ToSet(writeQueue') = ToSet(writeQueue) \cap (Op \ {h})
      /\ \A p, o : Before(writeQueue', p, o)
                     <=> Before(writeQueue, p, o) /\ p \in Op \ {h} /\ o \in Op \ {h}
  BY <1>1, FilterHas DEF Removed, WriteInv, WriteTypeOK
<1>6. /\ todo'[l] = t /\ wire'[l] = "none" /\ wire' \in [Sender -> Wire]
      /\ \A s \in Sender \ {l} : wire'[s] = wire[s]
      /\ \A k \in Loop \ {l} : todo'[k] = todo[k] /\ Running(k)' = Running(k)
      /\ todo' \in [Loop -> Seq(Op) \cup {Null}]
  BY <1>1, <1>2, <1>4 DEF WriteInv, WriteTypeOK, Running, Wire
<1>7. WriteTypeOK'
  BY <1>1, <1>5, <1>6 DEF WriteInv, WriteTypeOK
<1>8. Applied' = Applied /\ \A o : Waiting(o)' => Waiting(o) /\ o # h
  BY <1>1, <1>5 DEF Applied, Waiting
<1>9. ASSUME NEW o \in Op PROVE Direct(o)' /\ ~ Before(writeQueue, o, o)'
  <2>1. Direct(o) /\ ~ Before(writeQueue, o, o) /\ wire'[o] = wire[o]
    BY <1>2, <1>6 DEF WriteInv, Sender
  <2>2. ASSUME NEW k \in Loop, Running(k)', o \in ToSet(todo'[k])
        PROVE  \E j \in Loop : Running(j) /\ o \in ToSet(todo[j])
    BY <1>1, <1>4, <1>6, <2>2
  <2> QED
    BY <1>1, <1>5, <1>8, <2>1, <2>2 DEF Direct
<1>10. ASSUME NEW k \in Loop PROVE Replays(k)'
  <2>1. Replays(k)
    BY DEF WriteInv
  <2>2. CASE k = l
    <3>1. \A o \in ToSet(t) : o \in ToSet(todo[l]) /\ ~ Before(t, o, o)
      BY <1>1, <1>4, <2>1, <2>2 DEF Replays
    <3>2. \A o \in ToSet(t) : \A p \in Op :
            Before(writeQueue', p, o) /\ owner[p] = owner[o] => p \in Applied \/ Before(t, p, o)
      BY <1>1, <1>3, <1>4, <1>5, <2>1, <2>2, <3>1 DEF Replays
    <3> QED
      BY <1>1, <1>6, <1>8, <2>2, <3>1, <3>2 DEF Replays
  <2>3. CASE k # l
    <3>1. wire'[k] = wire[k] /\ todo'[k] = todo[k] /\ Running(k)' = Running(k)
      BY <1>6, <2>3 DEF Sender
    <3> QED
      BY <1>1, <1>5, <1>8, <2>1, <3>1 DEF Replays
  <2> QED
    BY <2>2, <2>3
<1>11. \A s \in Sender : wire'[s] = "ok" => Carries(s)' \in Applied'
  <2> SUFFICES ASSUME NEW s \in Sender, wire'[s] = "ok" PROVE Carries(s)' \in Applied'
    OBVIOUS
  <2>1. s # l /\ wire[s] = "ok" /\ Carries(s) \in Applied
    BY <1>6 DEF WriteInv
  <2>2. Carries(s)' = Carries(s)
    BY <1>6, <2>1 DEF Carries, Sender
  <2> QED
    BY <1>8, <2>1, <2>2
<1>12. OneLoop'
  <2> SUFFICES ASSUME ~ doubled'
               PROVE  /\ \A j, k \in Loop : Running(j)' /\ Running(k)' => j = k
                      /\ \A o \in Applied' \ unheard' :
                           /\ Waiting(o)' => \E k \in Loop : Settles(k, o)'
                           /\ \A k \in Loop : Running(k)' /\ o \in ToSet(todo'[k]) => Settles(k, o)'
    BY DEF OneLoop
  <2>1. ~ doubled /\ \A k \in Loop : Running(k) => k = l
    BY <1>1 DEF WriteInv, OneLoop
  <2>2. \A k \in Loop : Running(k)' => k = l
    BY <1>6, <2>1
  <2>3. \A o \in Applied \ unheard : ~ Waiting(o)'
    <3> SUFFICES ASSUME NEW o \in Applied \ unheard, Waiting(o)' PROVE FALSE
      OBVIOUS
    <3>1. PICK k \in Loop : Settles(k, o)
      BY <1>8, <2>1 DEF WriteInv, OneLoop
    <3>2. k = l /\ o = h
      BY <2>1, <3>1 DEF Settles, h
    <3> QED
      BY <1>8, <3>2
  <2>4. \A o \in Applied \ unheard : o \notin ToSet(t)
    <3> SUFFICES ASSUME NEW o \in Applied \ unheard, o \in ToSet(t) PROVE FALSE
      OBVIOUS
    <3>1. Settles(l, o)
      BY <1>1, <1>4, <2>1 DEF WriteInv, OneLoop
    <3>2. o = h
      BY <3>1 DEF Settles, h
    <3>3. Before(todo[l], h, h)
      BY <1>4, <3>2
    <3> QED
      BY <1>1, <1>4, <3>3 DEF WriteInv, Replays
  <2> QED
    BY <1>1, <1>6, <1>8, <2>2, <2>3, <2>4
<1>13. DuplicatesExplained' /\ AppliedInOrder'
  BY <1>1, <1>5, <1>8 DEF WriteInv, DuplicatesExplained, AppliedInOrder
<1> QED
  BY <1>7, <1>9, <1>10, <1>11, <1>12, <1>13 DEF WriteInv

(* A loop that has nothing left, or whose request failed, ends. *)
LEMMA LoopEnds ==
    ASSUME WriteInv, NEW l \in Loop, wire[l] # "ok",
           todo' = [todo EXCEPT ![l] = Null],
           wire' \in [Sender -> Wire], wire'[l] = "none",
           \A s \in Sender \ {l} : wire'[s] = wire[s],
           UNCHANGED <<user, writeQueue, owner, log, unheard, doubled>>
    PROVE  WriteInv'
<1>1. l \in Sender /\ l \notin Op
  BY OfflineClientConstants DEF Sender
<1>2. /\ ~ Running(l)' /\ todo' \in [Loop -> Seq(Op) \cup {Null}]
      /\ \A k \in Loop \ {l} : todo'[k] = todo[k] /\ Running(k)' = Running(k)
  BY DEF WriteInv, WriteTypeOK, Running
<1>3. WriteTypeOK'
  BY <1>2 DEF WriteInv, WriteTypeOK
<1>4. Applied' = Applied /\ \A o : Waiting(o)' = Waiting(o)
  BY DEF Applied, Waiting
<1>5. ASSUME NEW o \in Op PROVE Direct(o)' /\ ~ Before(writeQueue, o, o)'
  <2>1. Direct(o) /\ ~ Before(writeQueue, o, o) /\ wire'[o] = wire[o]
    BY <1>1 DEF WriteInv, Sender
  <2>2. ASSUME NEW k \in Loop, Running(k)', o \in ToSet(todo'[k])
        PROVE  Running(k) /\ o \in ToSet(todo[k])
    BY <1>2, <2>2
  <2> QED
    BY <1>4, <2>1, <2>2 DEF Direct
<1>6. ASSUME NEW k \in Loop PROVE Replays(k)'
  <2>1. Replays(k)
    BY DEF WriteInv
  <2>2. CASE k = l
    BY <1>2, <2>2 DEF Replays
  <2>3. CASE k # l
    <3>1. wire'[k] = wire[k] /\ todo'[k] = todo[k] /\ Running(k)' = Running(k)
      BY <1>2, <2>3 DEF Sender
    <3> QED
      BY <1>4, <2>1, <3>1 DEF Replays
  <2> QED
    BY <2>2, <2>3
<1>7. \A s \in Sender : wire'[s] = "ok" => Carries(s)' \in Applied'
  <2> SUFFICES ASSUME NEW s \in Sender, wire'[s] = "ok" PROVE Carries(s)' \in Applied'
    OBVIOUS
  <2>1. s # l
    OBVIOUS
  <2>2. wire[s] = "ok" /\ Carries(s) \in Applied
    BY <2>1 DEF WriteInv
  <2>3. Carries(s)' = Carries(s)
    BY <1>2, <2>1 DEF Carries, Sender
  <2> QED
    BY <1>4, <2>2, <2>3
<1>8. OneLoop'
  <2>1. \A k \in Loop : Running(k)' => k # l /\ Running(k) /\ todo'[k] = todo[k]
    BY <1>2
  <2>2. \A o : \A k \in Loop : Settles(k, o)' <=> Settles(k, o)
    <3> SUFFICES ASSUME NEW o, NEW k \in Loop PROVE Settles(k, o)' <=> Settles(k, o)
      OBVIOUS
    <3>1. CASE k = l
      BY <1>2, <3>1 DEF Settles
    <3>2. CASE k # l
      BY <1>2, <3>2 DEF Settles, Sender
    <3> QED
      BY <3>1, <3>2
  <2> QED
    BY <1>4, <2>1, <2>2 DEF WriteInv, OneLoop
<1>9. DuplicatesExplained' /\ AppliedInOrder'
  BY <1>4 DEF WriteInv, DuplicatesExplained, AppliedInOrder
<1> QED
  BY <1>3, <1>5, <1>6, <1>7, <1>8, <1>9 DEF WriteInv

(* The server applies an operation: one sent directly for the first time, one
   replayed when everything queued before it was applied. *)
LEMMA Applies ==
    ASSUME WriteInv, NEW s \in Sender, wire[s] \in {"req", "again"},
           wire' = [wire EXCEPT ![s] = "ok"], log' = Append(log, Carries(s)),
           UNCHANGED <<user, writeQueue, owner, todo, unheard, doubled>>
    PROVE  WriteInv'
<1> DEFINE x == Carries(s)
<1>1. /\ x \in Op
      /\ s \in Loop => s \notin Op /\ x = Head(todo[s]) /\ Running(s)
                       /\ todo[s] \in Seq(Op) /\ todo[s] # <<>>
      /\ s \in Op => x = s
  BY Carried DEF Carries
<1>2. /\ log' \in Seq(Op) /\ ToSet(log') = ToSet(log) \cup {x}
      /\ \A p, o : Before(log', p, o) <=> Before(log, p, o) \/ (p \in ToSet(log) /\ o = x)
  BY <1>1, AppendHas DEF WriteInv, WriteTypeOK
<1>3. s \in Loop => /\ ToSet(todo[s]) = {x} \cup ToSet(Tail(todo[s]))
                    /\ \A p, o : Before(todo[s], p, o)
                         <=> Before(Tail(todo[s]), p, o) \/ (p = x /\ o \in ToSet(Tail(todo[s])))
  BY <1>1, TailHas
<1>4. x' = x /\ \A r \in Sender : Carries(r)' = Carries(r)
  BY DEF Carries
<1> HIDE DEF x
<1>5. wire' \in [Sender -> Wire] /\ wire'[s] = "ok" /\ \A r \in Sender \ {s} : wire'[r] = wire[r]
  BY DEF WriteInv, WriteTypeOK, Wire
<1>6. WriteTypeOK'
  BY <1>2, <1>5 DEF WriteInv, WriteTypeOK
<1>7. /\ Applied' = Applied \cup {x} /\ (\A o : Waiting(o)' = Waiting(o))
      /\ \A l \in Loop : Running(l)' = Running(l)
  BY <1>2 DEF Applied, Waiting, Running
<1>8. s \in Op => /\ ~ Waiting(x) /\ x \notin Applied /\ owner[x] # Null
                  /\ \A l \in Loop : Running(l) => x \notin ToSet(todo[l])
  BY <1>1 DEF WriteInv, Direct
<1>9. s \in Loop => x \in ToSet(todo[s]) /\ wire[x] = "none" /\ owner[x] # Null
  <2> SUFFICES ASSUME s \in Loop
               PROVE  x \in ToSet(todo[s]) /\ wire[x] = "none" /\ owner[x] # Null
    OBVIOUS
  <2>1. x \in ToSet(todo[s]) /\ Running(s)
    BY <1>1, <1>3
  <2>2. Direct(x)
    BY <1>1 DEF WriteInv
  <2> QED
    BY <2>1, <2>2 DEF Direct
<1>10. s \in Loop \/ s \in Op
  BY DEF Sender
<1>11. ASSUME NEW o \in Op PROVE Direct(o)' /\ ~ Before(writeQueue, o, o)'
  <2>1. Direct(o) /\ ~ Before(writeQueue, o, o) /\ o \in Sender
    BY DEF WriteInv, Sender
  <2>2. CASE o = x
    <3>1. CASE s \in Op
      BY <1>1, <1>5, <1>7, <1>8, <2>1, <2>2, <3>1 DEF Direct
    <3>2. CASE s \in Loop
      <4>1. wire'[x] = "none"
        BY <1>1, <1>5, <1>9, <3>2 DEF Sender
      <4> QED
        BY <1>9, <2>1, <2>2, <3>2, <4>1 DEF Direct
    <3> QED
      BY <1>10, <3>1, <3>2
  <2>3. CASE o # x
    <3>1. o # s
      BY <1>1, <2>3
    <3>2. wire'[o] = wire[o] /\ (o \in Applied' <=> o \in Applied)
      BY <1>5, <1>7, <2>1, <2>3, <3>1
    <3> QED
      BY <1>7, <2>1, <3>2 DEF Direct
  <2> QED
    BY <2>2, <2>3
<1>12. ASSUME NEW l \in Loop PROVE Replays(l)'
  <2>1. Replays(l) /\ l \in Sender
    BY DEF WriteInv, Sender
  <2>2. wire'[l] # "none" => Running(l) /\ todo[l] # <<>>
    BY <1>1, <1>5, <2>1 DEF Replays
  <2> QED
    BY <1>7, <2>1, <2>2 DEF Replays
<1>13. \A r \in Sender : wire'[r] = "ok" => Carries(r)' \in Applied'
  <2> SUFFICES ASSUME NEW r \in Sender, wire'[r] = "ok" PROVE Carries(r)' \in Applied'
    OBVIOUS
  <2>1. CASE r = s
    BY <1>4, <1>7, <2>1 DEF x
  <2>2. CASE r # s
    BY <1>4, <1>5, <1>7, <2>2 DEF WriteInv
  <2> QED
    BY <2>1, <2>2
<1>14. ~ doubled /\ x \notin unheard => x \notin Applied
  <2> SUFFICES ASSUME ~ doubled, x \notin unheard, x \in Applied PROVE FALSE
    OBVIOUS
  <2>1. s \in Loop /\ Running(s) /\ x \in ToSet(todo[s])
    BY <1>1, <1>8, <1>9, <1>10
  <2>2. Settles(s, x)
    BY <2>1 DEF WriteInv, OneLoop
  <2> QED
    BY <2>2 DEF Settles
<1>15. OneLoop'
  <2> SUFFICES ASSUME ~ doubled
               PROVE  /\ \A j, k \in Loop : Running(j)' /\ Running(k)' => j = k
                      /\ \A o \in Applied' \ unheard :
                           /\ Waiting(o)' => \E k \in Loop : Settles(k, o)'
                           /\ \A k \in Loop : Running(k)' /\ o \in ToSet(todo'[k]) => Settles(k, o)'
    BY DEF OneLoop
  <2>1. \A j, k \in Loop : Running(j) /\ Running(k) => j = k
    BY DEF WriteInv, OneLoop
  <2>2. \A o : \A k \in Loop : Settles(k, o) => Settles(k, o)'
    <3> SUFFICES ASSUME NEW o, NEW k \in Loop, Settles(k, o) PROVE Settles(k, o)'
      OBVIOUS
    <3>1. k # s /\ k \in Sender
      BY DEF Settles, Sender
    <3> QED
      BY <1>5, <1>7, <3>1 DEF Settles
  <2>3. s \in Loop => Settles(s, x)'
    BY <1>1, <1>4, <1>5, <1>7 DEF Settles
  <2>4. ASSUME NEW o \in Applied' \ unheard
        PROVE  /\ Waiting(o) => \E k \in Loop : Settles(k, o)'
               /\ \A k \in Loop : Running(k) /\ o \in ToSet(todo[k]) => Settles(k, o)'
    <3>1. CASE o = x
      <4>1. CASE s \in Op
        BY <1>8, <3>1, <4>1
      <4>2. CASE s \in Loop
        BY <1>1, <1>4, <2>1, <2>3, <3>1, <4>2
      <4> QED
        BY <1>10, <4>1, <4>2
    <3>2. CASE o # x
      BY <1>7, <2>2, <2>4, <3>2 DEF WriteInv, OneLoop
    <3> QED
      BY <3>1, <3>2
  <2> QED
    BY <1>7, <2>1, <2>4
<1>16. DuplicatesExplained'
  BY <1>2, <1>14 DEF WriteInv, DuplicatesExplained, Applied
<1>17. AppliedInOrder'
  <2> SUFFICES ASSUME NEW p \in Op, NEW o \in Op, Before(writeQueue, p, o),
                      owner[p] = owner[o], o \in Applied' \ unheard
               PROVE  p \in Applied'
    BY DEF AppliedInOrder
  <2>1. CASE o \in Applied
    BY <1>7, <2>1 DEF WriteInv, AppliedInOrder
  <2>2. CASE o \notin Applied
    <3>1. o = x /\ Waiting(x)
      BY <1>7, <2>2, PairIn DEF Waiting
    <3>2. s \in Loop
      BY <1>8, <1>10, <3>1
    <3>3. p \in Applied \/ Before(todo[s], p, x)
      BY <1>1, <1>9, <3>1, <3>2 DEF WriteInv, Replays
    <3>4. Before(todo[s], p, x) => Before(todo[s], x, x)
      <4> SUFFICES ASSUME Before(todo[s], p, x) PROVE x \in ToSet(Tail(todo[s]))
        BY <1>3, <3>2
      <4> QED
        BY <1>3, <3>2, PairIn
    <3>5. ~ Before(todo[s], x, x)
      BY <1>1, <1>9, <3>2 DEF WriteInv, Replays
    <3> QED
      BY <1>7, <3>3, <3>4, <3>5
  <2> QED
    BY <2>1, <2>2
<1> QED
  BY <1>6, <1>11, <1>12, <1>13, <1>15, <1>16, <1>17 DEF WriteInv

(* A reload forgets what was on its way: what the server applied of it is
   now unheard of. *)
LEMMA Reloads ==
    ASSUME WriteInv, Reload
    PROVE  WriteInv'
<1>1. /\ unheard' = unheard \cup {Carries(s) : s \in {t \in Sender : wire[t] = "ok"}}
      /\ todo' = [l \in Loop |-> Null] /\ wire' = [s \in Sender |-> "none"]
      /\ UNCHANGED <<user, writeQueue, owner, log, doubled>>
  BY DEF Reload
<1>2. /\ \A l \in Loop : ~ Running(l)' /\ todo'[l] = Null
      /\ \A s \in Sender : wire'[s] = "none"
      /\ Applied' = Applied /\ \A o : Waiting(o)' = Waiting(o)
  BY <1>1 DEF Running, Applied, Waiting
<1>3. \A s \in Sender : wire[s] = "ok" => Carries(s) \in Op
  BY Carried
<1>4. unheard' \subseteq Op
  BY <1>1, <1>3 DEF WriteInv, WriteTypeOK
<1>5. WriteTypeOK'
  BY <1>1, <1>4 DEF WriteInv, WriteTypeOK, Wire
<1>6. ASSUME NEW o \in Op PROVE Direct(o)' /\ ~ Before(writeQueue, o, o)'
  <2>1. Direct(o) /\ ~ Before(writeQueue, o, o) /\ o \in Sender
    BY DEF WriteInv, Sender
  <2> QED
    BY <1>1, <1>2, <2>1 DEF Direct
<1>7. ASSUME NEW l \in Loop PROVE Replays(l)'
  BY <1>2 DEF Replays, Sender
<1>8. \A s \in Sender : wire'[s] = "ok" => Carries(s)' \in Applied'
  BY <1>2
<1>9. OneLoop'
  <2> SUFFICES ASSUME ~ doubled
               PROVE  \A o \in Applied \ unheard' : ~ Waiting(o)
    BY <1>1, <1>2 DEF OneLoop
  <2> SUFFICES ASSUME NEW o \in Applied \ unheard', Waiting(o) PROVE FALSE
    OBVIOUS
  <2>1. PICK l \in Loop : Settles(l, o)
    BY <1>1 DEF WriteInv, OneLoop
  <2>2. l \in Sender /\ wire[l] = "ok" /\ Carries(l) = o
    BY <2>1, OfflineClientConstants DEF Settles, Carries, Sender
  <2> QED
    BY <1>1, <2>2
<1>10. DuplicatesExplained' /\ AppliedInOrder'
  BY <1>1, <1>2 DEF WriteInv, DuplicatesExplained, AppliedInOrder
<1> QED
  BY <1>5, <1>6, <1>7, <1>8, <1>9, <1>10 DEF WriteInv

(* A form is submitted: the write is sent or, offline, queued. *)
LEMMA WriteSubmitted ==
    ASSUME WriteInv, NEW o \in Op, SubmitWriteOrQueue(o)
    PROVE  WriteInv'
<1>1. /\ user # Null /\ owner[o] = Null /\ owner' = [owner EXCEPT ![o] = user]
      /\ UNCHANGED <<user, todo, log, unheard, doubled>>
  BY DEF SubmitWriteOrQueue, history
<1>2. /\ owner' \in [Op -> User \cup {Null}] /\ owner'[o] = user
      /\ \A p \in Op \ {o} : owner'[p] = owner[p]
  BY <1>1 DEF WriteInv, WriteTypeOK
<1>3. /\ wire[o] = "none" /\ ~ Waiting(o) /\ o \notin Applied
      /\ \A l \in Loop : Running(l) => o \notin ToSet(todo[l])
  BY <1>1 DEF WriteInv, Direct
<1>4. CASE online
  <2>1. wire' = [wire EXCEPT ![o] = "req"] /\ UNCHANGED writeQueue
    BY <1>4 DEF SubmitWriteOrQueue
  <2> QED
    BY <1>1, <1>2, <2>1, DirectSent
<1>5. CASE ~ online
  <2>1. writeQueue' = Append(writeQueue, o) /\ wire' = wire /\ wire \in [Sender -> Wire]
    BY <1>5 DEF SubmitWriteOrQueue, WriteInv, WriteTypeOK
  <2> QED
    BY <1>1, <1>2, <1>3, <2>1, QueueGrows
<1> QED
  BY <1>4, <1>5

(* The answer of a direct write is dealt with, or its loss. *)
LEMMA DirectFinished ==
    ASSUME WriteInv, NEW o \in Op, FinishDirect(o)
    PROVE  WriteInv'
<1>1. /\ wire[o] \in {"ok", "refused", "lost"} /\ wire' = [wire EXCEPT ![o] = "none"]
      /\ UNCHANGED <<user, owner, todo, log, unheard, doubled>>
  BY DEF FinishDirect, history
<1>2. /\ o \in Sender /\ wire' \in [Sender -> Wire] /\ wire'[o] = "none"
      /\ \A s \in Sender \ {o} : wire'[s] = wire[s]
  BY <1>1 DEF Sender, WriteInv, WriteTypeOK, Wire
<1>3. \A l \in Loop : l \in Sender \ {o}
  BY OfflineClientConstants DEF Sender
<1>4. /\ owner[o] # Null /\ ~ Waiting(o) /\ \A l \in Loop : Running(l) => o \notin ToSet(todo[l])
  BY <1>1 DEF WriteInv, Direct
<1>5. CASE wire[o] = "lost"
  <2>1. writeQueue' = Append(writeQueue, o)
    BY <1>5 DEF FinishDirect
  <2>2. o \in Applied => o \in unheard
    BY <1>5 DEF WriteInv, Direct
  <2>3. owner' \in [Op -> User \cup {Null}]
    BY <1>1 DEF WriteInv, WriteTypeOK
  <2> QED
    BY <1>1, <1>2, <1>4, <2>1, <2>2, <2>3, QueueGrows
<1>6. CASE wire[o] # "lost"
  <2>1. UNCHANGED writeQueue
    BY <1>6 DEF FinishDirect
  <2>2. unheard \subseteq unheard' /\ unheard' \subseteq Op
    BY <1>1 DEF WriteInv, WriteTypeOK
  <2>3. \A s \in Sender : wire'[s] = "none" \/ wire'[s] = wire[s]
    BY <1>2
  <2>4. \A p \in Op : p \in Sender
    BY DEF Sender
  <2>5. \A l \in Loop : wire'[l] = wire[l]
    BY <1>2, <1>3
  <2> QED
    BY <1>1, <1>2, <1>3, <2>1, <2>2, <2>3, <2>4, <2>5, RequestsMove
<1> QED
  BY <1>5, <1>6

(* A replay loop sends its next operation, gives up, or is done. *)
LEMMA LoopMoves ==
    ASSUME WriteInv, NEW l \in Loop, LoopSend(l) \/ LoopFailed(l) \/ LoopFinished(l)
    PROVE  WriteInv'
<1>1. /\ l \in Sender /\ l \notin Op /\ wire \in [Sender -> Wire] /\ unheard \subseteq Op
      /\ \A o \in Op : o \in Sender \ {l}
  BY OfflineClientConstants DEF Sender, WriteInv, WriteTypeOK
<1>2. UNCHANGED <<user, writeQueue, owner, log, unheard, doubled>>
  BY DEF LoopSend, LoopFailed, LoopFinished, history
<1>3. CASE LoopSend(l)
  <2>1. /\ Running(l) /\ todo[l] # <<>> /\ wire[l] = "none" /\ wire' = [wire EXCEPT ![l] = "req"]
        /\ UNCHANGED todo
    BY <1>3 DEF LoopSend
  <2>2. /\ wire' \in [Sender -> Wire] /\ wire'[l] = "req"
        /\ \A s \in Sender \ {l} : wire'[s] = wire[s]
    BY <1>1, <2>1 DEF Wire
  <2>3. \A k \in Loop : k = l \/ wire'[k] = wire[k]
    BY <2>2 DEF Sender
  <2> QED
    BY <1>1, <1>2, <2>1, <2>2, <2>3, RequestsMove
<1>4. CASE LoopFailed(l)
  <2>1. /\ wire[l] \in {"refused", "lost"} /\ todo' = [todo EXCEPT ![l] = Null]
        /\ wire' = [wire EXCEPT ![l] = "none"]
    BY <1>4 DEF LoopFailed
  <2>2. /\ wire' \in [Sender -> Wire] /\ wire'[l] = "none"
        /\ \A s \in Sender \ {l} : wire'[s] = wire[s]
    BY <1>1, <2>1 DEF Wire
  <2> QED
    BY <1>2, <2>1, <2>2, LoopEnds
<1>5. CASE LoopFinished(l)
  <2>1. todo[l] = <<>> /\ todo' = [todo EXCEPT ![l] = Null] /\ UNCHANGED wire
    BY <1>5 DEF LoopFinished
  <2>2. wire[l] = "none"
    BY <2>1 DEF WriteInv, Replays
  <2> QED
    BY <1>1, <1>2, <2>1, <2>2, LoopEnds
<1> QED
  BY <1>3, <1>4, <1>5

(* The server answers a request. *)
LEMMA Served1 ==
    ASSUME WriteInv, NEW s \in Sender, Serve(s)
    PROVE  WriteInv'
<1> DEFINE verdict == IF user # Null /\ expired /\ wire[s] = "req" THEN "unauth"
                      ELSE IF \/ user = Null \/ expired \/ gate # "open"
                              \/ Carries(s) \in Refused THEN "refused"
                      ELSE "ok"
<1>1. /\ wire[s] \in {"req", "again"} /\ wire' = [wire EXCEPT ![s] = verdict]
      /\ log' = IF verdict = "ok" THEN Append(log, Carries(s)) ELSE log
      /\ UNCHANGED <<user, writeQueue, owner, todo, unheard, doubled>>
  BY DEF Serve, history
<1>2. verdict \in {"refused", "unauth", "ok"}
  OBVIOUS
<1> HIDE DEF verdict
<1>3. CASE verdict = "ok"
  BY <1>1, <1>3, Applies
<1>4. CASE verdict # "ok"
  <2>1. UNCHANGED log /\ wire \in [Sender -> Wire] /\ unheard \subseteq Op
    BY <1>1, <1>4 DEF WriteInv, WriteTypeOK
  <2>2. /\ wire' \in [Sender -> Wire] /\ wire'[s] \in {"refused", "unauth"}
        /\ \A r \in Sender \ {s} : wire'[r] = wire[r]
    BY <1>1, <1>2, <1>4, <2>1 DEF Wire
  <2>3. \A r \in Sender : wire'[r] = wire[r] \/
            (wire[r] \in {"req", "again"} /\ wire'[r] \in {"refused", "unauth"})
    BY <1>1, <2>2
  <2>4. (\A o \in Op : o \in Sender) /\ \A l \in Loop : l \in Sender
    BY DEF Sender
  <2>5. ASSUME NEW l \in Loop
        PROVE  /\ wire'[l] # "none" => wire[l] # "none" \/ (Running(l) /\ todo[l] # <<>>)
               /\ wire[l] = "ok" => wire'[l] = "ok" \/ Head(todo[l]) \in unheard'
    BY <2>3, <2>4
  <2>6. ASSUME NEW o \in Op
        PROVE  /\ wire'[o] # "none" => wire[o] # "none"
               /\ wire'[o] \in {"req", "unauth", "again", "refused"}
                    => wire[o] \in {"req", "unauth", "again", "refused"}
               /\ wire'[o] = "lost" => wire[o] # "ok" \/ o \in unheard'
    BY <2>3, <2>4
  <2>7. \A r \in Sender : wire'[r] = "ok" => wire[r] = "ok"
    BY <2>3
  <2> QED
    BY <1>1, <2>1, <2>2, <2>5, <2>6, <2>7, RequestsMove
<1> QED
  BY <1>3, <1>4

(* The session is refreshed, or cannot be. *)
LEMMA SessionRefreshed ==
    ASSUME WriteInv, TryRefreshSession
    PROVE  WriteInv'
<1>1. UNCHANGED <<user, writeQueue, owner, todo, log, unheard, doubled>>
  BY DEF TryRefreshSession, history
<1>2. wire \in [Sender -> Wire] /\ unheard \subseteq Op
  BY DEF WriteInv, WriteTypeOK
<1>3. \/ wire' = [s \in Sender |-> IF wire[s] = "unauth" THEN "again" ELSE wire[s]]
      \/ wire' = [s \in Sender |-> IF wire[s] = "unauth" THEN "refused" ELSE wire[s]]
  BY DEF TryRefreshSession
<1>4. /\ wire' \in [Sender -> Wire]
      /\ \A s \in Sender : wire'[s] = wire[s]
                           \/ (wire[s] = "unauth" /\ wire'[s] \in {"again", "refused"})
  BY <1>2, <1>3 DEF Wire
<1>5. (\A o \in Op : o \in Sender) /\ \A l \in Loop : l \in Sender
  BY DEF Sender
<1>6. ASSUME NEW l \in Loop
      PROVE  /\ wire'[l] # "none" => wire[l] # "none" \/ (Running(l) /\ todo[l] # <<>>)
             /\ wire[l] = "ok" => wire'[l] = "ok" \/ Head(todo[l]) \in unheard'
  BY <1>4, <1>5
<1>7. ASSUME NEW o \in Op
      PROVE  /\ wire'[o] # "none" => wire[o] # "none"
             /\ wire'[o] \in {"req", "unauth", "again", "refused"}
                  => wire[o] \in {"req", "unauth", "again", "refused"}
             /\ wire'[o] = "lost" => wire[o] # "ok" \/ o \in unheard'
  BY <1>4, <1>5
<1>8. \A r \in Sender : wire'[r] = "ok" => wire[r] = "ok"
  BY <1>4
<1> QED
  BY <1>1, <1>2, <1>4, <1>6, <1>7, <1>8, RequestsMove

(* A request or its answer is lost. *)
LEMMA Lost ==
    ASSUME WriteInv, NEW s \in Sender, Lose(s)
    PROVE  WriteInv'
<1>1. /\ wire[s] \in {"req", "again", "ok", "refused"} /\ wire' = [wire EXCEPT ![s] = "lost"]
      /\ unheard' = IF wire[s] = "ok" THEN unheard \cup {Carries(s)} ELSE unheard
      /\ UNCHANGED <<user, writeQueue, owner, todo, log, doubled>>
  BY DEF Lose
<1>2. wire \in [Sender -> Wire] /\ unheard \subseteq Op /\ Carries(s) \in Op
  BY <1>1, Carried DEF WriteInv, WriteTypeOK
<1>3. /\ wire' \in [Sender -> Wire] /\ wire'[s] = "lost"
      /\ \A r \in Sender \ {s} : wire'[r] = wire[r]
      /\ unheard \subseteq unheard' /\ unheard' \subseteq Op
  BY <1>1, <1>2 DEF Wire
<1>4. ASSUME NEW l \in Loop
      PROVE  /\ wire'[l] # "none" => wire[l] # "none" \/ (Running(l) /\ todo[l] # <<>>)
             /\ wire[l] = "ok" => wire'[l] = "ok" \/ Head(todo[l]) \in unheard'
  <2>1. l \in Sender /\ l \notin Op
    BY OfflineClientConstants DEF Sender
  <2>2. CASE l = s
    BY <1>1, <2>1, <2>2 DEF Carries
  <2>3. CASE l # s
    BY <1>3, <2>1, <2>3
  <2> QED
    BY <2>2, <2>3
<1>5. ASSUME NEW o \in Op
      PROVE  /\ wire'[o] # "none" => wire[o] # "none"
             /\ wire'[o] \in {"req", "unauth", "again", "refused"}
                  => wire[o] \in {"req", "unauth", "again", "refused"}
             /\ wire'[o] = "lost" => wire[o] # "ok" \/ o \in unheard'
  <2>1. o \in Sender
    BY DEF Sender
  <2>2. CASE o = s
    BY <1>1, <1>3, <2>2 DEF Carries
  <2>3. CASE o # s
    <3>1. wire[o] = "lost" => wire[o] # "ok"
      OBVIOUS
    <3> QED
      BY <1>3, <2>1, <2>3, <3>1
  <2> QED
    BY <2>2, <2>3
<1>6. \A r \in Sender : wire'[r] = "ok" => wire[r] = "ok"
  BY <1>3
<1> QED
  BY <1>1, <1>3, <1>4, <1>5, <1>6, RequestsMove

(* Somebody leaves or enters: the queue loses what is not theirs. *)
LEMMA UserChanges ==
    ASSUME WriteInv, LoggedOut \/ \E u \in User : Login(u)
    PROVE  WriteInv'
<1>1. writeQueue \in Seq(Op)
  BY DEF WriteInv, WriteTypeOK
<1>2. CASE LoggedOut
  <2>1. user' = Null /\ writeQueue' = <<>> /\ UNCHANGED <<owner, todo, wire, log, unheard, doubled>>
    BY <1>2 DEF LoggedOut
  <2>2. /\ writeQueue' \in Seq(Op) /\ ToSet(writeQueue') = {}
        /\ \A p, o : ~ Before(writeQueue', p, o)
    BY <2>1, EmptyHas
  <2> QED
    BY <2>1, <2>2, QueueShrinks
<1>3. CASE \E u \in User : Login(u)
  <2>1. PICK u \in User : Login(u)
    BY <1>3
  <2>2. user' = u /\ writeQueue' = Own(u) /\ UNCHANGED <<owner, todo, wire, log, unheard, doubled>>
    BY <2>1 DEF Login
  <2>3. /\ writeQueue' \in Seq(Op) /\ ToSet(writeQueue') \subseteq ToSet(writeQueue)
        /\ \A p, o : Before(writeQueue', p, o) => Before(writeQueue, p, o)
    BY <1>1, <2>2, FilterHas DEF Own
  <2> QED
    BY <2>2, <2>3, QueueShrinks
<1> QED
  BY <1>2, <1>3

(* Steps of the screen alone. *)
LEMMA WritesUntouched ==
    ASSUME WriteInv, UNCHANGED <<user, writeQueue, owner, todo, wire, log, unheard, doubled>>
    PROVE  WriteInv'
<1>1. user' \in User \cup {Null}
  BY DEF WriteInv, WriteTypeOK
<1> QED
  BY <1>1, WritesStay

(* Before anything is submitted. *)
LEMMA WritesBegin ==
    ASSUME WritesInit
    PROVE  WriteInv
<1>1. /\ user = FirstUser /\ writeQueue = <<>> /\ owner = [o \in Op |-> Null]
      /\ todo = [l \in Loop |-> Null] /\ wire = [s \in Sender |-> "none"]
      /\ log = <<>> /\ unheard = {} /\ doubled = FALSE
  BY DEF WritesInit
<1>2. /\ \A l \in Loop : ~ Running(l)
      /\ \A s \in Sender : wire[s] = "none"
      /\ \A o \in Op : ~ Waiting(o) /\ o \notin Applied
      /\ \A o \in Op, p \in Op : ~ Before(writeQueue, p, o) /\ ~ Before(log, p, o)
  BY <1>1, EmptyHas DEF Running, Waiting, Applied
<1>3. WriteTypeOK
  BY <1>1, EmptyHas, OfflineClientConstants DEF WriteTypeOK, Wire
<1>4. \A o \in Op : Direct(o)
  BY <1>2 DEF Direct, Sender
<1>5. \A l \in Loop : Replays(l)
  BY <1>2 DEF Replays, Sender
<1>6. Applied = {}
  BY <1>1, EmptyHas DEF Applied
<1> QED
  BY <1>2, <1>3, <1>4, <1>5, <1>6 DEF WriteInv, OneLoop, DuplicatesExplained, AppliedInOrder

(* Every step of the client keeps the invariant of the write path. *)
LEMMA WritesInductive ==
    ASSUME WriteInv, [ClientNext]_all
    PROVE  WriteInv'
<1> USE DEF history
<1>1. ASSUME NEW o \in Op, SubmitForm(o) PROVE WriteInv'
  BY <1>1, WriteSubmitted DEF SubmitForm
<1>2. ASSUME NEW s \in Sender, Client(s) PROVE WriteInv'
  <2>1. CASE s \in Op /\ FormDone(s)
    BY <2>1, DirectFinished DEF FormDone
  <2>2. CASE s \in Loop /\ LoopStarts(s)
    BY <2>2, LoopBegins DEF LoopStarts
  <2>3. CASE s \in Loop /\ LoopApplied(s)
    BY <2>3, LoopGoesOn DEF LoopApplied
  <2>4. CASE s \in Loop /\ (LoopSends(s) \/ LoopStops(s) \/ LoopDone(s))
    BY <2>4, LoopMoves DEF LoopSends, LoopStops, LoopDone
  <2> QED
    BY <1>2, <2>1, <2>2, <2>3, <2>4 DEF Client
<1>3. ASSUME NEW s \in Sender, Served(s) PROVE WriteInv'
  BY <1>3, Served1 DEF Served
<1>4. ASSUME World PROVE WriteInv'
  <2>1. CASE \E s \in Sender : Lose(s)
    BY <2>1, Lost
  <2>2. CASE HandleOffline \/ HandleOnline \/ Expire
    BY <2>2, WritesUntouched DEF HandleOffline, HandleOnline, Expire
  <2> QED
    BY <1>4, <2>1, <2>2 DEF World
<1>5. ASSUME Session PROVE WriteInv'
  <2>1. CASE \E u \in User : HandleLogin(u)
    BY <2>1, UserChanges DEF HandleLogin
  <2>2. CASE Leave
    BY <2>2, UserChanges DEF Leave, HandleLogout
  <2>3. CASE RestoreSession
    BY <2>3, Reloads DEF RestoreSession
  <2>4. CASE SwitchCompany \/ ChooseCompany
    BY <2>4, WritesUntouched DEF SwitchCompany, ChooseCompany, SwitchTo
  <2>5. CASE HandleForcedPasswordChange \/ VerifyMfaSetup
    BY <2>5, WritesUntouched DEF HandleForcedPasswordChange, VerifyMfaSetup, PassGate
  <2> QED
    BY <1>5, <2>1, <2>2, <2>3, <2>4, <2>5 DEF Session
<1>6. ASSUME (\E m \in Module : LoadModuleData(m)) \/ ApplyDashboardFilter PROVE WriteInv'
  BY <1>6, WritesUntouched DEF LoadModuleData, ApplyDashboardFilter, Visited
<1>7. ASSUME NEW k \in Load, Loaded(k) \/ LoadFailed(k) \/ LoadUnauthorized(k) PROVE WriteInv'
  BY <1>7, WritesUntouched DEF Loaded, LoadFailed, LoadUnauthorized, writeVars
<1>8. ASSUME NEW k \in Load, LoadRefused(k) PROVE WriteInv'
  <2>1. LoggedOut \/ UNCHANGED writeVars
    BY <1>8 DEF LoadRefused
  <2> QED
    BY <2>1, UserChanges, WritesUntouched DEF writeVars
<1>9. ASSUME Refresh PROVE WriteInv'
  BY <1>9, SessionRefreshed DEF Refresh
<1>10. ASSUME UNCHANGED all PROVE WriteInv'
  BY <1>10, WritesUntouched DEF all, writeVars
<1> QED
  BY <1>1, <1>2, <1>3, <1>4, <1>5, <1>6, <1>7, <1>8, <1>9, <1>10 DEF ClientNext

(* The invariant of the write path: a replay keeps the order of the queue, and
   as long as one loop has run at a time an operation that was applied and heard
   of is on its way off the queue. *)
THEOREM WritesInvariance == ClientSpec => []WriteInv
<1>1. ScreenInit => WriteInv
  BY WritesBegin DEF ScreenInit
<1>2. WriteInv /\ [ClientNext]_all => WriteInv'
  BY WritesInductive
<1> QED
  BY <1>1, <1>2, PTL DEF ClientSpec

(* Of syncOfflineWriteQueue: the server applies an operation twice only after
   an answer of success was lost or two loops replayed the same queue. *)
THEOREM DuplicatesAreExplained == ClientSpec => []DuplicatesExplained
<1>1. WriteInv => DuplicatesExplained
  BY DEF WriteInv
<1> QED
  BY <1>1, WritesInvariance, PTL

(* No queued operation is applied while an earlier one of the same user still
   waits for its first time, whatever loops, reloads and log-ins came before. *)
THEOREM WritesAreAppliedInOrder == ClientSpec => []AppliedInOrder
<1>1. WriteInv => AppliedInOrder
  BY DEF WriteInv
<1> QED
  BY <1>1, WritesInvariance, PTL

-----------------------------------------------------------------------------
(* Browser client: the screen. *)

Lane == Slice \cup {"kpis"}

(* A load of slices of a module holds the rows of those slices. *)
LEMMA LoadIs ==
    ASSUME NEW ld \in LoadType
    PROVE  /\ ld.module \in Module /\ ld.key \in Company \cup {Null}
           /\ ld.state \in {"sent", "unauth", "again", "refused"}
           /\ DOMAIN ld.rows \subseteq Lane /\ ld.rows \in [DOMAIN ld.rows -> RowsType]
<1>1. PICK part \in SUBSET Lane : ld.rows \in [part -> RowsType]
  BY DEF LoadType, Lane
<1>2. DOMAIN ld.rows = part
  BY <1>1
<1> QED
  BY <1>1, <1>2 DEF LoadType

LEMMA LoadMade ==
    ASSUME NEW m \in Module, NEW key \in Company \cup {Null}, NEW part \in SUBSET Lane,
           NEW rows \in [part -> RowsType], NEW st \in {"sent", "unauth", "again", "refused"}
    PROVE  [module |-> m, key |-> key, rows |-> rows, state |-> st] \in LoadType
<1>1. rows \in UNION {[p -> RowsType] : p \in SUBSET Lane}
  OBVIOUS
<1> QED
  BY <1>1 DEF LoadType, Lane

(* The rows of a slice are rows of operations. *)
LEMMA RowsAre ==
    ASSUME WriteTypeOK, NEW s, NEW c \in Company \cup {Null}
    PROVE  Rows(s, c) \in RowsType
<1>1. ToSet(log) \subseteq Op
  BY DEF WriteTypeOK, ToSet
<1> QED
  BY <1>1 DEF Rows, RowsType

LEMMA LoadOfIs ==
    ASSUME WriteTypeOK, NEW m \in Module, NEW key \in Company \cup {Null},
           NEW part \in SUBSET Lane, NEW c \in Company \cup {Null}
    PROVE  /\ LoadOf(m, part, key, c) \in LoadType
           /\ DOMAIN LoadOf(m, part, key, c).rows = part
           /\ \A s \in part : LoadOf(m, part, key, c).rows[s] = Rows(s, c)
<1>1. [s \in part |-> Rows(s, c)] \in [part -> RowsType]
  BY RowsAre
<1>2. LoadOf(m, part, key, c) \in LoadType
  BY <1>1, LoadMade DEF LoadOf
<1> QED
  BY <1>2 DEF LoadOf

(* A load with its requests answered or some of them sent again. *)
LEMMA LoadMoved ==
    ASSUME NEW ld \in LoadType, NEW st \in {"sent", "unauth", "again", "refused"},
           NEW rows \in [DOMAIN ld.rows -> RowsType]
    PROVE  /\ [ld EXCEPT !.state = st] \in LoadType
           /\ [ld EXCEPT !.state = st].rows = ld.rows
           /\ [ld EXCEPT !.state = st, !.rows = rows] \in LoadType
           /\ [ld EXCEPT !.state = st, !.rows = rows].rows = rows
<1>1. /\ ld.module \in Module /\ ld.key \in Company \cup {Null}
      /\ DOMAIN ld.rows \in SUBSET Lane /\ ld.rows \in [DOMAIN ld.rows -> RowsType]
  BY LoadIs
<1>2. /\ ld = [module |-> ld.module, key |-> ld.key, rows |-> ld.rows, state |-> ld.state]
  BY DEF LoadType
<1> DEFINE a == ld.module
           b == ld.key
           r == ld.rows
           u == ld.state
<1> HIDE DEF a, b, r, u
<1>3. [ld EXCEPT !.state = st]
        = [module |-> ld.module, key |-> ld.key, rows |-> ld.rows, state |-> st]
  <2>1. ld = [module |-> a, key |-> b, rows |-> r, state |-> u]
    BY <1>2 DEF a, b, r, u
  <2>2. [ld EXCEPT !.state = st] = [module |-> a, key |-> b, rows |-> r, state |-> st]
    BY <2>1
  <2> QED
    BY <2>2 DEF a, b, r
<1>4. [ld EXCEPT !.state = st, !.rows = rows]
        = [module |-> ld.module, key |-> ld.key, rows |-> rows, state |-> st]
  <2>1. ld = [module |-> a, key |-> b, rows |-> r, state |-> u]
    BY <1>2 DEF a, b, r, u
  <2> DEFINE y == [ld EXCEPT !.state = st]
  <2>2. [ld EXCEPT !.state = st, !.rows = rows] = [y EXCEPT !.rows = rows]
    OBVIOUS
  <2>3. y = [module |-> a, key |-> b, rows |-> r, state |-> st]
    BY <2>1
  <2> HIDE DEF y
  <2>4. [y EXCEPT !.rows = rows] = [module |-> a, key |-> b, rows |-> rows, state |-> st]
    BY <2>3
  <2> QED
    BY <2>2, <2>4 DEF a, b
<1>5. /\ [module |-> ld.module, key |-> ld.key, rows |-> ld.rows, state |-> st] \in LoadType
      /\ [module |-> ld.module, key |-> ld.key, rows |-> rows, state |-> st] \in LoadType
  BY <1>1, LoadMade
<1> QED
  BY <1>3, <1>4, <1>5

(* What is followed of a module is on the screen. *)
LEMMA SlicesShown ==
    ASSUME NEW m \in Module
    PROVE  SliceOf(m) \subseteq Slice /\ SliceOf(m) \in SUBSET Lane
  BY DEF Slice, Lane

(* A step that leaves the screen alone. *)
LEMMA ScreenStays ==
    ASSUME ScreenInv, WriteInv', UNCHANGED <<log, shown, target, told, crossed>>,
           origin' \in [Sender -> [company : Company \cup {Null}, module : Module]],
           moved' \in [Loop -> SUBSET Applied]
    PROVE  ScreenInv'
<1>1. Applied' = Applied
  BY DEF Applied
<1>2. UNCHANGED <<company, view, screen, moduleCache, loads>>
  BY DEF shown
<1>3. ScreenTypeOK'
  BY <1>1, <1>2 DEF ScreenInv, ScreenTypeOK
<1>4. LoadsOwn'
  BY <1>2 DEF ScreenInv, LoadsOwn, Loading, Rows
<1>5. OwnRows'
  BY <1>2 DEF ScreenInv, OwnRows, UpToDate
<1> QED
  BY <1>3, <1>4, <1>5 DEF ScreenInv

(* A step that begins a load for the company of now, or none. *)
LEMMA LoadBegins ==
    ASSUME ScreenInv, WriteInv', NEW k \in Load, NEW m \in Module,
           NEW key \in Company \cup {Null}, NEW part \in SUBSET Lane,
           \/ loads' = [loads EXCEPT ![k] = LoadOf(m, part, key, company)]
           \/ UNCHANGED loads,
           \/ UNCHANGED <<moduleCache, told>>
           \/ moduleCache' = [n \in Module |-> Null],
           told' \subseteq Applied, view' \in Module,
           origin' \in [Sender -> [company : Company \cup {Null}, module : Module]],
           moved' \in [Loop -> SUBSET Applied],
           UNCHANGED <<log, company, screen, target, crossed>>
    PROVE  ScreenInv'
<1> DEFINE ld == LoadOf(m, part, key, company)
<1>1. WriteTypeOK /\ ScreenTypeOK /\ company \in Company \cup {Null}
  BY DEF ScreenInv, WriteInv, ScreenTypeOK
<1>2. /\ ld \in LoadType /\ DOMAIN ld.rows = part /\ \A s \in part : ld.rows[s] = Rows(s, company)
  <2>1. PICK c \in Company \cup {Null} : c = company
    BY <1>1
  <2>2. /\ LoadOf(m, part, key, c) \in LoadType
        /\ DOMAIN LoadOf(m, part, key, c).rows = part
        /\ \A s \in part : LoadOf(m, part, key, c).rows[s] = Rows(s, c)
    BY <1>1, LoadOfIs
  <2> QED
    BY <2>1, <2>2
<1> HIDE DEF ld
<1>3. Applied' = Applied /\ \A s : Rows(s, company)' = Rows(s, company)
  BY DEF Applied, Rows
<1>4. loads' \in [Load -> LoadType \cup {Null}] /\ \A j \in Load : loads'[j] = loads[j] \/ loads'[j] = ld
  BY <1>1, <1>2 DEF ScreenTypeOK, ld
<1>5. ScreenTypeOK'
  BY <1>1, <1>3, <1>4 DEF ScreenTypeOK
<1>6. LoadsOwn'
  BY <1>2, <1>3, <1>4 DEF ScreenInv, LoadsOwn, Loading
<1>7. OwnRows'
  <2>1. CASE UNCHANGED <<moduleCache, told>>
    BY <2>1 DEF ScreenInv, OwnRows, UpToDate
  <2>2. CASE moduleCache' = [n \in Module |-> Null]
    BY <2>2 DEF OwnRows, UpToDate
  <2> QED
    BY <2>1, <2>2
<1> QED
  BY <1>5, <1>6, <1>7 DEF ScreenInv

(* The rows of the company of now, when nothing they depend on changes. *)
LEMMA RowsStay ==
    ASSUME UNCHANGED <<log, company, target>>
    PROVE  Applied' = Applied /\ \A s : Rows(s, company)' = Rows(s, company)
  BY DEF Applied, Rows

(* A submitted operation was not applied before: no row names it. *)
LEMMA ScreenSubmits ==
    ASSUME ScreenInv, WriteInv', NEW o \in Op, SubmitForm(o)
    PROVE  ScreenInv'
<1>1. /\ owner[o] = Null /\ UNCHANGED <<log, company, view, screen, moduleCache, loads, moved, told, crossed>>
      /\ target' = [target EXCEPT ![o] = company]
      /\ origin' = [origin EXCEPT ![o] = IF online THEN Here ELSE Nowhere]
  BY DEF SubmitForm, SubmitWriteOrQueue, shown
<1>2. WriteTypeOK /\ ScreenTypeOK /\ o \notin Applied
  BY <1>1 DEF ScreenInv, WriteInv, Direct
<1>3. \A p \in Applied : p # o /\ target'[p] = target[p]
  <2>1. \A p \in Applied : p \in Op
    BY <1>2 DEF WriteTypeOK, Applied, ToSet
  <2> QED
    BY <1>1, <1>2, <2>1 DEF ScreenTypeOK
<1>4. Applied' = Applied
  BY <1>1 DEF Applied
<1>5. ASSUME NEW s PROVE Rows(s, company)' = Rows(s, company)
  <2>1. {p \in ToSet(log') : target'[p] = company /\ s \in Form(p).writes}
          = {p \in ToSet(log) : target[p] = company /\ s \in Form(p).writes}
    BY <1>1, <1>3 DEF Applied
  <2> QED
    BY <1>1, <2>1 DEF Rows
<1>6. ScreenTypeOK'
  <2>1. Here \in [company : Company \cup {Null}, module : Module]
    BY <1>2 DEF ScreenTypeOK, Here
  <2>2. Nowhere \in [company : Company \cup {Null}, module : Module]
    BY ClientScreenConstants DEF Nowhere
  <2>3. origin' \in [Sender -> [company : Company \cup {Null}, module : Module]]
    BY <1>1, <1>2, <2>1, <2>2 DEF ScreenTypeOK
  <2> QED
    BY <1>1, <1>2, <1>4, <2>3 DEF ScreenTypeOK
<1>7. LoadsOwn'
  BY <1>1, <1>5 DEF ScreenInv, LoadsOwn, Loading
<1>8. OwnRows'
  <2>1. \A p \in told : target'[p] = target[p]
    BY <1>2, <1>3 DEF ScreenTypeOK
  <2> QED
    BY <1>1, <2>1 DEF ScreenInv, OwnRows, UpToDate
<1> QED
  BY <1>6, <1>7, <1>8 DEF ScreenInv

(* The server's rows change: what is on its way is crossed. *)
LEMMA ScreenServed ==
    ASSUME ScreenInv, WriteInv', NEW s \in Sender, Served(s)
    PROVE  ScreenInv'
<1>1. /\ UNCHANGED <<company, view, screen, moduleCache, loads, origin, target, moved, told>>
      /\ crossed' = (crossed \/ (log' # log /\ Loading # {}))
      /\ log' = log \/ log' = Append(log, Carries(s))
      /\ wire[s] # "none"
  BY DEF Served, shown, Serve
<1>2. WriteTypeOK /\ ScreenTypeOK /\ Carries(s) \in Op
  BY <1>1, Carried DEF ScreenInv, WriteInv
<1>3. Applied \subseteq Applied'
  <2>1. CASE log' = log
    BY <2>1 DEF Applied
  <2>2. CASE log' = Append(log, Carries(s))
    BY <1>2, <2>2, AppendHas DEF Applied, WriteTypeOK
  <2> QED
    BY <1>1, <2>1, <2>2
<1>4. ScreenTypeOK'
  BY <1>1, <1>2, <1>3 DEF ScreenTypeOK
<1>5. LoadsOwn'
  <2> SUFFICES ASSUME ~ crossed', NEW k \in Loading'
               PROVE  \A r \in DOMAIN loads'[k].rows : loads'[k].rows[r] = Rows(r, company)'
    BY DEF LoadsOwn
  <2>1. k \in Loading /\ log' = log /\ ~ crossed
    BY <1>1 DEF Loading
  <2>2. \A r : Rows(r, company)' = Rows(r, company)
    BY <1>1, <2>1, RowsStay
  <2> QED
    BY <1>1, <2>1, <2>2 DEF ScreenInv, LoadsOwn
<1>6. OwnRows'
  BY <1>1 DEF ScreenInv, OwnRows, UpToDate
<1> QED
  BY <1>4, <1>5, <1>6 DEF ScreenInv

(* A write or a replay is done: its module is loaded again. *)
LEMMA ScreenRefreshes ==
    ASSUME ScreenInv, WriteInv', NEW s \in Sender, RefreshCurrentModuleAfterWrite(s),
           told' \subseteq Applied,
           origin' \in [Sender -> [company : Company \cup {Null}, module : Module]],
           moved' \in [Loop -> SUBSET Applied], UNCHANGED <<log, target, crossed>>
    PROVE  ScreenInv'
<1>1. /\ moduleCache' = [m \in Module |-> Null] /\ UNCHANGED <<company, view, screen>>
      /\ loads' = [loads EXCEPT ![s] = LoadOf(origin[s].module, SliceOf(origin[s].module),
                                              origin[s].company, company)]
  BY DEF RefreshCurrentModuleAfterWrite, InvalidateAllModuleCache
<1>2. ScreenTypeOK /\ s \in Load
  BY DEF ScreenInv, Load
<1>3. PICK m \in Module, key \in Company \cup {Null} :
        m = origin[s].module /\ key = origin[s].company
  <2>1. origin[s] \in [company : Company \cup {Null}, module : Module]
    BY <1>2 DEF ScreenTypeOK
  <2> QED
    BY <2>1
<1>4. loads' = [loads EXCEPT ![s] = LoadOf(m, SliceOf(m), key, company)]
  BY <1>1, <1>3
<1>5. view' \in Module /\ SliceOf(m) \in SUBSET Lane
  BY <1>1, <1>2, SlicesShown DEF ScreenTypeOK
<1> QED
  BY <1>1, <1>2, <1>4, <1>5, LoadBegins

(* The senders: what their handlers show when they finish was applied. *)
LEMMA ScreenClient ==
    ASSUME ScreenInv, WriteInv', NEW s \in Sender, Client(s)
    PROVE  ScreenInv'
<1> DEFINE Places == [company : Company \cup {Null}, module : Module]
<1>1. WriteInv /\ ScreenTypeOK
  BY DEF ScreenInv
<1>2. Here \in Places /\ Nowhere \in Places
  BY <1>1, ClientScreenConstants DEF ScreenTypeOK, Here, Nowhere
<1>3. origin \in [Sender -> Places] /\ moved \in [Loop -> SUBSET Applied] /\ told \subseteq Applied
  BY <1>1 DEF ScreenTypeOK
<1>4. /\ [origin EXCEPT ![s] = Here] \in [Sender -> Places]
      /\ [origin EXCEPT ![s] = Nowhere] \in [Sender -> Places]
      /\ [moved EXCEPT ![s] = {}] \in [Loop -> SUBSET Applied]
  BY <1>2, <1>3
<1> HIDE DEF Places
<1>5. CASE s \in Op /\ FormDone(s)
  <2>1. /\ origin' = [origin EXCEPT ![s] = Nowhere] /\ UNCHANGED <<log, target, moved, crossed>>
    BY <1>5 DEF FormDone, FinishDirect
  <2>2. CASE wire[s] = "ok"
    <3>1. RefreshCurrentModuleAfterWrite(s) /\ told' = told \cup {s}
      BY <1>5, <2>2 DEF FormDone
    <3>2. s \in Applied
      BY <1>1, <1>5, <2>2 DEF WriteInv, Carries
    <3> QED
      BY <1>3, <1>4, <2>1, <3>1, <3>2, ScreenRefreshes DEF Places
  <2>3. CASE wire[s] # "ok"
    <3>1. UNCHANGED <<shown, told>>
      BY <1>5, <2>3 DEF FormDone
    <3> QED
      BY <1>3, <1>4, <2>1, <3>1, ScreenStays DEF Places
  <2> QED
    BY <2>2, <2>3
<1>6. CASE s \in Loop /\ LoopStarts(s)
  <2>1. origin' = [origin EXCEPT ![s] = Here] /\ UNCHANGED <<log, shown, target, moved, told, crossed>>
    BY <1>6 DEF LoopStarts, StartSync
  <2> QED
    BY <1>3, <1>4, <2>1, ScreenStays DEF Places
<1>7. CASE s \in Loop /\ LoopSends(s)
  <2>1. UNCHANGED <<log, shown, origin, target, moved, told, crossed>>
    BY <1>7 DEF LoopSends, LoopSend, scene
  <2> QED
    BY <1>3, <2>1, ScreenStays DEF Places
<1>8. CASE s \in Loop /\ LoopApplied(s)
  <2>1. /\ moved' = [moved EXCEPT ![s] = @ \cup {Head(todo[s])}] /\ wire[s] = "ok"
        /\ UNCHANGED <<log, shown, origin, target, told, crossed>>
    BY <1>8 DEF LoopApplied, LoopAccepted
  <2>2. Head(todo[s]) \in Applied
    <3>1. s \notin Op
      BY <1>8, OfflineClientConstants
    <3> QED
      BY <1>1, <2>1, <3>1 DEF WriteInv, Carries
  <2>3. moved' \in [Loop -> SUBSET Applied]
    BY <1>3, <1>8, <2>1, <2>2
  <2> QED
    BY <1>3, <2>1, <2>3, ScreenStays DEF Places
<1>9. CASE s \in Loop /\ LoopStops(s)
  <2>1. /\ origin' = [origin EXCEPT ![s] = Nowhere] /\ moved' = [moved EXCEPT ![s] = {}]
        /\ UNCHANGED <<log, shown, target, told, crossed>>
    BY <1>9 DEF LoopStops, LoopFailed
  <2> QED
    BY <1>4, <2>1, ScreenStays DEF Places
<1>10. CASE s \in Loop /\ LoopDone(s)
  <2>1. /\ origin' = [origin EXCEPT ![s] = Nowhere] /\ moved' = [moved EXCEPT ![s] = {}]
        /\ told' = told \cup moved[s] /\ UNCHANGED <<log, target, crossed>>
    BY <1>10 DEF LoopDone, LoopFinished
  <2>2. moved[s] \subseteq Applied
    BY <1>3, <1>10
  <2>3. CASE moved[s] # {}
    <3>1. RefreshCurrentModuleAfterWrite(s)
      BY <1>10, <2>3 DEF LoopDone
    <3> QED
      BY <1>3, <1>4, <2>1, <2>2, <3>1, ScreenRefreshes DEF Places
  <2>4. CASE moved[s] = {}
    <3>1. UNCHANGED <<shown, told>>
      BY <1>10, <2>1, <2>4 DEF LoopDone
    <3> QED
      BY <1>4, <2>1, <3>1, ScreenStays DEF Places
  <2> QED
    BY <2>3, <2>4
<1> QED
  BY <1>5, <1>6, <1>7, <1>8, <1>9, <1>10 DEF Client

(* A module is visited, or the last gate of the session opens on one. *)
LEMMA ScreenVisits ==
    ASSUME ScreenInv, WriteInv',
           \/ \E m \in Module : LoadModuleData(m)
           \/ ApplyDashboardFilter \/ HandleForcedPasswordChange \/ VerifyMfaSetup
    PROVE  ScreenInv'
<1>1. /\ ScreenTypeOK /\ view \in Module /\ company \in Company \cup {Null}
      /\ told \subseteq Applied /\ moved \in [Loop -> SUBSET Applied]
      /\ origin \in [Sender -> [company : Company \cup {Null}, module : Module]]
  BY DEF ScreenInv, ScreenTypeOK
<1>2. UNCHANGED <<log, company, screen, moduleCache, origin, target, moved, told, crossed>>
  BY DEF LoadModuleData, ApplyDashboardFilter, Visited, HandleForcedPasswordChange,
         VerifyMfaSetup, PassGate
<1>3. \E m \in Module, part \in SUBSET Lane :
         /\ view' \in Module
         /\ \/ UNCHANGED loads
            \/ \E k \in Visit : loads' = [loads EXCEPT ![k] = LoadOf(m, part, company, company)]
  <2>1. ASSUME NEW m \in Module, LoadModuleData(m)
        PROVE  /\ SliceOf(m) \in SUBSET Lane /\ view' = m
               /\ \/ UNCHANGED loads
                  \/ \E k \in Visit : loads' = [loads EXCEPT ![k] = LoadOf(m, SliceOf(m), company, company)]
    BY <2>1, SlicesShown DEF LoadModuleData, Begin
  <2>2. ASSUME ApplyDashboardFilter
        PROVE  /\ {"kpis"} \in SUBSET Lane /\ view' = view
               /\ \E k \in Visit : loads' = [loads EXCEPT ![k] = LoadOf(view, {"kpis"}, company, company)]
    BY <2>2 DEF ApplyDashboardFilter, Lane
  <2>3. ASSUME HandleForcedPasswordChange \/ VerifyMfaSetup
        PROVE  /\ SliceOf(view) \in SUBSET Lane /\ view' = view
               /\ \/ UNCHANGED loads
                  \/ \E k \in Visit : loads' = [loads EXCEPT ![k] = LoadOf(view, SliceOf(view), company, company)]
    BY <1>1, <2>3, SlicesShown DEF HandleForcedPasswordChange, VerifyMfaSetup, PassGate, Begin
  <2> QED
    BY <1>1, <2>1, <2>2, <2>3
<1>4. PICK m \in Module, part \in SUBSET Lane :
         /\ view' \in Module
         /\ \/ UNCHANGED loads
            \/ \E k \in Visit : loads' = [loads EXCEPT ![k] = LoadOf(m, part, company, company)]
  BY <1>3
<1>5. PICK key \in Company \cup {Null} : key = company
  BY <1>1
<1>6. CASE \E k \in Visit : loads' = [loads EXCEPT ![k] = LoadOf(m, part, company, company)]
  <2>1. PICK k \in Visit : loads' = [loads EXCEPT ![k] = LoadOf(m, part, key, company)]
    BY <1>5, <1>6
  <2>2. k \in Load
    BY DEF Load
  <2> QED
    BY <1>1, <1>2, <1>4, <2>1, <2>2, LoadBegins
<1>7. CASE UNCHANGED loads
  <2>1. ScreenTypeOK'
    <3>1. Applied' = Applied
      BY <1>2 DEF Applied
    <3> QED
      BY <1>1, <1>2, <1>4, <1>7, <3>1 DEF ScreenTypeOK
  <2>2. LoadsOwn'
    BY <1>2, <1>7, RowsStay DEF ScreenInv, LoadsOwn, Loading
  <2>3. OwnRows'
    BY <1>2 DEF ScreenInv, OwnRows, UpToDate
  <2> QED
    BY <2>1, <2>2, <2>3 DEF ScreenInv
<1> QED
  BY <1>4, <1>6, <1>7

(* The rows of a load are shown: those of the company of now, of every slice
   the module shows or of a module that was up to date before. *)
LEMMA ScreenLoaded ==
    ASSUME ScreenInv, WriteInv', NEW k \in Load, Loaded(k)
    PROVE  ScreenInv'
<1> DEFINE ld == loads[k]
<1>1. /\ k \in Loading
      /\ screen' = [s \in Slice |-> IF s \in DOMAIN ld.rows THEN ld.rows[s] ELSE screen[s]]
      /\ moduleCache' = [moduleCache EXCEPT ![ld.module] = ld.key]
      /\ crossed' = (crossed \/ (~ Whole(ld) /\ moduleCache[ld.module] # ld.key))
      /\ loads' = [loads EXCEPT ![k] = Null]
      /\ UNCHANGED <<log, company, view, origin, target, moved, told>>
  BY DEF Loaded, writeVars
<1>2. ScreenTypeOK /\ ld \in LoadType /\ ld.rows \in [DOMAIN ld.rows -> RowsType]
  BY <1>1, LoadIs DEF ScreenInv, ScreenTypeOK, Loading
<1>3. ld.module \in Module /\ ld.key \in Company \cup {Null}
  BY <1>2, LoadIs
<1> HIDE DEF ld
<1>4. Applied' = Applied /\ \A s : Rows(s, company)' = Rows(s, company)
  BY <1>1, RowsStay
<1>5. ScreenTypeOK'
  <2>1. screen' \in [Slice -> RowsType]
    BY <1>1, <1>2 DEF ScreenTypeOK
  <2>2. moduleCache' \in [Module -> Company \cup {Null}]
    BY <1>1, <1>2, <1>3 DEF ScreenTypeOK
  <2>3. loads' \in [Load -> LoadType \cup {Null}]
    BY <1>1, <1>2 DEF ScreenTypeOK
  <2>4. crossed' \in BOOLEAN
    BY <1>1, <1>2 DEF ScreenTypeOK
  <2> QED
    BY <1>1, <1>2, <1>4, <2>1, <2>2, <2>3, <2>4 DEF ScreenTypeOK
<1>6. LoadsOwn'
  <2> SUFFICES ASSUME ~ crossed', NEW j \in Loading', NEW s \in DOMAIN loads'[j].rows
               PROVE  loads'[j].rows[s] = Rows(s, company)'
    BY DEF LoadsOwn
  <2>1. j \in Loading /\ loads'[j] = loads[j]
    BY <1>1, <1>2 DEF Loading, ScreenTypeOK
  <2>2. ~ crossed
    BY <1>1
  <2> QED
    BY <1>4, <2>1, <2>2 DEF ScreenInv, LoadsOwn
<1>7. OwnRows'
  <2> SUFFICES ASSUME ~ crossed', company # Null, NEW m \in Module, moduleCache'[m] = company,
                      NEW s \in SliceOf(m)
               PROVE  /\ screen'[s].company = company
                      /\ \A o \in told : target[o] = company /\ s \in Form(o).writes
                                           => o \in screen'[s].seen
    BY <1>1 DEF OwnRows, UpToDate
  <2>1. ~ crossed /\ s \in Slice
    BY <1>1, SlicesShown
  <2>2. CASE s \in DOMAIN ld.rows
    <3>1. screen'[s] = Rows(s, company)
      BY <1>1, <2>1, <2>2 DEF ScreenInv, LoadsOwn, ld
    <3>2. told \subseteq ToSet(log)
      BY <1>2 DEF ScreenTypeOK, Applied
    <3> QED
      BY <3>1, <3>2 DEF Rows
  <2>3. CASE s \notin DOMAIN ld.rows
    <3>1. moduleCache[m] = company
      <4>1. CASE m # ld.module
        BY <1>1, <1>2, <4>1 DEF ScreenTypeOK
      <4>2. CASE m = ld.module
        <5>1. ~ Whole(ld)
          BY <2>3, <4>2 DEF Whole
        <5>2. moduleCache[m] = ld.key
          BY <1>1, <4>2, <5>1
        <5>3. moduleCache'[m] = ld.key
          BY <1>1, <1>2, <4>2 DEF ScreenTypeOK
        <5> QED
          BY <5>2, <5>3
      <4> QED
        BY <4>1, <4>2
    <3>2. screen'[s] = screen[s]
      BY <1>1, <2>1, <2>3
    <3> QED
      BY <2>1, <3>1, <3>2 DEF ScreenInv, OwnRows, UpToDate
  <2> QED
    BY <2>2, <2>3
<1> QED
  BY <1>5, <1>6, <1>7 DEF ScreenInv

(* A load fails, or waits for the session. *)
LEMMA ScreenLoadMoves ==
    ASSUME ScreenInv, WriteInv', NEW k \in Load, LoadFailed(k) \/ LoadUnauthorized(k)
    PROVE  ScreenInv'
<1>1. /\ k \in Loading
      /\ UNCHANGED <<log, company, view, screen, moduleCache, origin, target, moved, told, crossed>>
      /\ loads' = [loads EXCEPT ![k] = Null] \/ loads' = [loads EXCEPT ![k].state = "unauth"]
  BY DEF LoadFailed, LoadUnauthorized, writeVars
<1>2. ScreenTypeOK /\ loads[k] \in LoadType /\ loads[k].rows \in [DOMAIN loads[k].rows -> RowsType]
  BY <1>1, LoadIs DEF ScreenInv, ScreenTypeOK, Loading
<1> DEFINE moved1 == [loads[k] EXCEPT !.state = "unauth"]
<1>3. moved1 \in LoadType /\ moved1.rows = loads[k].rows
  BY <1>2, LoadMoved
<1>4. loads' = [loads EXCEPT ![k] = Null] \/ loads' = [loads EXCEPT ![k] = moved1]
  BY <1>1
<1> HIDE DEF moved1
<1>5. /\ loads' \in [Load -> LoadType \cup {Null}]
      /\ \A j \in Load : loads'[j] = Null \/ loads'[j] = loads[j] \/ (j = k /\ loads'[j] = moved1)
  BY <1>2, <1>3, <1>4 DEF ScreenTypeOK
<1>6. Applied' = Applied /\ \A s : Rows(s, company)' = Rows(s, company)
  BY <1>1, RowsStay
<1>7. ScreenTypeOK'
  BY <1>1, <1>2, <1>5, <1>6 DEF ScreenTypeOK
<1>8. LoadsOwn'
  BY <1>1, <1>3, <1>5, <1>6 DEF ScreenInv, LoadsOwn, Loading
<1>9. OwnRows'
  BY <1>1 DEF ScreenInv, OwnRows, UpToDate
<1> QED
  BY <1>7, <1>8, <1>9 DEF ScreenInv

(* Somebody enters or leaves, or another company is chosen: no module is up to
   date, and rows still on their way are crossed. *)
LEMMA ScreenEnters ==
    ASSUME ScreenInv, WriteInv', NEW c \in Company \cup {Null}, company' = c,
           Begin(view, c) \/ UNCHANGED loads,
           InvalidateAllModuleCache, Crossing,
           UNCHANGED <<log, view, screen, origin, target, moved, told>>
    PROVE  ScreenInv'
<1>1. /\ WriteTypeOK /\ ScreenTypeOK /\ view \in Module
      /\ moduleCache' = [m \in Module |-> Null] /\ crossed' = (crossed \/ Loading # {})
  BY DEF ScreenInv, WriteInv, ScreenTypeOK, InvalidateAllModuleCache, Crossing
<1>2. PICK m \in Module : m = view
  BY <1>1
<1> DEFINE ld == LoadOf(m, SliceOf(m), c, c)
<1>3. ld \in LoadType /\ \A s \in DOMAIN ld.rows : ld.rows[s] = Rows(s, c)
  BY <1>1, LoadOfIs, SlicesShown
<1>4. \/ \E k \in Visit : loads' = [loads EXCEPT ![k] = ld]
      \/ UNCHANGED loads
  BY <1>2 DEF Begin
<1> HIDE DEF ld
<1>5. /\ loads' \in [Load -> LoadType \cup {Null}]
      /\ \A j \in Load : loads'[j] = loads[j] \/ loads'[j] = ld
  BY <1>1, <1>3, <1>4 DEF ScreenTypeOK, Load
<1>6. Applied' = Applied /\ \A s : Rows(s, company)' = Rows(s, c)
  BY DEF Applied, Rows
<1>7. ScreenTypeOK'
  BY <1>1, <1>5, <1>6 DEF ScreenTypeOK
<1>8. LoadsOwn'
  <2>1. ~ crossed' => \A j \in Loading' : loads'[j] = ld
    BY <1>1, <1>5 DEF Loading
  <2> QED
    BY <1>3, <1>6, <2>1 DEF LoadsOwn
<1>9. OwnRows'
  BY <1>1 DEF OwnRows, UpToDate
<1> QED
  BY <1>7, <1>8, <1>9 DEF ScreenInv

(* A load answered 401 for good drops itself, and with it the session. *)
LEMMA ScreenLoadRefused ==
    ASSUME ScreenInv, WriteInv', NEW k \in Load, LoadRefused(k)
    PROVE  ScreenInv'
<1>1. /\ k \in Loading /\ loads' = [loads EXCEPT ![k] = Null]
      /\ UNCHANGED <<log, view, screen, origin, target, moved, told>>
      /\ \/ /\ company' = Null /\ moduleCache' = [m \in Module |-> Null]
            /\ crossed' = (crossed \/ Loading # {k})
         \/ UNCHANGED <<company, moduleCache, crossed>>
  BY DEF LoadRefused, LoggedOut, writeVars, InvalidateAllModuleCache
<1>2. ScreenTypeOK
  BY DEF ScreenInv
<1>3. /\ loads' \in [Load -> LoadType \cup {Null}]
      /\ Loading' = Loading \ {k} /\ \A j \in Loading' : loads'[j] = loads[j]
  BY <1>1, <1>2 DEF ScreenTypeOK, Loading
<1>4. Applied' = Applied
  BY <1>1 DEF Applied
<1>5. ScreenTypeOK'
  BY <1>1, <1>2, <1>3, <1>4 DEF ScreenTypeOK
<1>6. CASE company' = Null /\ crossed' = (crossed \/ Loading # {k})
  <2>1. ~ crossed' => Loading' = {}
    BY <1>3, <1>6
  <2> QED
    BY <1>5, <1>6, <2>1 DEF ScreenInv, LoadsOwn, OwnRows
<1>7. CASE UNCHANGED <<company, moduleCache, crossed>>
  <2>1. LoadsOwn'
    BY <1>1, <1>3, <1>7, RowsStay DEF ScreenInv, LoadsOwn
  <2>2. OwnRows'
    BY <1>1, <1>7 DEF ScreenInv, OwnRows, UpToDate
  <2> QED
    BY <1>5, <2>1, <2>2 DEF ScreenInv
<1> QED
  BY <1>1, <1>6, <1>7

(* Requests are sent again after the session was refreshed: for the company of
   now. *)
LEMMA ScreenRefreshed ==
    ASSUME ScreenInv, WriteInv', Refresh
    PROVE  ScreenInv'
<1> DEFINE waiting == {k \in Loading : loads[k].state = "unauth"}
           Resent(k, part) == [s \in DOMAIN loads[k].rows |->
                                 IF s \in part THEN Rows(s, company) ELSE loads[k].rows[s]]
<1>1. /\ UNCHANGED <<log, company, view, screen, moduleCache, origin, target, moved, told, crossed>>
      /\ \E part : loads' = [k \in Load |->
                IF k \notin waiting THEN loads[k]
                ELSE IF expired' \/ user = Null THEN [loads[k] EXCEPT !.state = "refused"]
                ELSE [loads[k] EXCEPT !.state = "again", !.rows = Resent(k, part)]]
  BY DEF Refresh, TryRefreshSession
<1>2. PICK part : loads' = [k \in Load |->
                IF k \notin waiting THEN loads[k]
                ELSE IF expired' \/ user = Null THEN [loads[k] EXCEPT !.state = "refused"]
                ELSE [loads[k] EXCEPT !.state = "again", !.rows = Resent(k, part)]]
  BY <1>1
<1>3. WriteTypeOK /\ ScreenTypeOK /\ company \in Company \cup {Null}
  BY DEF ScreenInv, WriteInv, ScreenTypeOK
<1>4. Applied' = Applied /\ \A s : Rows(s, company)' = Rows(s, company)
  BY <1>1, RowsStay
<1>5. ASSUME NEW k \in Load
      PROVE  /\ loads'[k] \in LoadType \cup {Null}
             /\ ~ crossed /\ loads'[k] # Null
                  => \A s \in DOMAIN loads'[k].rows : loads'[k].rows[s] = Rows(s, company)
  <2>1. CASE k \notin waiting
    <3>1. loads'[k] = loads[k]
      BY <1>2, <2>1
    <3> QED
      BY <1>3, <3>1 DEF ScreenInv, ScreenTypeOK, LoadsOwn, Loading
  <2>2. CASE k \in waiting
    <3>1. /\ k \in Loading /\ loads[k] \in LoadType
          /\ loads[k].rows \in [DOMAIN loads[k].rows -> RowsType]
      BY <1>3, <2>2, LoadIs DEF ScreenTypeOK, Loading
    <3>2. PICK c \in Company \cup {Null} : c = company
      BY <1>3
    <3>3. \A s : Rows(s, company) \in RowsType
      BY <1>3, <3>2, RowsAre
    <3>4. Resent(k, part) \in [DOMAIN loads[k].rows -> RowsType]
      BY <3>1, <3>3
    <3>5. ~ crossed => \A s \in DOMAIN loads[k].rows : loads[k].rows[s] = Rows(s, company)
      BY <3>1 DEF ScreenInv, LoadsOwn
    <3>6. ~ crossed => \A s \in DOMAIN Resent(k, part) : Resent(k, part)[s] = Rows(s, company)
      BY <3>5
    <3> DEFINE a == loads[k]
               r == Resent(k, part)
    <3> HIDE DEF a, r
    <3>7. /\ a \in LoadType /\ r \in [DOMAIN a.rows -> RowsType]
      BY <3>1, <3>4 DEF a, r
    <3>8. \/ loads'[k] = [a EXCEPT !.state = "refused"]
          \/ loads'[k] = [a EXCEPT !.state = "again", !.rows = r]
      BY <1>2, <2>2 DEF a, r
    <3>9. /\ loads'[k] \in LoadType /\ (loads'[k].rows = a.rows \/ loads'[k].rows = r)
      <4>1. /\ [a EXCEPT !.state = "refused"] \in LoadType
            /\ [a EXCEPT !.state = "refused"].rows = a.rows
        BY <3>7, LoadMoved
      <4>2. /\ [a EXCEPT !.state = "again", !.rows = r] \in LoadType
            /\ [a EXCEPT !.state = "again", !.rows = r].rows = r
        BY <3>7, LoadMoved, ZenonT(60)
      <4> QED
        BY <3>8, <4>1, <4>2
    <3> QED
      BY <3>5, <3>6, <3>9 DEF a, r
  <2> QED
    BY <2>1, <2>2
<1>6. loads' \in [Load -> LoadType \cup {Null}]
  <2>1. loads' = [k \in Load |-> loads'[k]]
    BY <1>2
  <2> HIDE DEF waiting, Resent
  <2> QED
    BY <1>5, <2>1
<1>7. ScreenTypeOK'
  BY <1>1, <1>3, <1>4, <1>6 DEF ScreenTypeOK
<1>8. LoadsOwn'
  BY <1>1, <1>4, <1>5 DEF LoadsOwn, Loading
<1>9. OwnRows'
  BY <1>1 DEF ScreenInv, OwnRows, UpToDate
<1> QED
  BY <1>7, <1>8, <1>9 DEF ScreenInv

(* The page is loaded again: it shows nothing until its module is loaded. *)
LEMMA ScreenRestored ==
    ASSUME ScreenInv, WriteInv', RestoreSession
    PROVE  ScreenInv'
<1>1. WriteTypeOK /\ ScreenTypeOK /\ company \in Company \cup {Null} /\ Home \in Module
  BY ClientScreenConstants DEF ScreenInv, WriteInv, ScreenTypeOK
<1>2. /\ view' = Home /\ screen' = [s \in Slice |-> NoRows] /\ moduleCache' = [m \in Module |-> Null]
      /\ origin' = [s \in Sender |-> Nowhere] /\ moved' = [l \in Loop |-> {}]
      /\ UNCHANGED <<log, company, target, told, crossed>>
  BY DEF RestoreSession, Reload, InvalidateAllModuleCache
<1>3. PICK c \in Company \cup {Null} : c = company
  BY <1>1
<1> DEFINE ld == LoadOf(Home, SliceOf(Home), c, c)
<1>4. ld \in LoadType /\ \A s \in DOMAIN ld.rows : ld.rows[s] = Rows(s, c)
  BY <1>1, LoadOfIs, SlicesShown
<1>5. PICK v \in Visit : loads' = [k \in Load |-> IF k = v /\ Allowed THEN ld ELSE Null]
  BY <1>3 DEF RestoreSession
<1> HIDE DEF ld
<1>6. loads' \in [Load -> LoadType \cup {Null}] /\ \A k \in Load : loads'[k] = ld \/ loads'[k] = Null
  BY <1>4, <1>5
<1>7. Applied' = Applied /\ \A s : Rows(s, company)' = Rows(s, company)
  BY <1>2, RowsStay
<1>8. ScreenTypeOK'
  <2>1. Nowhere \in [company : Company \cup {Null}, module : Module] /\ NoRows \in RowsType
    BY <1>1 DEF Nowhere, NoRows, RowsType
  <2> QED
    BY <1>1, <1>2, <1>6, <1>7, <2>1 DEF ScreenTypeOK
<1>9. LoadsOwn'
  BY <1>2, <1>3, <1>4, <1>6, <1>7 DEF LoadsOwn, Loading
<1>10. OwnRows'
  BY <1>2 DEF OwnRows, UpToDate
<1> QED
  BY <1>8, <1>9, <1>10 DEF ScreenInv

(* Whatever the session does. *)
LEMMA ScreenSession ==
    ASSUME ScreenInv, WriteInv', Session
    PROVE  ScreenInv'
<1>1. ASSUME NEW u \in User, HandleLogin(u) PROVE ScreenInv'
  <2>1. PICK c \in Company \cup {Null} : Enter(c, gate')
    BY <1>1 DEF HandleLogin
  <2>2. /\ company' = c /\ InvalidateAllModuleCache /\ (Begin(view, c) \/ UNCHANGED loads)
    BY <2>1 DEF Enter
  <2>3. Crossing /\ UNCHANGED <<log, view, screen, origin, target, moved, told>>
    BY <1>1 DEF HandleLogin, Login
  <2> QED
    BY <2>2, <2>3, ScreenEnters
<1>2. ASSUME NEW c \in Company, SwitchTo(c) PROVE ScreenInv'
  <2>1. /\ company' = c /\ InvalidateAllModuleCache /\ (Begin(view, c) \/ UNCHANGED loads)
        /\ Crossing /\ UNCHANGED <<log, view, screen, origin, target, moved, told>>
    BY <1>2 DEF SwitchTo, Enter
  <2> QED
    BY <2>1, ScreenEnters
<1>3. CASE Leave
  <2>1. /\ company' = Null /\ InvalidateAllModuleCache /\ UNCHANGED loads /\ Crossing
        /\ UNCHANGED <<log, view, screen, origin, target, moved, told>>
    BY <1>3 DEF Leave, HandleLogout, LoggedOut
  <2>2. PICK c \in Company \cup {Null} : c = Null
    OBVIOUS
  <2> QED
    BY <2>1, <2>2, ScreenEnters
<1>4. CASE HandleForcedPasswordChange \/ VerifyMfaSetup
  BY <1>4, ScreenVisits
<1>5. CASE RestoreSession
  BY <1>5, ScreenRestored
<1>6. CASE SwitchCompany \/ ChooseCompany
  BY <1>2, <1>6 DEF SwitchCompany, ChooseCompany
<1> QED
  BY <1>1, <1>3, <1>4, <1>5, <1>6 DEF Session

(* Nothing is shown or loaded at first. *)
LEMMA ScreenBegins ==
    ASSUME ScreenInit
    PROVE  ScreenInv
<1>1. /\ WritesInit /\ company = FirstCompany /\ view = Home /\ screen = [s \in Slice |-> NoRows]
      /\ moduleCache = [m \in Module |-> Null] /\ loads = [k \in Load |-> Null]
      /\ origin = [s \in Sender |-> Nowhere] /\ target = [o \in Op |-> Null]
      /\ moved = [l \in Loop |-> {}] /\ told = {} /\ crossed = FALSE
  BY DEF ScreenInit
<1>2. FirstCompany \in Company /\ Home \in Module
  BY ClientScreenConstants
<1>3. Nowhere \in [company : Company \cup {Null}, module : Module] /\ NoRows \in RowsType
  BY <1>2 DEF Nowhere, NoRows, RowsType
<1>4. ScreenTypeOK
  BY <1>1, <1>2, <1>3 DEF ScreenTypeOK
<1>5. Loading = {}
  BY <1>1 DEF Loading
<1> QED
  BY <1>1, <1>4, <1>5, WritesBegin DEF ScreenInv, LoadsOwn, OwnRows, UpToDate

(* Every step of the client keeps the invariant of the screen. *)
LEMMA ScreenInductive ==
    ASSUME ScreenInv, [ClientNext]_all
    PROVE  ScreenInv'
<1>1. WriteInv'
  BY WritesInductive DEF ScreenInv
<1>2. ASSUME NEW o \in Op, SubmitForm(o) PROVE ScreenInv'
  BY <1>1, <1>2, ScreenSubmits
<1>3. ASSUME NEW s \in Sender, Client(s) \/ Served(s) PROVE ScreenInv'
  BY <1>1, <1>3, ScreenClient, ScreenServed
<1>4. ASSUME (World /\ UNCHANGED scene) \/ UNCHANGED all PROVE ScreenInv'
  <2>1. UNCHANGED <<log, shown, origin, target, moved, told, crossed>>
    BY <1>4 DEF World, Lose, HandleOffline, HandleOnline, Expire, scene, all, writeVars
  <2>2. /\ origin' \in [Sender -> [company : Company \cup {Null}, module : Module]]
        /\ moved' \in [Loop -> SUBSET Applied]
    BY <2>1 DEF ScreenInv, ScreenTypeOK
  <2> QED
    BY <1>1, <2>1, <2>2, ScreenStays
<1>5. ASSUME Session PROVE ScreenInv'
  BY <1>1, <1>5, ScreenSession
<1>6. ASSUME (\E m \in Module : LoadModuleData(m)) \/ ApplyDashboardFilter PROVE ScreenInv'
  BY <1>1, <1>6, ScreenVisits
<1>7. ASSUME NEW k \in Load, Loaded(k) \/ LoadFailed(k) \/ LoadUnauthorized(k) \/ LoadRefused(k)
      PROVE  ScreenInv'
  BY <1>1, <1>7, ScreenLoaded, ScreenLoadMoves, ScreenLoadRefused
<1>8. ASSUME Refresh PROVE ScreenInv'
  BY <1>1, <1>8, ScreenRefreshed
<1> QED
  BY <1>2, <1>3, <1>4, <1>5, <1>6, <1>7, <1>8 DEF ClientNext

(* Of loadModuleData, markModuleLoaded and refreshCurrentModuleAfterWrite: a
   module that need not be loaded again shows the rows of the company the user
   works for, with every finished write of that company, unless user, company or
   rows changed during a load or only a filter of the dashboard was loaded. *)
THEOREM RowsAreOwn == ClientSpec => []OwnRows
<1>1. ScreenInit => ScreenInv
  BY ScreenBegins
<1>2. ScreenInv /\ [ClientNext]_all => ScreenInv'
  BY ScreenInductive
<1>3. ScreenInv => OwnRows
  BY DEF ScreenInv
<1> QED
  BY <1>1, <1>2, <1>3, PTL DEF ClientSpec
=============================================================================
