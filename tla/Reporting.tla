----------------------------- MODULE Reporting -----------------------------
(***************************************************************************)
(* The reports as the server serves them, and the notifications it sends:  *)
(* requests that commit documents, requests that read statements, the      *)
(* dashboard, a dashboard snapshot or the invoice list through the caches  *)
(* of one server process, and the in-memory notification queue.            *)
(*                                                                         *)
(* A cached computation is a promise shared by every request that asks for *)
(* the same key while it runs; it runs inside the transaction of the       *)
(* request that started it and fails with it.  The dashboard computes on   *)
(* the cached statements and is cached itself.  Handlers clear the caches  *)
(* and queue their event when they answer, before their transaction        *)
(* commits.  One unit of the clock is the limit of a transaction over      *)
(* Limit.                                                                  *)
(***************************************************************************)
EXTENDS Statements, Sequences

CONSTANTS
    Writers,      \* requests that commit a document: a set of positive naturals
    Readers,      \* requests that read
    Documents,    \* documents a writer may bring
    Ttl,          \* REPORTS_CACHE_TTL_MS
    Limit,        \* how long a request transaction may last
    MaxClock,     \* bound: the clock stops here
    Concurrency,  \* bound: requests in flight at once
    Notifying,    \* NOTIFICATIONS_ENABLED
    MaxQueue,     \* MAX_IN_MEMORY_QUEUE_SIZE
    Restarts,     \* bound: restarts of the process
    None

Req  == Writers \cup Readers
Key  == {"statements", "dashboard", "list"}
Read == {"STATEMENTS", "DASHBOARD", "SNAPSHOT", "LIST"}

(* What a report was computed from: the documents whose journal lines, whose
   other rows and whose open amounts it read. *)
Report  == [lines : SUBSET Writers, rows : SUBSET Writers, open : SUBSET Writers]
Nothing == [lines |-> {}, rows |-> {}, open |-> {}]
Entry   == [value : Report, expires : Nat]

ASSUME ReportingConstants ==
    /\ Writers \subseteq Nat \ {0} /\ Writers \cap Readers = {}
    /\ None \notin Nat \cup Readers \cup Document \cup [of : Readers, key : Key] \cup Entry
    /\ Documents \subseteq Document
    /\ {Ttl, Limit, Concurrency, MaxQueue} \subseteq Nat \ {0}
    /\ Notifying \in BOOLEAN
    /\ {MaxClock, Restarts} \subseteq Nat

VARIABLES
    book,      \* committed documents, by writer
    since,     \* when each was committed
    cache,     \* the entry of each key: value and expiry
    flight,    \* the request that computes each key
    tx,        \* the requests
    clock,
    queue,     \* inMemoryQueue
    sending,   \* the event the worker tick is dispatching (isTickRunning)
    sent,      \* events dispatched, in order
    lost,      \* events dropped by a full queue or a restart
    restarts

cached == <<cache, flight>>
mail   == <<queue, sending, sent, lost>>
rest   == <<book, since, clock, restarts>>
vars   == <<book, since, cache, flight, tx, clock, queue, sending, sent, lost, restarts>>

Blank(label) == [op |-> "LIST", pc |-> label, doc |-> None, start |-> 0, known |-> {},
                 own |-> {}, waits |-> None, value |-> Nothing, at |-> 0]

Committed  == {w \in Writers : book[w] # None}
Books(S)   == {book[w] : w \in S}
Computing  == {r \in Readers : tx[r].pc \in {"lines", "open", "rows", "wait", "resume", "broken"}}
InDatabase == {w \in Writers : tx[w].pc \in {"write", "answered"}}
              \cup {r \in Readers : tx[r].pc \in {"lines", "open", "rows", "store"}}
InFlight   == Computing \cup InDatabase

Init ==
    /\ book = [w \in Writers |-> None]
    /\ since = [w \in Writers |-> 0]
    /\ cache = [k \in Key |-> None]
    /\ flight = [k \in Key |-> None]
    /\ tx = [r \in Req |-> Blank("idle")]
    /\ clock = 0
    /\ queue = <<>> /\ sending = None /\ sent = <<>> /\ lost = {}
    /\ restarts = 0

-----------------------------------------------------------------------------
(* Writers. *)

(* Fault: invoices clear their own list only. *)
FaultyClears(kind) == IF kind \in {"FISCAL", "STORNO", "PROFORMA", "RECEIPT"} THEN {"list"}
                      ELSE {"statements", "dashboard"}

(* The caches a handler clears; a bank match does not clear the invoice list
   although it changes the status of an invoice. *)
Clears(kind) == IF kind \in {"FISCAL", "STORNO", "PROFORMA", "RECEIPT"} THEN Key
                ELSE {"statements", "dashboard"}

(* The handlers that queue an event. *)
Announces(kind) == Notifying /\ kind \notin {"MATCH", "MANUAL"}

(* A request arrives with a document that the committed books allow.  Writers
   are numbered in the order they arrive. *)
Submit(w) ==
    /\ tx[w].pc = "idle" /\ \A v \in Writers : v < w => tx[v].pc # "idle"
    /\ Cardinality(InFlight) < Concurrency
    /\ \E d \in Documents :
        /\ d.kind \in {"STORNO", "RECEIPT", "MATCH", "PAYMENT"} =>
              \E v \in Committed :
                  /\ v = d.of
                  /\ book[v].kind = IF d.kind = "PAYMENT" THEN "SUPPLIER" ELSE "FISCAL"
                  /\ d.kind \in {"RECEIPT", "MATCH"} => d.base <= OpenAmount(Books(Committed), book[v])
                  /\ d.kind = "PAYMENT" => d.base <= OpenPayable(Books(Committed), book[v])
                  /\ d.kind = "STORNO" => d.base = book[v].base /\ d.tax = book[v].tax
        /\ tx' = [tx EXCEPT ![w] = [Blank("write") EXCEPT !.start = clock, !.doc = [d EXCEPT !.id = w]]]
    /\ UNCHANGED <<cached, mail, rest>>

(* Fault: a full queue refuses the new event but still drops the oldest. *)
FaultyEnqueue(e) ==
    IF Len(queue) >= MaxQueue
    THEN queue' = Tail(queue) /\ lost' = lost \cup {Head(queue)}
    ELSE queue' = Append(queue, e) /\ UNCHANGED lost

(* enqueueNotificationEvent in memory mode. *)
Enqueue(e) ==
    IF Len(queue) >= MaxQueue
    THEN queue' = Append(Tail(queue), e) /\ lost' = lost \cup {Head(queue)}
    ELSE queue' = Append(queue, e) /\ UNCHANGED lost

(* The rows are written; the handler clears the caches, queues its event and
   answers.  Clearing forgets computations under way without stopping them. *)
Answer(w) ==
    /\ tx[w].pc = "write"
    /\ tx' = [tx EXCEPT ![w].pc = "answered"]
    /\ LET gone == Clears(tx[w].doc.kind)
       IN  /\ cache'  = [k \in Key |-> IF k \in gone THEN None ELSE cache[k]]
           /\ flight' = [k \in Key |-> IF k \in gone THEN None ELSE flight[k]]
    /\ IF Announces(tx[w].doc.kind) THEN Enqueue(w) ELSE UNCHANGED <<queue, lost>>
    /\ UNCHANGED <<rest, sending, sent>>

Commit(w) ==
    /\ tx[w].pc = "answered"
    /\ tx' = [tx EXCEPT ![w].pc = "committed"]
    /\ book' = [book EXCEPT ![w] = tx[w].doc]
    /\ since' = [since EXCEPT ![w] = clock]
    /\ UNCHANGED <<cached, mail, clock, restarts>>

(* An error, the timeout or a failing COMMIT; what was cleared or queued is
   not restored. *)
RollBack(w) ==
    /\ tx[w].pc \in {"write", "answered"}
    /\ tx' = [tx EXCEPT ![w].pc = "rolledback"]
    /\ UNCHANGED <<cached, mail, rest>>

-----------------------------------------------------------------------------
(* Readers. *)

(* Fault: an entry is used whatever its age. *)
FaultyFresh(k) == cache[k] # None

Fresh(k) == cache[k] # None /\ cache[k].expires > clock

(* The maps: statements and dashboard share one, the list has its own. *)
MapOf(k) == IF k = "list" THEN {"list"} ELSE {"statements", "dashboard"}

CleanupExpired(k) ==
    cache' = [j \in Key |-> IF j \in MapOf(k) /\ ~ Fresh(j) THEN None ELSE cache[j]]

(* A request has its report; a snapshot has yet to be stored. *)
Stop(r, label, v) == [tx EXCEPT ![r].pc = label, ![r].value = v, ![r].at = clock,
                                ![r].start = IF label = "store" THEN @ ELSE 0,
                                ![r].own = {}, ![r].waits = None]

(* getCachedFinancialStatements or the list handler for the key k a request
   needs: the value at hand, the promise of another request, or a computation
   of its own that begins at label. *)
LookUp(t, k, label, hit) ==
    LET q == flight[k]
    IN  CASE Fresh(k)  -> [t EXCEPT !.pc = hit, !.value = cache[k].value, !.at = clock,
                                !.start = IF hit = "answered" THEN 0 ELSE clock]
          [] ~ Fresh(k) /\ q # None -> [t EXCEPT !.pc = IF hit = "open" THEN "open" ELSE "wait",
                                                 !.waits = [of |-> q, key |-> k]]
          [] OTHER     -> [t EXCEPT !.pc = label, !.own = @ \cup {k}]

Started(op) == [Blank("ask") EXCEPT !.op = op, !.start = clock, !.known = Committed]

(* A reader asks, as often as it likes; the dashboard, when it must be computed, asks for the
   statements at once. *)
Ask(r) ==
    /\ tx[r].pc \in {"idle", "answered", "failed"}
    /\ Cardinality(InFlight) < Concurrency
    /\ \E op \in Read :
        LET t == Started(op)
            nested == LookUp(t, "statements", "lines", "open")
            first == CASE op = "STATEMENTS" -> LookUp(t, "statements", "lines", "answered")
                       [] op = "LIST"       -> LookUp(t, "list", "rows", "answered")
                       [] op = "SNAPSHOT"   -> nested
                       [] OTHER -> IF Fresh("dashboard") \/ flight["dashboard"] # None
                                   THEN LookUp(t, "dashboard", "lines", "answered")
                                   ELSE [nested EXCEPT !.own = @ \cup {"dashboard"}]
        IN  /\ tx' = [tx EXCEPT ![r] = first]
            /\ flight' = [k \in Key |-> IF k \in first.own THEN r ELSE flight[k]]
            /\ CleanupExpired(IF op = "LIST" THEN "list" ELSE "statements")
    /\ UNCHANGED <<mail, rest>>

(* The statements have no open documents of their own. *)
Part(k, v) == IF k = "statements" THEN [v EXCEPT !.open = {}] ELSE v

(* The promise of r for each key of ks is fulfilled with v: the entries are
   set, the keys leave the in-flight map, whoever is there now, and those who
   wait go on. *)
Settle(r, ks, v, label) ==
    /\ cache' = [k \in Key |-> IF k \in ks THEN [value |-> Part(k, v), expires |-> clock + Ttl]
                               ELSE cache[k]]
    /\ flight' = [k \in Key |-> IF k \in ks THEN None ELSE flight[k]]
    /\ tx' = [q \in Req |->
                IF q = r THEN Stop(r, label, v)[r]
                ELSE IF tx[q].waits # None /\ tx[q].waits.of = r /\ tx[q].waits.key \in ks
                THEN [tx[q] EXCEPT !.waits = None,
                                   !.value = IF tx[q].waits.key = "statements"
                                             THEN [v EXCEPT !.open = tx[q].value.open] ELSE v,
                                   !.pc = IF tx[q].pc = "wait" THEN "resume" ELSE @]
                ELSE tx[q]]

(* The reports that combine the statements with open documents. *)
Composed(r) == tx[r].op \in {"DASHBOARD", "SNAPSHOT"}

(* computeStatements: the journal lines. *)
ReadLines(r) ==
    /\ tx[r].pc = "lines"
    /\ tx' = [tx EXCEPT ![r].value.lines = Committed,
                        ![r].pc = IF Composed(r) THEN "open" ELSE "rows"]
    /\ UNCHANGED <<cached, mail, rest>>

Outcome(r) == IF tx[r].op = "SNAPSHOT" THEN "store" ELSE "answered"

(* The open receivables and payables of a dashboard or a snapshot. *)
ReadOpen(r) ==
    /\ tx[r].pc = "open"
    /\ LET v == [tx[r].value EXCEPT !.open = Committed]
       IN  IF "statements" \in tx[r].own \/ tx[r].waits # None
           THEN /\ tx' = [tx EXCEPT ![r].value = v,
                                    ![r].pc = IF tx[r].waits # None THEN "wait" ELSE "rows"]
                /\ UNCHANGED cached
           ELSE Settle(r, tx[r].own, v, Outcome(r))
    /\ UNCHANGED <<mail, rest>>

(* The invoices and payroll runs, and the end of the computation. *)
ReadRows(r) ==
    /\ tx[r].pc = "rows"
    /\ Settle(r, tx[r].own, [tx[r].value EXCEPT !.rows = Committed], Outcome(r))
    /\ UNCHANGED <<mail, rest>>

(* A request goes on with the value it waited for. *)
Resume(r) ==
    /\ tx[r].pc = "resume"
    /\ Settle(r, tx[r].own, tx[r].value, Outcome(r))
    /\ UNCHANGED <<mail, rest>>

(* The snapshot row is written and committed. *)
StoreSnapshot(r) ==
    /\ tx[r].pc = "store"
    /\ tx' = Stop(r, "answered", tx[r].value)
    /\ UNCHANGED <<cached, mail, rest>>

(* The transaction of r ends before its reads do, or the promise it waited
   for was rejected: its own promises are rejected too. *)
Fail(r) ==
    /\ tx[r].pc \in {"lines", "open", "rows", "store", "broken"}
    /\ flight' = [k \in Key |-> IF k \in tx[r].own THEN None ELSE flight[k]]
    /\ tx' = [q \in Req |->
                IF q = r THEN Blank("failed")
                ELSE IF tx[q].waits # None /\ tx[q].waits.of = r /\ tx[q].waits.key \in tx[r].own
                THEN [tx[q] EXCEPT !.pc = "broken", !.waits = None]
                ELSE tx[q]]
    /\ UNCHANGED <<cache, mail, rest>>

-----------------------------------------------------------------------------
(* The notification worker, the clock and the process. *)

(* One tick takes one event; no tick runs while one is dispatching. *)
TickWorker ==
    /\ sending = None /\ queue # <<>>
    /\ sending' = Head(queue) /\ queue' = Tail(queue)
    /\ UNCHANGED <<tx, cached, rest, sent, lost>>

(* Fault: a tick whose dispatch fails does not clear isTickRunning. *)
FaultyDispatch ==
    /\ sending # None /\ \A i \in DOMAIN sent : sent[i] # sending
    /\ sent' = Append(sent, sending)
    /\ sending' \in {None, sending}
    /\ UNCHANGED <<tx, cached, rest, queue, lost>>

(* The channels have been tried; a failure is logged and not retried. *)
Dispatch ==
    /\ sending # None
    /\ sent' = Append(sent, sending)
    /\ sending' = None
    /\ UNCHANGED <<tx, cached, rest, queue, lost>>

(* Time passes; an open transaction is over after Limit, and continuations of
   settled promises run at once. *)
Tick ==
    /\ clock < MaxClock
    /\ \A r \in InDatabase : clock - tx[r].start < Limit
    /\ \A r \in Req : tx[r].pc \notin {"resume", "broken"}
    /\ clock' = clock + 1
    /\ UNCHANGED <<tx, cached, mail, book, since, restarts>>

(* The process stops and starts again: its memory is gone, its transactions
   roll back. *)
Restart ==
    /\ restarts < Restarts
    /\ restarts' = restarts + 1
    /\ cache' = [k \in Key |-> None] /\ flight' = [k \in Key |-> None]
    /\ queue' = <<>> /\ sending' = None
    /\ lost' = lost \cup {queue[i] : i \in DOMAIN queue} \cup ({sending} \ {None})
    /\ tx' = [r \in Req |-> IF r \in InFlight
                            THEN Blank(IF r \in Writers THEN "rolledback" ELSE "failed")
                            ELSE tx[r]]
    /\ UNCHANGED <<book, since, clock, sent>>

Next ==
    \/ \E w \in Writers : Submit(w) \/ Answer(w) \/ Commit(w) \/ RollBack(w)
    \/ \E r \in Readers : \/ Ask(r) \/ ReadLines(r) \/ ReadOpen(r) \/ ReadRows(r)
                          \/ Resume(r) \/ StoreSnapshot(r) \/ Fail(r)
    \/ TickWorker \/ Dispatch \/ Tick \/ Restart

Spec == Init /\ [][Next]_vars

(* The timer of the worker fires again and again, and the webhook calls have
   a timeout. *)
FairSpec == Spec /\ WF_vars(TickWorker) /\ WF_vars(Dispatch)

-----------------------------------------------------------------------------
(* The inductive invariant. *)

Label == {"idle", "write", "answered", "committed", "rolledback", "ask", "lines", "open",
          "rows", "wait", "resume", "broken", "store", "failed"}
Busy  == {"lines", "open", "rows", "wait", "resume", "broken"}

Transaction == [op : Read, pc : Label, doc : Document \cup {None}, start : Nat,
                known : SUBSET Writers, own : SUBSET Key,
                waits : [of : Readers, key : Key] \cup {None}, value : Report, at : Nat]

TypeOK ==
    /\ book \in [Writers -> Document \cup {None}]
    /\ since \in [Writers -> Nat]
    /\ cache \in [Key -> Entry \cup {None}]
    /\ flight \in [Key -> Readers \cup {None}]
    /\ tx \in [Req -> Transaction]
    /\ clock \in Nat /\ restarts \in Nat
    /\ queue \in Seq(Writers) /\ sent \in Seq(Writers)
    /\ sending \in Writers \cup {None} /\ lost \subseteq Writers

WriterFormed(w) ==
    LET t == tx[w]
    IN  /\ t.pc \in {"idle", "write", "answered", "committed", "rolledback"}
        /\ t.pc \in {"write", "answered"} => t.doc # None
        /\ t.pc = "committed" <=> book[w] # None
        /\ t.waits = None

(* Where a reader is, what it computes for itself, and what it waits for. *)
ReaderFormed(r) ==
    LET t == tx[r]
    IN  /\ t.pc \in Busy \cup {"idle", "store", "answered", "failed"}
        /\ t.known \subseteq Committed /\ t.at <= clock
        /\ t.pc \notin Busy => t.own = {} /\ t.waits = None
        /\ t.pc \in Busy \cup {"store"} => t.start <= clock /\ clock <= t.start + Limit
        /\ t.pc \in {"open", "store"} => Composed(r)
        /\ t.pc = "store" => t.op = "SNAPSHOT"
        /\ t.pc = "lines" => "statements" \in t.own
        /\ t.pc = "rows" => "statements" \in t.own \/ "list" \in t.own
        /\ t.pc = "wait" => t.waits # None
        /\ t.op = "LIST" => t.own \subseteq {"list"}
        /\ "list" \in t.own => t.op = "LIST" /\ t.pc = "rows"
        /\ "statements" \in t.own => t.pc \in {"lines", "open", "rows"}
        /\ "dashboard" \in t.own => t.op = "DASHBOARD"
        /\ t.op = "DASHBOARD" /\ t.pc \in {"lines", "open", "rows"} => "dashboard" \in t.own

(* A promise that is waited for is being computed, by a request no younger. *)
WaitFormed(r) ==
    LET t == tx[r]
        q == t.waits.of
        k == t.waits.key
    IN  t.waits # None =>
          /\ t.pc \in {"open", "wait"} /\ "statements" \notin t.own /\ "list" \notin t.own
          /\ k \in tx[q].own /\ tx[q].start <= t.start
          /\ k = "list" <=> t.op = "LIST"
          /\ k = "dashboard" <=> t.op = "DASHBOARD" /\ t.own = {}

Owned == \A k \in Key : flight[k] # None => k \in tx[flight[k]].own

(* The documents a report shows: those its every part has read. *)
Shows(op, v) == CASE op = "LIST"       -> v.rows
                  [] op = "STATEMENTS" -> v.lines \cap v.rows
                  [] OTHER             -> v.lines \cap v.rows \cap v.open
=============================================================================
