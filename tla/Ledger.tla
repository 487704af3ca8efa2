------------------------------- MODULE Ledger -------------------------------
(***************************************************************************)
(* The journal, the accounting periods and the requests that change them.  *)
(*                                                                         *)
(* Every API request runs inside one READ COMMITTED PostgreSQL transaction *)
(* that bindDbRequestContext opens before the handler and commits once the *)
(* response is finished or its connection closed.  A handler is split into *)
(* one step per statement it awaits: what it read is kept in tx[r], what   *)
(* it wrote is visible to nobody before Commit or Disconnect, and an       *)
(* update or a unique key waits for the transaction that holds it.         *)
(*                                                                         *)
(* A request runs once, so a note is identified by the request that        *)
(* inserts it.                                                             *)
(***************************************************************************)
EXTENDS DoubleEntry, FiniteSets

CONSTANTS
    Req,          \* requests
    Period,       \* accounting periods ("2026-02")
    Year,         \* years of the numbering series "NC-<year>-"
    InputLines,   \* line sets a user may type for a manual note
    PostedLines,  \* line sets the posting handlers may compute
    PadMax,       \* largest sequence that fits padStart(6, '0')
    Concurrency,  \* bound: requests in flight at once
    Disconnects,  \* may clients drop the connection before the answer?
    None

Op == {"CREATE", "POST", "VALIDATE", "STORNO", "CLOSE", "REOPEN"}
Inserting == {"CREATE", "POST", "STORNO"}
Switching == {"CLOSE", "REOPEN"}

Running  == {"source", "period", "number", "insert", "update",
             "count", "lock", "sweep", "audit", "answered"}
Finished == {"committed", "cut", "rejected", "rolledback"}

Entry == [st : {"DRAFT", "VALIDATED", "CLOSED"}, per : Period, year : Year,
          num : Nat, rev : Req \cup {None}, lines : Seq(Line)]

ASSUME LedgerConstants ==
    /\ None \notin Req /\ None \notin Entry /\ None \notin Year \X Nat
    /\ Period # {} /\ Year # {}
    /\ PadMax \in Nat \ {0}
    /\ Concurrency \in Nat \ {0}
    /\ Disconnects \in BOOLEAN
    /\ InputLines \subseteq Seq(Line)
    /\ PostedLines \subseteq Seq(Line)

VARIABLES
    period,  \* committed AccountingPeriod rows (no row means OPEN)
    entry,   \* committed JournalEntry rows, by inserting request
    audit,   \* requests with a committed audit row
    tx       \* the request transactions

vars == <<period, entry, audit, tx>>

Transaction == [op : Op, pc : {"idle"} \cup Running \cup Finished,
                per : Period, year : Year, src : Req \cup {None},
                lines : Seq(Line), num : Nat, touched : SUBSET Req]

TypeOK ==
    /\ period \in [Period -> {"OPEN", "CLOSED"}]
    /\ entry \in [Req -> Entry \cup {None}]
    /\ audit \in SUBSET Req
    /\ tx \in [Req -> Transaction]

-----------------------------------------------------------------------------
Committed == {r \in Req : entry[r] # None}
InFlight  == {r \in Req : tx[r].pc \in Running}

(* Sequence numbers taken in the series of year y. *)
Numbers(y) == {entry[r].num : r \in {q \in Committed : entry[q].year = y}}

(* Fault: numbers compared as integers. *)
FaultyLead(n) == n

(* Numbers are compared as text: six digits, then a seventh. *)
Lead(n) == IF n > PadMax THEN n \div 10 ELSE n
LexLeq(m, n) == Lead(m) < Lead(n) \/ (Lead(m) = Lead(n) /\ m <= n)

NextJournalEntryNumber(y) ==
    IF Numbers(y) = {} THEN 1
    ELSE 1 + CHOOSE n \in Numbers(y) : \A m \in Numbers(y) : LexLeq(m, n)

(* The uncommitted writes of r. *)
HasRow(r) == tx[r].op \in Inserting /\ tx[r].pc \in {"audit", "answered"}
HoldsPeriod(r, p) == /\ tx[r].op \in Switching /\ tx[r].per = p
                     /\ tx[r].pc \in {"sweep", "audit", "answered"}
HoldsEntry(r, e) == tx[r].pc \in {"audit", "answered"} /\ e \in tx[r].touched

ReversalOf(r) == IF tx[r].op = "STORNO" THEN tx[r].src ELSE None

NewRow(r) == [st    |-> IF tx[r].op = "CREATE" THEN "DRAFT" ELSE "VALIDATED",
              per   |-> tx[r].per, year |-> tx[r].year, num |-> tx[r].num,
              rev   |-> ReversalOf(r), lines |-> tx[r].lines]

(* The unique keys (company, number) and (reversalOfEntryId). *)
SameKey(r, e) == \/ e.year = tx[r].year /\ e.num = tx[r].num
                 \/ e.rev # None /\ e.rev = ReversalOf(r)

-----------------------------------------------------------------------------
(* A transaction that holds nothing. *)
Blank(label) == [op |-> "CREATE", pc |-> label,
                 per |-> CHOOSE p \in Period : TRUE, year |-> CHOOSE y \in Year : TRUE,
                 src |-> None, lines |-> <<>>, num |-> 0, touched |-> {}]

Init ==
    /\ period = [p \in Period |-> "OPEN"]
    /\ entry = [r \in Req |-> None]
    /\ audit = {}
    /\ tx = [r \in Req |-> Blank("idle")]

Goto(r, label) == tx' = [tx EXCEPT ![r].pc = label]
End(r, label)  == tx' = [tx EXCEPT ![r] = Blank(label)]

(* An HttpError: the handler stops, the error handler answers, and the
   transaction is committed as it stands; no ledger handler throws one
   after its first write. *)
Reject(r) == End(r, "rejected")

(* A PostgreSQL error leaves nothing to commit. *)
RollBack(r) == End(r, "rolledback")

-----------------------------------------------------------------------------
(* A request arrives. *)

Start(r, t) ==
    /\ tx[r].pc = "idle"
    /\ Cardinality(InFlight) < Concurrency
    /\ tx' = [tx EXCEPT ![r] = t]
    /\ UNCHANGED <<period, entry, audit>>

CreateEntry(r) ==
    \E p \in Period, y \in Year, l \in InputLines :
        /\ ValidateDoubleEntry(l)
        /\ Start(r, [Blank("period") EXCEPT !.op = "CREATE", !.per = p, !.year = y,
                                            !.lines = Stored(l)])

PostEntry(r) ==
    \E p \in Period, y \in Year, l \in PostedLines :
        Start(r, [Blank("period") EXCEPT !.op = "POST", !.per = p, !.year = y,
                                         !.lines = Stored(l)])

ValidateEntry(r) ==
    \E s \in Committed :
        Start(r, [Blank("source") EXCEPT !.op = "VALIDATE", !.per = entry[s].per, !.src = s])

StornoEntry(r) ==
    \E p \in Period, y \in Year, s \in Committed :
        Start(r, [Blank("source") EXCEPT !.op = "STORNO", !.per = p, !.year = y, !.src = s])

ClosePeriod(r) ==
    \E p \in Period : Start(r, [Blank("count") EXCEPT !.op = "CLOSE", !.per = p])

ReopenPeriod(r) ==
    \E p \in Period : Start(r, [Blank("lock") EXCEPT !.op = "REOPEN", !.per = p])

-----------------------------------------------------------------------------
(* The statements of the handlers. *)

(* Fault: the stored lines are not validated again. *)
FaultyReadDraft(r) ==
    /\ tx[r].pc = "source" /\ tx[r].op = "VALIDATE"
    /\ IF entry[tx[r].src].st = "DRAFT" THEN Goto(r, "period") ELSE Reject(r)
    /\ UNCHANGED <<period, entry, audit>>

ReadDraft(r) ==
    /\ tx[r].pc = "source" /\ tx[r].op = "VALIDATE"
    /\ LET e == entry[tx[r].src]
       IN IF e.st = "DRAFT" /\ ValidateDoubleEntry(e.lines)
          THEN Goto(r, "period")
          ELSE Reject(r)
    /\ UNCHANGED <<period, entry, audit>>

(* The source and its storno are read by two statements; one step is enough,
   since nothing that is read of a posted note ever changes. *)
ReadStornoSource(r) ==
    /\ tx[r].pc = "source" /\ tx[r].op = "STORNO"
    /\ LET e == entry[tx[r].src]
       IN IF /\ e.st # "DRAFT"
             /\ e.rev = None
             /\ \A q \in Committed : entry[q].rev # tx[r].src
          THEN tx' = [tx EXCEPT ![r].pc = "period", ![r].lines = Reversed(e.lines)]
          ELSE Reject(r)
    /\ UNCHANGED <<period, entry, audit>>

AssertPeriodOpen(r) ==
    /\ tx[r].pc = "period"
    /\ IF period[tx[r].per] = "CLOSED" THEN Reject(r)
       ELSE Goto(r, IF tx[r].op = "VALIDATE" THEN "update" ELSE "number")
    /\ UNCHANGED <<period, entry, audit>>

ReadNumber(r) ==
    /\ tx[r].pc = "number"
    /\ tx' = [tx EXCEPT ![r].pc = "insert",
                        ![r].num = NextJournalEntryNumber(tx[r].year)]
    /\ UNCHANGED <<period, entry, audit>>

(* Fault: no unique key on the number. *)
FaultyInsertEntry(r) ==
    /\ tx[r].pc = "insert"
    /\ Goto(r, "audit")
    /\ UNCHANGED <<period, entry, audit>>

(* Fault: the insert is tried again with the number it already has. *)
RetryingInsertEntry(r) ==
    /\ tx[r].pc = "insert"
    /\ \A q \in Req \ {r} : HasRow(q) => ~SameKey(r, NewRow(q))
    /\ \A q \in Committed : ~SameKey(r, entry[q])
    /\ Goto(r, "audit")
    /\ UNCHANGED <<period, entry, audit>>

(* The insert waits for a transaction that holds one of its keys, and fails
   with P2002 when a committed row has one. *)
InsertEntry(r) ==
    /\ tx[r].pc = "insert"
    /\ \A q \in Req \ {r} : HasRow(q) => ~SameKey(r, NewRow(q))
    /\ IF \E q \in Committed : SameKey(r, entry[q]) THEN RollBack(r) ELSE Goto(r, "audit")
    /\ UNCHANGED <<period, entry, audit>>

UpdateEntry(r) ==
    /\ tx[r].pc = "update"
    /\ \A q \in Req \ {r} : ~HoldsEntry(q, tx[r].src)
    /\ tx' = [tx EXCEPT ![r].pc = "audit", ![r].touched = {tx[r].src}]
    /\ UNCHANGED <<period, entry, audit>>

(* Fault: drafts do not keep a period open. *)
FaultyCountDrafts(r) ==
    /\ tx[r].pc = "count"
    /\ Goto(r, "lock")
    /\ UNCHANGED <<period, entry, audit>>

CountDrafts(r) ==
    /\ tx[r].pc = "count"
    /\ IF \E e \in Committed : entry[e].per = tx[r].per /\ entry[e].st = "DRAFT"
       THEN Reject(r) ELSE Goto(r, "lock")
    /\ UNCHANGED <<period, entry, audit>>

UpsertPeriod(r) ==
    /\ tx[r].pc = "lock"
    /\ \A q \in Req \ {r} : ~HoldsPeriod(q, tx[r].per)
    /\ Goto(r, "sweep")
    /\ UNCHANGED <<period, entry, audit>>

(* updateMany over the notes of the period in the opposite status. *)
SweepEntries(r) ==
    /\ tx[r].pc = "sweep"
    /\ LET from == IF tx[r].op = "CLOSE" THEN "VALIDATED" ELSE "CLOSED"
           rows == {e \in Committed : entry[e].per = tx[r].per /\ entry[e].st = from}
       IN /\ \A q \in Req \ {r}, e \in rows : ~HoldsEntry(q, e)
          /\ tx' = [tx EXCEPT ![r].pc = "audit", ![r].touched = rows]
    /\ UNCHANGED <<period, entry, audit>>

(* writeAudit, then res.json: the client has its answer before the commit. *)
Answer(r) ==
    /\ tx[r].pc = "audit"
    /\ Goto(r, "answered")
    /\ UNCHANGED <<period, entry, audit>>

-----------------------------------------------------------------------------
(* The end of the request transaction. *)

(* Fault: reopening a period sends its notes back to DRAFT. *)
FaultyPersist(r) ==
    /\ entry' = [e \in Req |->
                    IF e = r /\ HasRow(r) THEN NewRow(r)
                    ELSE IF HoldsEntry(r, e)
                    THEN [entry[e] EXCEPT !.st = CASE tx[r].op = "CLOSE" -> "CLOSED"
                                                   [] tx[r].op = "REOPEN" -> "DRAFT"
                                                   [] OTHER -> "VALIDATED"]
                    ELSE entry[e]]
    /\ period' = [p \in Period |->
                    IF ~HoldsPeriod(r, p) THEN period[p]
                    ELSE IF tx[r].op = "CLOSE" THEN "CLOSED" ELSE "OPEN"]
    /\ audit' = audit

(* COMMIT of whatever r has written so far. *)
Persist(r) ==
    /\ entry' = [e \in Req |->
                    IF e = r /\ HasRow(r) THEN NewRow(r)
                    ELSE IF HoldsEntry(r, e)
                    THEN [entry[e] EXCEPT !.st = IF tx[r].op = "CLOSE" THEN "CLOSED"
                                                                       ELSE "VALIDATED"]
                    ELSE entry[e]]
    /\ period' = [p \in Period |->
                    IF ~HoldsPeriod(r, p) THEN period[p]
                    ELSE IF tx[r].op = "CLOSE" THEN "CLOSED" ELSE "OPEN"]
    /\ audit' = IF tx[r].pc = "answered" THEN audit \cup {r} ELSE audit

Commit(r) ==
    /\ tx[r].pc = "answered"
    /\ Persist(r)
    /\ End(r, "committed")

(* The connection closes before the answer: waitForResponseClose returns,
   the transaction commits, and the handler's later statements fail. *)
Disconnect(r) ==
    /\ Disconnects
    /\ r \in InFlight /\ tx[r].pc # "answered"
    /\ Persist(r)
    /\ End(r, "cut")

(* The five-second limit of an interactive transaction, a lost database
   connection or a crash of the server. *)
Timeout(r) ==
    /\ r \in InFlight
    /\ RollBack(r)
    /\ UNCHANGED <<period, entry, audit>>

-----------------------------------------------------------------------------
Arrive(r) == \/ CreateEntry(r) \/ PostEntry(r) \/ ValidateEntry(r)
             \/ StornoEntry(r) \/ ClosePeriod(r) \/ ReopenPeriod(r)

Advance(r) == \/ ReadDraft(r) \/ ReadStornoSource(r) \/ AssertPeriodOpen(r)
              \/ ReadNumber(r) \/ InsertEntry(r) \/ UpdateEntry(r)
              \/ CountDrafts(r) \/ UpsertPeriod(r) \/ SweepEntries(r)
              \/ Answer(r) \/ Commit(r)

Fail(r) == Disconnect(r) \/ Timeout(r)

(* Every request has been served. *)
Quiescent == (\A r \in Req : tx[r].pc \in Finished) /\ UNCHANGED vars

Next == (\E r \in Req : Arrive(r) \/ Advance(r) \/ Fail(r)) \/ Quiescent

Spec == Init /\ [][Next]_vars

-----------------------------------------------------------------------------
(* Properties. *)

Posted(r) == r \in Committed /\ entry[r].st # "DRAFT"

(* No two notes of a year share a number although each request takes
   max + 1 from its own snapshot (nextJournalEntryNumber). *)
UniqueNumbers ==
    \A r, q \in Committed :
        entry[r].year = entry[q].year /\ entry[r].num = entry[q].num => r = q

(* The series of a year has no gap: a number is only ever given to the note
   after all smaller ones are committed, whatever rolls back in between. *)
GaplessNumbers ==
    \A r \in Committed : 1 .. entry[r].num \subseteq Numbers(entry[r].year)

(* The text ordering of nextJournalEntryNumber lets a series go one past six
   digits and no further. *)
SeriesSaturates == \A r \in Committed : entry[r].num <= PadMax + 1

(* A note is reversed at most once, only when posted, and never when it is
   itself a storno, with concurrent storno requests. *)
StornoSound ==
    \A r \in Committed : entry[r].rev # None =>
        /\ Posted(entry[r].rev)
        /\ entry[entry[r].rev].rev = None
        /\ entry[r].lines = Reversed(entry[entry[r].rev].lines)
        /\ \A q \in Committed : entry[q].rev = entry[r].rev => q = r

(* What is posted balances to the cent as stored, although totals are
   compared before the columns round each line. *)
PostedBalances == \A r \in Committed : Posted(r) => Balanced(entry[r].lines)

(* A closed period holds only CLOSED notes. *)
ClosedPeriodSettled ==
    \A r \in Committed : period[entry[r].per] = "CLOSED" => entry[r].st = "CLOSED"

(* An open period holds no CLOSED note: close and reopen exclude each other
   through the period row they both write first. *)
OpenPeriodUnsealed ==
    \A r \in Committed : entry[r].st = "CLOSED" => period[entry[r].per] = "CLOSED"

KeepsPosted ==
    \A r \in Req : Posted(r) => /\ Posted(r)'
                                /\ entry'[r] = [entry[r] EXCEPT !.st = entry'[r].st]

(* A note that was posted stays posted, under the same number and period,
   with the same lines, whatever is retried or reopened. *)
PostingIsFinal == [][KeepsPosted]_vars

(* While requests are running one of them can take its next step without a
   failure: waits for unique keys, notes and the period row never form a
   cycle. *)
NoStandstill == InFlight # {} => \E r \in InFlight : ENABLED Advance(r)

(* The register the committed rows amount to: a storno names the note it
   reverses by its number. *)
View(r) ==
    [year |-> entry[r].year, num |-> entry[r].num, per |-> entry[r].per,
     lines |-> entry[r].lines, st |-> entry[r].st,
     rev |-> IF entry[r].rev = None THEN None
             ELSE <<entry[entry[r].rev].year, entry[entry[r].rev].num>>]

Book == {View(r) : r \in Committed}

Reg == INSTANCE Register WITH book <- Book

(* Whatever interleaves, times out or is cut, users see one register in
   which notes are entered one by one under the next number, stornos are
   unique, and posted notes change nothing but their status. *)
ImplementsRegister == Reg!Spec
-----------------------------------------------------------------------------
(* The inductive invariant behind the safety properties. *)

(* The step a handler is at tells which handler it is. *)
PcMatchesOp ==
    \A r \in Req :
        /\ tx[r].pc = "source" => tx[r].op \in {"VALIDATE", "STORNO"}
        /\ tx[r].pc = "period" => tx[r].op \notin Switching
        /\ tx[r].pc \in {"number", "insert"} => tx[r].op \in Inserting
        /\ tx[r].pc = "update" => tx[r].op = "VALIDATE"
        /\ tx[r].pc \in {"count", "lock", "sweep"} => tx[r].op \in Switching

(* A transaction refers only to committed notes, and inserts its own once. *)
References ==
    \A r \in Req :
        /\ tx[r].touched \subseteq Committed
        /\ tx[r].pc \in Running /\ tx[r].op \in {"VALIDATE", "STORNO"}
              => tx[r].src \in Committed
        /\ tx[r].pc \in Running \cup {"idle"} => entry[r] = None

(* Every number below the one a request read is committed already. *)
NumbersRead ==
    \A r \in Req :
        tx[r].op \in Inserting /\ tx[r].pc \in {"insert", "audit", "answered"}
          => /\ tx[r].num \in 1 .. (PadMax + 1)
             /\ 1 .. (tx[r].num - 1) \subseteq Numbers(tx[r].year)

(* An uncommitted row conflicts with no other row. *)
RowsFresh ==
    \A r \in Req : HasRow(r) =>
        /\ \A q \in Committed : ~SameKey(r, entry[q])
        /\ \A q \in Req \ {r} : HasRow(q) => ~SameKey(r, NewRow(q))

(* The note a storno request reverses stays what it was when it was read. *)
StornoRead ==
    \A r \in Req :
        tx[r].op = "STORNO" /\ tx[r].pc \in {"period", "number", "insert", "audit", "answered"}
          => /\ Posted(tx[r].src)
             /\ entry[tx[r].src].rev = None
             /\ tx[r].lines = Reversed(entry[tx[r].src].lines)

(* A request posts balanced lines only. *)
BalanceRead ==
    \A r \in Req :
        /\ tx[r].op = "POST" /\ tx[r].pc \in Running => Balanced(tx[r].lines)
        /\ tx[r].op = "VALIDATE" /\ tx[r].pc \in {"period", "update"}
              => Balanced(entry[tx[r].src].lines)
        /\ \A e \in tx[r].touched : Balanced(entry[e].lines)

(* A request rewrites the status of no note, of the one it validates, or of
   notes that were posted when it swept them. *)
TouchedKnown ==
    \A r \in Req :
        /\ tx[r].op \in Inserting => tx[r].touched = {}
        /\ tx[r].op = "VALIDATE" => tx[r].touched \subseteq {tx[r].src}
        /\ tx[r].op \in Switching => \A e \in tx[r].touched : Posted(e)

NumberInv  == TypeOK /\ PcMatchesOp /\ References /\ NumbersRead /\ RowsFresh
                     /\ UniqueNumbers /\ GaplessNumbers /\ SeriesSaturates
StornoInv  == NumberInv /\ StornoRead /\ StornoSound
RegisterInv == StornoInv /\ TouchedKnown
BalanceInv == StornoInv /\ BalanceRead /\ PostedBalances

-----------------------------------------------------------------------------
(* What the accounting periods rest on. *)

(* A request rewrites notes of its own period only, and a reopening rewrites
   every CLOSED note of it. *)
PeriodRead(t) ==
    /\ t.op = "VALIDATE" /\ t.pc \in Running => entry[t.src].per = t.per
    /\ t.op \in Switching => \A e \in t.touched : entry[e].per = t.per
    /\ t.op = "REOPEN" /\ t.pc \in {"audit", "answered"} =>
          \A e \in Committed :
              entry[e].per = t.per /\ entry[e].st = "CLOSED" => e \in t.touched

(* One request at a time holds the row of a period. *)
PeriodsExclusive ==
    \A r, q \in Req : \A p \in Period : HoldsPeriod(r, p) /\ HoldsPeriod(q, p) => r = q

(* What a handler concluded from its reads is still true of the committed
   rows: the period it enters or validates a note in is open, the period it
   closes has no draft, and in the end no note it leaves out.  Other requests
   may spoil it. *)
Current(t) ==
    /\ t.op \notin Switching /\ t.pc \in {"number", "insert", "update", "audit", "answered"} =>
          period[t.per] = "OPEN"
    /\ t.op = "CLOSE" /\ t.pc \in {"lock", "sweep"} =>
          \A e \in Committed : entry[e].per = t.per => entry[e].st # "DRAFT"
    /\ t.op = "CLOSE" /\ t.pc \in {"audit", "answered"} =>
          \A e \in Committed : entry[e].per = t.per => e \in t.touched \/ entry[e].st = "CLOSED"
=============================================================================
