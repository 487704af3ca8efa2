------------------------------ MODULE BankFeed ------------------------------
(***************************************************************************)
(* Bank statements on their way in: open banking connections with their    *)
(* synchronisations, manual or daily, and uploaded statement files.        *)
(*                                                                         *)
(* A manual synchronisation runs in the transaction of its request.  The   *)
(* daily one has no request: each of its statements commits by itself, and *)
(* a restart of the process cuts it anywhere.  The bank is external: it    *)
(* books movements on the day they happen and answers or fails.            *)
(***************************************************************************)
EXTENDS BankFile, FiniteSets, TLC

CONSTANTS
    Task,         \* requests and daily synchronisations; each names what it inserts
    Connection,   \* open banking connections a user may set up
    Account,      \* accounts at the bank
    Selected,     \* externalAccountId of each connection, or Nil for every account
    Movement,     \* movements the bank will book
    Payload,      \* what the bank says of each: account, id or not, value, indicator
    File,         \* statement files a user may upload
    Window,       \* bound: first and last days, or Nil, a user may ask for
    LastDay,      \* bound: the days 1..LastDay
    Restarts,     \* bound: restarts of the process
    AtOnce,       \* bound: requests in flight at once
    ClientsDrop,  \* may clients drop the connection before the answer?
    Nil           \* null

Status   == {"PENDING", "ACTIVE", "ERROR", "DISABLED"}
Date     == (1..LastDay) \cup {Nil}
Stage    == {"write", "read", "token", "fetch", "existing", "lines",
             "finish", "success", "fail", "failed", "answer"}

(* The columns of a connection: which tokens it has, lastCursorDate and the day
   of its last success. *)
ConnectionRow == [status : Status, token : BOOLEAN, refresh : BOOLEAN, cursor : Date, synced : Date]

ASSUME BankFeedConstants ==
    /\ LastDay \in Nat \ {0} /\ Restarts \in Nat
    /\ Payload \in [Movement -> [account : Account, ident : BOOLEAN, value : Int, debit : BOOLEAN]]
    /\ Window \subseteq Date \X Date
    /\ Selected \in [Connection -> Account \cup {Nil}]
    /\ Nil \notin Int /\ Nil \notin ConnectionRow

VARIABLES
    conn,       \* OpenBankingConnection rows
    statement,  \* BankStatement rows made by synchronisations
    line,       \* their BankStatementLine rows
    uploaded,   \* statements made of uploaded files, with their lines
    run,        \* OpenBankingSyncRun rows: the status of each synchronisation
    booked,     \* at the bank: the day each movement was booked
    day,        \* today
    fired,      \* lastTriggeredHourKey: the day of the scheduler's last round
    due,        \* connections left in the scheduler's round, as it read them
    restarts,   \* restarts so far
    task        \* requests and daily synchronisations

rows == <<conn, statement, line, uploaded, run>>
feedVars == <<rows, booked, day, fired, due, restarts, task>>

-----------------------------------------------------------------------------
(* What the connector makes of the bank's answer. *)

(* parseTransactionAmount: the indicator decides the sign. *)
parseTransactionAmount(p) ==
    LET magnitude == IF p.value < 0 THEN -p.value ELSE p.value
    IN  IF p.debit THEN -magnitude ELSE magnitude

(* fetchTransactions: the movements of account a booked from one day to
   another; those without an amount are left out. *)
Booked == {m \in Movement : booked[m] # Nil}
parseTransactionsPayload(a, from, to) ==
    {m \in Booked : /\ Payload[m].account = a /\ Payload[m].value # 0
                    /\ booked[m] \in from..to}

pickAccounts(c) == IF Selected[c] = Nil THEN Account ELSE Account \cap {Selected[c]}

(* Fault: the next window begins after the day of the cursor. *)
FaultyDefaultFrom(row, to) == IF row.cursor # Nil THEN row.cursor + 1 ELSE to - 1

(* resolveSyncWindow: from the whole day of the cursor, or from yesterday. *)
DefaultFrom(row, to) == IF row.cursor # Nil THEN row.cursor ELSE to - 1

-----------------------------------------------------------------------------
Ongoing    == {r \in Task : task[r].pc \in Stage}
Connections == {c \in Connection : conn[c] # Nil}
Daily(r)    == task[r].op = "DAILY"
Syncing(r)  == task[r].op \in {"SYNC", "DAILY"}

NoColumns == [f \in {} |-> Nil]

NewTask(label) ==
    [op |-> "CREATE", pc |-> label, conn |-> Nil, file |-> Nil, token |-> FALSE, refresh |-> FALSE,
     from |-> 0, to |-> 0, todo |-> {}, account |-> Nil, batch |-> {}, fresh |-> {},
     latest |-> Nil, put |-> NoColumns, statements |-> {}, lines |-> {}, run |-> Nil]

FeedInit ==
    /\ conn = [c \in Connection |-> Nil]
    /\ statement = {} /\ line = {}
    /\ uploaded = [r \in Task |-> Nil]
    /\ run = [r \in Task |-> Nil]
    /\ booked = [m \in Movement |-> Nil]
    /\ day = 1 /\ fired = 0 /\ due = {} /\ restarts = 0
    /\ task = [r \in Task |-> NewTask("idle")]

World == <<booked, day, fired, due, restarts>>

(* A row, or what is to be written of one, with the columns of put replaced. *)
Patched(row, put) ==
    [f \in DOMAIN row \cup DOMAIN put |-> IF f \in DOMAIN put THEN put[f] ELSE row[f]]

(* The statements of r up to now reach the tables. *)
Apply(t, r) ==
    /\ conn' = IF DOMAIN t.put = {} THEN conn
               ELSE [conn EXCEPT ![t.conn] = IF t.op = "CREATE" THEN t.put ELSE Patched(@, t.put)]
    /\ statement' = statement \cup t.statements
    /\ line' = line \cup t.lines
    /\ uploaded' = IF t.op = "FILE" /\ t.pc = "answer" THEN [uploaded EXCEPT ![r] = t.file] ELSE uploaded
    /\ run' = IF t.run # Nil THEN [run EXCEPT ![r] = t.run] ELSE run

(* What is left of a daily synchronisation when its statements have committed. *)
Flushed(t) == [t EXCEPT !.put = NoColumns, !.statements = {}, !.lines = {}, !.run = Nil]

(* r goes on as t: a request keeps its writes to itself, each statement of a
   daily synchronisation commits. *)
Continue(r, t) ==
    /\ IF t.op = "DAILY" THEN /\ Apply(t, r)
                              /\ task' = [task EXCEPT ![r] = Flushed(t)]
       ELSE task' = [task EXCEPT ![r] = t] /\ UNCHANGED rows
    /\ UNCHANGED World

CloseTask(r)  == task' = [task EXCEPT ![r] = NewTask("done")]
RejectTask(r) == CloseTask(r) /\ UNCHANGED <<rows, World>>

(* An update waits for the transaction that has changed the row. *)
RowFree(r) == \A q \in Task \ {r} : DOMAIN task[q].put # {} => task[q].conn # task[r].conn

Stands(r, label) == task[r].pc = label

-----------------------------------------------------------------------------
(* A request arrives. *)

StartTask(r, t) ==
    /\ task[r].pc = "idle" /\ Cardinality(Ongoing) < AtOnce
    /\ Continue(r, t)

CreateConnection(r) ==
    \E c \in Connection :
        /\ c \notin Connections
        /\ \A q \in Ongoing : task[q].conn # c
        /\ StartTask(r, [NewTask("write") EXCEPT !.conn = c])

(* What a request asks for is chosen where it is read. *)
UpdateStatus(r) ==
    \E c \in Connections : StartTask(r, [NewTask("write") EXCEPT !.op = "STATUS", !.conn = c])

ExchangeToken(r) ==
    \E c \in Connections : StartTask(r, [NewTask("write") EXCEPT !.op = "TOKEN", !.conn = c])

SyncConnection(r) ==
    \E c \in Connections : StartTask(r, [NewTask("read") EXCEPT !.op = "SYNC", !.conn = c])

ImportFile(r) == StartTask(r, [NewTask("write") EXCEPT !.op = "FILE"])

-----------------------------------------------------------------------------
(* Requests with one write. *)

(* The ledger account of the connection may be missing or inactive. *)
WriteConnection(r) ==
    /\ task[r].op = "CREATE" /\ Stands(r, "write")
    /\ \/ Continue(r, [task[r] EXCEPT !.pc = "answer",
                        !.put = [status |-> "PENDING", token |-> FALSE, refresh |-> FALSE,
                                 cursor |-> Nil, synced |-> Nil]])
       \/ RejectTask(r)

(* A connection without a token cannot be made active. *)
WriteStatus(r) ==
    /\ task[r].op = "STATUS" /\ Stands(r, "write")
    /\ \/ /\ RowFree(r)
          /\ \E want \in {"ACTIVE", "DISABLED"} :
               /\ want = "ACTIVE" => conn[task[r].conn].token
               /\ Continue(r, [task[r] EXCEPT !.pc = "answer", !.put = [status |-> want]])
       \/ ~conn[task[r].conn].token /\ RejectTask(r)

(* The columns of a new token; the bank may or may not send a refresh token. *)
TokenColumns(refresh) == [status |-> "ACTIVE", token |-> TRUE, refresh |-> refresh]

(* With the code of an authorisation, or with the refresh token there is. *)
WriteToken(r) ==
    /\ task[r].op = "TOKEN" /\ Stands(r, "write")
    /\ \/ /\ RowFree(r)
          /\ \E code \in BOOLEAN, sent \in BOOLEAN :
               /\ code \/ conn[task[r].conn].refresh
               /\ Continue(r, [task[r] EXCEPT !.pc = "answer",
                             !.put = TokenColumns(sent \/ conn[task[r].conn].refresh)])
       \/ RejectTask(r)

(* importBankStatement of what the parser found; the ledger account may not
   exist. *)
WriteFile(r) ==
    /\ task[r].op = "FILE" /\ Stands(r, "write")
    /\ \/ \E f \in File :
            /\ parseBankStatementFile(f) # Refused
            /\ Continue(r, [task[r] EXCEPT !.pc = "answer",
                             !.file = [file |-> f, parsed |-> parseBankStatementFile(f)]])
       \/ RejectTask(r)

-----------------------------------------------------------------------------
(* runOpenBankingSync. *)

MaySync(row) == row.status # "DISABLED"

(* A manual synchronisation may name its first and its last day. *)
AskedWindow(r) == {w \in Window : Daily(r) => w = <<Nil, Nil>>}

ReadConnection(r) ==
    /\ Syncing(r) /\ Stands(r, "read")
    /\ \E asked \in AskedWindow(r) :
         LET row  == conn[task[r].conn]
             to   == IF asked[2] = Nil THEN day ELSE asked[2]
             from == IF asked[1] = Nil THEN DefaultFrom(row, to) ELSE asked[1]
         IN IF MaySync(row) /\ from <= to
            THEN Continue(r, [task[r] EXCEPT !.pc = "token", !.from = from, !.to = to,
                                          !.token = row.token, !.refresh = row.refresh,
                                          !.run = "RUNNING"])
            ELSE RejectTask(r)

(* The catch; what only the try needs is gone. *)
FailSync(r) ==
    Continue(r, [NewTask("fail") EXCEPT !.op = task[r].op, !.conn = task[r].conn, !.put = task[r].put,
                  !.statements = task[r].statements, !.lines = task[r].lines, !.run = task[r].run])

(* ensureAccessToken on the row as it was read: a token may still be good, and
   an old one is renewed.  Then the accounts are listed. *)
EnsureToken(r) ==
    /\ Stands(r, "token")
    /\ \/ /\ pickAccounts(task[r].conn) # {}
          /\ LET t == [task[r] EXCEPT !.pc = "fetch", !.token = FALSE, !.refresh = FALSE,
                                    !.todo = pickAccounts(task[r].conn)]
             IN \/ task[r].token /\ Continue(r, t)
                \/ /\ task[r].refresh /\ RowFree(r)
                   /\ Continue(r, [t EXCEPT !.put = TokenColumns(TRUE)])
       \/ FailSync(r)

FetchTransactions(r) ==
    /\ Stands(r, "fetch")
    /\ \/ \E a \in task[r].todo :
             Continue(r, [task[r] EXCEPT !.pc = "existing", !.account = a,
                           !.batch = parseTransactionsPayload(a, task[r].from, task[r].to)])
       \/ FailSync(r)

(* The next account, or the end of the synchronisation. *)
AccountDone(t) ==
    [t EXCEPT !.todo = @ \ {t.account}, !.batch = {}, !.fresh = {}, !.account = Nil,
              !.pc = IF t.todo = {t.account} THEN "finish" ELSE "fetch"]

Latest(old, ms) ==
    IF ms = {} THEN old ELSE Max({booked[m] : m \in ms} \cup ({old} \ {Nil}))

VisibleLines(r)      == line \cup task[r].lines
VisibleStatements(r) == statement \cup task[r].statements

(* Fault: the lines already there are not looked up. *)
FaultyFresh(r) == task[r].batch

(* Of the movements fetched, those without an id and those whose id no line
   has. *)
Fresh(r) ==
    {m \in task[r].batch : Payload[m].ident => \A l \in VisibleLines(r) : l.movement # m}

ReadExisting(r) ==
    /\ Stands(r, "existing")
    /\ IF Fresh(r) = {}
       THEN Continue(r, AccountDone([task[r] EXCEPT !.latest = Latest(@, task[r].batch)]))
       ELSE Continue(r, [task[r] EXCEPT !.pc = "lines", !.fresh = Fresh(r),
                                     !.latest = Latest(@, Fresh(r))])

(* One day of the fresh movements: its statement is found or made, and gets a
   line for each. *)
InsertLines(r) ==
    /\ Stands(r, "lines")
    /\ LET d    == Min({booked[m] : m \in task[r].fresh})
           ms   == {m \in task[r].fresh : booked[m] = d}
           old  == {s \in VisibleStatements(r) : s.account = task[r].account /\ s.day = d}
           rest == [task[r] EXCEPT
                      !.fresh = @ \ ms,
                      !.statements = @ \cup (IF old # {} THEN {}
                                             ELSE {[account |-> task[r].account, day |-> d, by |-> r]}),
                      !.lines = @ \cup {[movement |-> m, by |-> r,
                                         amount |-> parseTransactionAmount(Payload[m])] : m \in ms}]
       IN Continue(r, IF task[r].fresh = ms THEN AccountDone(rest) ELSE rest)

(* lastCursorDate: the latest movement, or the end of the window. *)
Cursor(t) == IF t.latest # Nil THEN t.latest ELSE t.to

FinishSync(r) ==
    /\ Stands(r, "finish") /\ RowFree(r)
    /\ LET put == [status |-> "ACTIVE", synced |-> day, cursor |-> Cursor(task[r])]
       IN Continue(r, [task[r] EXCEPT !.pc = "success", !.put = Patched(@, put)])

(* The end of a round of the try or of the catch: the run row, then, for a
   request, its answer. *)
EndRun(r, verdict) ==
    IF Daily(r)
    THEN /\ run' = [run EXCEPT ![r] = verdict]
         /\ CloseTask(r)
         /\ UNCHANGED <<conn, statement, line, uploaded, World>>
    ELSE Continue(r, [task[r] EXCEPT !.pc = "answer", !.run = verdict])

MarkSuccess(r) == Stands(r, "success") /\ EndRun(r, "SUCCESS")

(* The catch: what was imported stays, the connection is in error. *)
MarkError(r) ==
    /\ Stands(r, "fail") /\ RowFree(r)
    /\ Continue(r, [task[r] EXCEPT !.pc = "failed", !.put = Patched(@, [status |-> "ERROR"])])

MarkFailed(r) == Stands(r, "failed") /\ EndRun(r, "FAILED")

-----------------------------------------------------------------------------
(* The scheduler. *)

(* Once in the hour of the day, after a restart maybe again: the connections
   that are active or in error, with the day of their last success. *)
Tick ==
    /\ fired # day
    /\ fired' = day
    /\ due' = due \cup {<<c, conn[c].synced>> : c \in {k \in Connections : conn[k].status \in {"ACTIVE", "ERROR"}}}
    /\ UNCHANGED <<rows, booked, day, restarts, task>>

(* Twenty hours must have passed since the last one that succeeded: one of
   yesterday may have been too late. *)
NextDue(r) ==
    /\ \A q \in Ongoing : ~Daily(q)
    /\ \E p \in due :
         /\ due' = due \ {p}
         /\ UNCHANGED <<rows, booked, day, fired, restarts>>
         /\ \/ /\ p[2] # day
               /\ task[r].pc = "idle" /\ Cardinality(Ongoing) < AtOnce
               /\ task' = [task EXCEPT ![r] = [NewTask("read") EXCEPT !.op = "DAILY", !.conn = p[1]]]
            \/ p[2] \in {day, day - 1} /\ task' = task

-----------------------------------------------------------------------------
(* The bank and the calendar. *)

Book(m) ==
    /\ booked[m] = Nil
    /\ booked' = [booked EXCEPT ![m] = day]
    /\ UNCHANGED <<rows, day, fired, due, restarts, task>>

NextDay ==
    /\ day < LastDay
    /\ day' = day + 1
    /\ UNCHANGED <<rows, booked, fired, due, restarts, task>>

-----------------------------------------------------------------------------
(* The ends of a request. *)

CommitTask(r) ==
    /\ Stands(r, "answer") /\ ~Daily(r)
    /\ Apply(task[r], r) /\ CloseTask(r) /\ UNCHANGED World

(* The connection closes: what was written up to then is committed. *)
DropClient(r) ==
    /\ ClientsDrop /\ r \in Ongoing /\ ~Daily(r)
    /\ Apply(task[r], r) /\ CloseTask(r) /\ UNCHANGED World

(* The transaction fails or meets its time limit. *)
Abort(r) ==
    /\ r \in Ongoing /\ ~Daily(r)
    /\ CloseTask(r) /\ UNCHANGED <<rows, World>>

(* The process stops and starts: requests roll back, the daily synchronisation
   is gone with what it had committed, and so is the scheduler's memory.
   Without any of these a restart changes nothing. *)
Restart ==
    /\ restarts < Restarts /\ (fired # 0 \/ Ongoing # {})
    /\ restarts' = restarts + 1
    /\ task' = [r \in Task |-> IF r \in Ongoing THEN NewTask("done") ELSE task[r]]
    /\ fired' = 0 /\ due' = {}
    /\ UNCHANGED <<rows, booked, day>>

Begin(r) ==
    \/ CreateConnection(r) \/ UpdateStatus(r) \/ ExchangeToken(r)
    \/ SyncConnection(r) \/ ImportFile(r)

Sync(r) ==
    \/ ReadConnection(r) \/ EnsureToken(r) \/ FetchTransactions(r)
    \/ ReadExisting(r) \/ InsertLines(r) \/ FinishSync(r) \/ MarkSuccess(r)
    \/ MarkError(r) \/ MarkFailed(r)

FeedNext ==
    \/ \E r \in Task : \/ Begin(r) \/ WriteConnection(r) \/ WriteStatus(r) \/ WriteToken(r)
                      \/ WriteFile(r) \/ Sync(r) \/ CommitTask(r) \/ DropClient(r) \/ Abort(r)
                      \/ NextDue(r)
    \/ Tick \/ NextDay \/ Restart
    \/ \E m \in Movement : Book(m)

FeedSpec == FeedInit /\ [][FeedNext]_feedVars

-----------------------------------------------------------------------------
(* Properties. *)

(* A movement with an id has one line, and the movements of an account and a
   day are under one statement: readExistingExternalTransactionIds and the
   findFirst on BankStatement see to that, there is no unique key. *)
OnceIn(lines, statements) ==
    /\ \A k, l \in lines : k.movement = l.movement /\ Payload[k.movement].ident => k = l
    /\ \A s, t \in statements : s.account = t.account /\ s.day = t.day => s = t

ImportedOnce == OnceIn(line, statement)

(* What the windows of a connection have passed is in the books, with its
   amount: since is the first day any window covered. *)
NothingMissed(c, since) ==
    \A m \in Booked :
        /\ Payload[m].account \in pickAccounts(c) /\ Payload[m].value # 0
        /\ conn[c].cursor # Nil
        /\ booked[m] \in since..(conn[c].cursor - 1)
        => \E l \in line : l.movement = m /\ l.amount = parseTransactionAmount(Payload[m])
=============================================================================
