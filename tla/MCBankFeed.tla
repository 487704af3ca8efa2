----------------------------- MODULE MCBankFeed -----------------------------
(* A small instance of the bank feed for TLC. *)
EXTENDS BankFeed

CONSTANTS t1, t2, c1, a1, a2, m1, m2

(* One movement with an id and one without, on two accounts. *)
Movements2 == (m1 :> [account |-> a1, ident |-> TRUE, value |-> 5, debit |-> FALSE])
              @@ (m2 :> [account |-> a2, ident |-> FALSE, value |-> -7, debit |-> TRUE])

(* The usual window, one that begins late, one that ends early and one that is
   refused. *)
Windows == {<<Nil, Nil>>, <<2, Nil>>, <<Nil, 1>>, <<2, 1>>}

EveryAccount == [c \in Connection |-> Nil]

TaskSymmetry == Permutations(Task)

-----------------------------------------------------------------------------
(* Files that write 1234.50 in the ways banks do. *)

Plain  == <<1, 2, 3, 4>>
Number(text, paren) == [text |-> text, paren |-> paren, minus |-> FALSE]
Item(tag, mark, reversal, n, d) ==
    [tag |-> tag, mark |-> mark, reversal |-> reversal, number |-> n, day |-> d,
     info |-> IF tag = "86" THEN "text" ELSE Absent]
Zero   == Number(<<0>>, FALSE)

FileOf(content, ext, items, meant) ==
    [format |-> "AUTO", ext |-> ext, mime |-> Absent, content |-> content,
     items |-> items, meant |-> meant]

(* A reversal, a debit with a description and the balances in MT940; a zero and
   a debit in CAMT.053; parentheses in CSV; and a CSV under a wrong name. *)
Mt940 == FileOf("MT940", Absent,
    <<Item("60", "C", FALSE, Zero, 1),
      Item("61", "D", TRUE, Number(Plain \o <<Comma, 5>>, FALSE), 1),
      Item("61", "D", FALSE, Number(Plain \o <<Comma, 5, 0, 0>>, FALSE), 1),
      Item("86", "C", FALSE, Zero, 1),
      Item("62", "C", FALSE, Zero, 2)>>,
    <<[amount |-> 123450, info |-> Absent], [amount |-> -123450, info |-> "text"]>>)
Camt == FileOf("CAMT053", "CAMT053",
    <<Item("61", "C", FALSE, Zero, 1),
      Item("61", "D", FALSE, Number(Plain \o <<Dot, 5, 0>>, FALSE), 2)>>,
    <<[amount |-> -123450, info |-> Absent]>>)
Csv == FileOf("CSV", Absent,
    <<Item("61", "C", FALSE, Number(<<1, Dot, 2, 3, 4, Comma, 5, 0>>, TRUE), 1),
      Item("61", "C", FALSE, Number(<<1, Comma, 2, 3, 4, Dot, 5>>, FALSE), 1)>>,
    <<[amount |-> -123450, info |-> Absent], [amount |-> 123450, info |-> Absent]>>)
Misnamed == FileOf("CSV", "MT940", <<Item("61", "C", FALSE, Number(Plain, FALSE), 1)>>, <<>>)

Files == {Mt940, Camt, Csv, Misnamed}

-----------------------------------------------------------------------------
(* History: whether two tasks were ever in flight together, whether a user
   ever asked for a window that is not the usual one, and the latest first day
   of a first window. *)
VARIABLES crossed, chosen, since

history == <<crossed, chosen, since>>

(* From the start, or from a connection that was set up and has a token; one
   movement is already booked. *)
Linked == [status |-> "ACTIVE", token |-> TRUE, refresh |-> TRUE, cursor |-> Nil, synced |-> Nil]

FeedHistoryInit ==
    /\ \E start \in {Nil, Linked} :
         /\ conn = [c \in Connection |-> start]
         /\ statement = {} /\ line = {}
         /\ uploaded = [r \in Task |-> Nil] /\ run = [r \in Task |-> Nil]
         /\ booked = [m \in Movement |-> IF m = m2 THEN 1 ELSE Nil]
         /\ day = 1 /\ fired = 0 /\ due = {} /\ restarts = 0
         /\ task = [r \in Task |-> NewTask("idle")]
    /\ crossed = FALSE /\ chosen = FALSE /\ since = 0

(* Synchronisations that settle their window, and those of connections that
   have no cursor. *)
Opening == {r \in Task : task[r].pc = "read" /\ task'[r].pc = "token"}
First   == {r \in Opening : conn[task[r].conn].cursor = Nil}

FeedHistoryNext ==
    /\ FeedNext
    /\ crossed' = (crossed \/ Cardinality(Ongoing') > 1)
    /\ chosen' = (chosen \/ \E r \in Opening : <<task'[r].from, task'[r].to>> # <<DefaultFrom(conn[task[r].conn], day), day>>)
    /\ since' = Max({since} \cup {task'[r].from : r \in First})

FeedHistorySpec == FeedHistoryInit /\ [][FeedHistoryNext]_<<feedVars, history>>

(* Synchronisations that come one at a time import no movement twice, also
   when the process stops between two of their statements
   (readExistingExternalTransactionIds, importAccountTransactions). *)
SerialImportedOnce == ~crossed => ImportedOnce

(* However synchronisations overlap, fail or are cut, the cursor of a
   connection is never past a movement that is not in the books, unless a
   user chose a window that begins after it (resolveSyncWindow and the cursor
   runOpenBankingSync writes). *)
UnaskedNothingMissed ==
    ~chosen => \A c \in Connections : conn[c].cursor # Nil => NothingMissed(c, since)

(* The lines of an imported file are its movements, in order, with the amounts
   and descriptions the bank wrote, however it writes numbers. *)
FilesFaithful ==
    \A r \in Task : uploaded[r] # Nil =>
        LET got == uploaded[r].parsed.lines
        IN  [n \in DOMAIN got |-> [amount |-> got[n].amount, info |-> got[n].info]]
              = uploaded[r].file.meant

-----------------------------------------------------------------------------
(* What keeps the first two of these. *)

(* What a task is to write of a connection, at each of its stages. *)
Patches == {NoColumns} \cup [status : Status]
           \cup [status : Status, token : BOOLEAN, refresh : BOOLEAN]
           \cup [status : Status, cursor : Date, synced : Date]
           \cup ConnectionRow

StatementRow == [account : Account, day : 1..LastDay, by : Task]
LineRow      == [movement : Movement, by : Task, amount : Int]
ParsedFile   == {[file |-> f, parsed |-> parseBankStatementFile(f)] : f \in File}

Flag == BOOLEAN

FeedTask ==
    [op : {"CREATE", "STATUS", "TOKEN", "FILE", "SYNC", "DAILY"},
     pc : {"idle", "done"} \cup Stage, conn : Connection \cup {Nil}, file : ParsedFile \cup {Nil},
     token : Flag, refresh : Flag, from : 0..LastDay, to : 0..LastDay,
     todo : SUBSET Account, account : Account \cup {Nil}, batch : SUBSET Movement,
     fresh : SUBSET Movement, latest : Date, put : Patches, statements : SUBSET StatementRow,
     lines : SUBSET LineRow, run : {"RUNNING", "SUCCESS", "FAILED", Nil}]

FeedTypeOK ==
    /\ conn \in [Connection -> ConnectionRow \cup {Nil}]
    /\ statement \in SUBSET StatementRow /\ line \in SUBSET LineRow
    /\ day \in 1..LastDay /\ booked \in [Movement -> 1..day \cup {Nil}]
    /\ due \in SUBSET (Connections \X Date)
    /\ task \in [Task -> FeedTask]

RightAmount(l) == l.amount = parseTransactionAmount(Payload[l.movement])

(* A task works on a connection there is, a new one on none, and only a
   synchronisation gets as far as the bank; the movements it holds are booked. *)
TaskFormed(t) ==
    /\ t.pc \in {"idle", "done"} => t.put = NoColumns /\ t.lines = {} /\ t.statements = {}
    /\ t.pc \in Stage /\ t.op \notin {"CREATE", "FILE"} => t.conn \in Connections
    /\ t.pc \in Stage /\ t.op = "CREATE" => t.conn \in Connection
    /\ t.op = "CREATE" /\ t.put # NoColumns => t.put \in ConnectionRow /\ t.put.cursor = Nil
    /\ t.op = "FILE" => t.put = NoColumns
    /\ t.pc \in Stage \ {"write", "read", "answer"} => t.op \in {"SYNC", "DAILY"}
    /\ t.pc \in {"read", "token"} => t.latest = Nil
    /\ t.pc \in {"token", "fetch", "existing", "lines", "finish"} => t.to \in 1..LastDay
    /\ t.pc \in {"existing", "lines"} => t.account \in Account
    /\ t.batch \cup t.fresh \subseteq Booked
    /\ t.pc = "lines" => t.fresh # {}
    /\ \A l \in t.lines : RightAmount(l)

(* The movements of some accounts booked from one day to another that have an
   amount, and those among them a set of lines has. *)
BookedIn(accounts, lo, hi) ==
    {m \in Booked : Payload[m].account \in accounts /\ Payload[m].value # 0 /\ booked[m] \in lo..hi}

Entered(lines, m) == \E l \in lines : l.movement = m /\ RightAmount(l)

Covers(lines, accounts, lo, hi) == \A m \in BookedIn(accounts, lo, hi) : Entered(lines, m)

(* What a task has seen to, of the days from s on: all before its window, and in
   its window, but for its last day, the accounts that are done; of the account at
   hand what the batch holds or the lines have; all of it when the cursor moves. *)
SyncSound(t, s) ==
    LET seen == line \cup t.lines
        mine == pickAccounts(t.conn)
    IN  /\ t.pc \in {"token", "fetch", "existing", "lines", "finish"} =>
              /\ t.from <= t.to /\ t.to \in 1..day
              /\ Covers(seen, mine, s, t.from - 1)
        /\ t.pc \in {"fetch", "existing", "lines", "finish"} =>
              /\ Covers(seen, mine \ t.todo, t.from, t.to - 1)
              /\ t.latest # Nil => t.latest <= t.to
        /\ t.pc = "existing" =>
              /\ BookedIn({t.account}, t.from, t.to - 1) \subseteq t.batch
              /\ t.batch \subseteq BookedIn({t.account}, t.from, t.to)
        /\ t.pc = "lines" =>
              /\ \A m \in BookedIn({t.account}, t.from, t.to - 1) \ t.fresh : Entered(seen, m)
              /\ t.fresh \subseteq BookedIn({t.account}, t.from, t.to)
        /\ t.pc = "finish" => t.todo = {}
        /\ "cursor" \in DOMAIN t.put /\ t.put.cursor # Nil =>
              t.put.cursor <= day /\ Covers(seen, mine, s, t.put.cursor - 1)

CursorSound(c, s) ==
    conn[c].cursor # Nil =>
        conn[c].cursor <= day /\ Covers(line, pickAccounts(c), s, conn[c].cursor - 1)

(* What a task sees has no movement twice, and none of the movements it is
   about to insert. *)
OnceSound(t) ==
    /\ OnceIn(line \cup t.lines, statement \cup t.statements)
    /\ t.pc = "lines" =>
          \A m \in t.fresh : Payload[m].ident => \A l \in line \cup t.lines : l.movement # m

FeedInv ==
    /\ FeedTypeOK /\ IsFiniteSet(Ongoing)
    /\ crossed \in BOOLEAN /\ chosen \in BOOLEAN /\ since \in Int
    /\ \A r \in Task : TaskFormed(task[r])
    /\ \A l \in line : RightAmount(l)
    /\ ~chosen => /\ \A c \in Connections : CursorSound(c, since)
                  /\ \A r \in Task : SyncSound(task[r], since)
    /\ ~crossed => /\ \A p, q \in Ongoing : p = q
                   /\ ImportedOnce /\ \A r \in Task : OnceSound(task[r])
=============================================================================
