------------------------------ MODULE MonthEnd ------------------------------
(***************************************************************************)
(* The two monthly runs, payroll and depreciation, with the employees and  *)
(* fixed assets they read and the journal notes they post.                 *)
(*                                                                         *)
(* Requests, their transactions and the ways these end are those of Ledger *)
(* and Stock.  Amounts are whole cents, as the Decimal(18, 2) columns hold *)
(* them; months are numbered.  Whether a period is closed is the business  *)
(* of Ledger: here assertPeriodOpen may refuse at any time.                *)
(***************************************************************************)
EXTENDS DoubleEntry, Integers, FiniteSets, FiniteSetsExt

CONSTANTS
    Call,         \* requests; a request names the row it inserts
    Month,        \* months for which something is run
    Salary,       \* contracts: gross salary, personal deduction, active or not
    FixedAsset,   \* assets a user may register
    Width,        \* bound: requests in flight at once
    CallsDrop,    \* may clients drop the connection before the answer?
    Nothing

CallKind == {"EMPLOYEE", "ASSET", "PAYROLL", "DEPRECIATE"}
Phase    == {"write", "check", "read", "number", "note", "run", "answer"}
Answered == {"committed", "cut", "rejected", "rolledback"}

ASSUME MonthEndConstants ==
    /\ Month \subseteq Nat
    /\ Salary \subseteq [gross : Nat \ {0}, deduction : Nat, active : BOOLEAN]
    /\ FixedAsset \subseteq [value : Nat, residual : Nat, life : Nat \ {0}, start : Nat,
                             method : {"LINEAR", "DEGRESSIVE", "ACCELERATED"}]

(* What a note, the line of an employee and a payroll keep. *)
NoteRow    == [op : CallKind, month : Month, no : Nat, lines : Seq([debit : Int, credit : Int])]
PayRow     == [employee : Call, gross : Nat, cas : Nat, cass : Nat, tax : Nat, cam : Nat, net : Int]
PayrollRow == [month : Month, pay : SUBSET PayRow, posted : BOOLEAN]

ASSUME NothingIsNoRow ==
    Nothing \notin Salary \cup FixedAsset \cup NoteRow \cup PayrollRow

VARIABLES
    employee,  \* committed Employee rows
    asset,     \* committed Asset rows
    payroll,   \* committed PayrollRun rows with their lines
    record,    \* committed AssetDepreciation rows, as a set
    note,      \* committed journal notes of the two modules
    work       \* the request transactions

monthVars == <<employee, asset, payroll, record, note, work>>

-----------------------------------------------------------------------------
(* Arithmetic. *)

(* round2 of the quotient a / b of two amounts that are not negative. *)
RoundedShare(a, b) == (2 * a + b) \div (2 * b)

NotBelow(x, low) == IF x < low THEN low ELSE x
NotAbove(x, high) == IF x > high THEN high ELSE x

(* The line of employee e, with contract s, in a payroll. *)
PayLine(e, s) ==
    LET cas  == RoundedShare(25 * s.gross, 100)
        cass == RoundedShare(10 * s.gross, 100)
        tax  == RoundedShare(NotBelow(s.gross - cas - cass - s.deduction, 0), 10)
    IN  [employee |-> e, gross |-> s.gross, cas |-> cas, cass |-> cass, tax |-> tax,
         cam |-> RoundedShare(225 * s.gross, 10000),
         net |-> s.gross - cas - cass - tax]

(* totals: of field f over the lines of a run. *)
TotalOf(lines, f) == SumFunction([l \in lines |-> l[f]])

PayrollLines(lines) ==
    <<D(TotalOf(lines, "gross")), D(TotalOf(lines, "cam")), C(TotalOf(lines, "net")),
      C(TotalOf(lines, "cas")), C(TotalOf(lines, "cass")), C(TotalOf(lines, "cam"))>>
    \o (IF TotalOf(lines, "tax") > 0 THEN <<C(TotalOf(lines, "tax"))>> ELSE <<>>)

Depreciable(x) == x.value - x.residual

(* What the method of asset x takes in its month i, when remaining is left. *)
MethodAmount(x, i, remaining) ==
    CASE x.method = "LINEAR"     -> RoundedShare(Depreciable(x), x.life)
      [] x.method = "DEGRESSIVE" -> RoundedShare(5 * remaining, 4 * NotBelow(x.life - i, 1))
      [] OTHER -> IF i = 0 THEN RoundedShare(Depreciable(x), 2)
                           ELSE RoundedShare(remaining, NotBelow(x.life - i, 1))

(* Fault: the last instalment is not cut to what remains. *)
FaultyComputeDepreciation(x, i, before) ==
    LET remaining == Depreciable(x) - before
    IN  IF remaining <= 0 \/ i < 0 \/ i >= x.life THEN 0 ELSE MethodAmount(x, i, remaining)

computeDepreciation(x, i, before) ==
    LET remaining == Depreciable(x) - before
    IN  IF remaining <= 0 \/ i < 0 \/ i >= x.life THEN 0
        ELSE NotAbove(MethodAmount(x, i, remaining), remaining)

-----------------------------------------------------------------------------
AtWork    == {r \in Call : work[r].pc \in Phase}
Employees == {e \in Call : employee[e] # Nothing}
Assets    == {a \in Call : asset[a] # Nothing}
Payrolls  == {p \in Call : payroll[p] # Nothing}
Notes     == {n \in Call : note[n] # Nothing}

RecordsOf(a)  == {d \in record : d.asset = a}
AmountOf(S)   == SumFunction([d \in S |-> d.amount])
Booked(a)     == AmountOf(RecordsOf(a))

(* The uncommitted writes of r. *)
HasNote(r) == work[r].auto /\ work[r].pc \in {"run", "answer"} /\ work[r].no > 0
HasRun(r)  == work[r].op = "PAYROLL" /\ work[r].pc = "answer"

NewWork(label) ==
    [op |-> "EMPLOYEE", pc |-> label, month |-> 0, auto |-> FALSE, row |-> Nothing,
     target |-> Nothing, pay |-> {}, plan |-> {}, written |-> {}, no |-> 0]

MonthInit ==
    /\ employee = [r \in Call |-> Nothing]
    /\ asset = [r \in Call |-> Nothing]
    /\ payroll = [r \in Call |-> Nothing]
    /\ record = {}
    /\ note = [r \in Call |-> Nothing]
    /\ work = [r \in Call |-> NewWork("idle")]

NoRow == UNCHANGED <<employee, asset, payroll, record, note>>
Reach(r, label) == work' = [work EXCEPT ![r].pc = label] /\ NoRow
EndWork(r, label) == work' = [work EXCEPT ![r] = NewWork(label)]
RejectCall(r) == EndWork(r, "rejected") /\ NoRow

-----------------------------------------------------------------------------
(* A request arrives. *)

StartCall(r, t) ==
    /\ work[r].pc = "idle"
    /\ Cardinality(AtWork) < Width
    /\ work' = [work EXCEPT ![r] = t]
    /\ NoRow

(* POST creates an employee, PATCH changes salary, deduction or activity. *)
SaveEmployee(r) ==
    \E s \in Salary, e \in Employees \cup {r} :
        /\ e = r => s.active
        /\ StartCall(r, [NewWork("write") EXCEPT !.row = s, !.target = e])

CreateAsset(r) ==
    \E x \in FixedAsset :
        /\ x.residual < x.value
        /\ StartCall(r, [NewWork("write") EXCEPT !.op = "ASSET", !.row = x, !.target = r])

GeneratePayroll(r) ==
    \E m \in Month, auto \in BOOLEAN :
        StartCall(r, [NewWork("check") EXCEPT !.op = "PAYROLL", !.month = m, !.auto = auto])

RunDepreciation(r) ==
    \E m \in Month, auto \in BOOLEAN :
        StartCall(r, [NewWork("check") EXCEPT !.op = "DEPRECIATE", !.month = m, !.auto = auto])

-----------------------------------------------------------------------------
(* The statements of the handlers. *)

(* The insert or update of an employee or an asset; an update waits for the
   transaction that has changed the row. *)
WriteRow(r) ==
    /\ work[r].pc = "write"
    /\ \A q \in Call \ {r} : work[q].pc = "answer" => work[q].target # work[r].target
    /\ Reach(r, "answer")

(* assertPeriodOpen and, for the payroll, the search for a run of the month. *)
CheckMonth(r) ==
    /\ work[r].pc = "check"
    /\ \/ /\ work[r].op = "PAYROLL" => \A p \in Payrolls : payroll[p].month # work[r].month
          /\ Reach(r, "read")
       \/ RejectCall(r)

(* The active employees; their lines and totals are computed at once. *)
ReadEmployees(r) ==
    /\ work[r].pc = "read" /\ work[r].op = "PAYROLL"
    /\ LET active == {e \in Employees : employee[e].active}
       IN IF active = {} THEN RejectCall(r)
          ELSE /\ work' = [work EXCEPT ![r].pc = IF work[r].auto THEN "number" ELSE "run",
                                   ![r].pay = {PayLine(e, employee[e]) : e \in active}]
               /\ NoRow

(* The record of asset a that run r plans for month m. *)
PlannedRecord(r, a, m) ==
    LET amount == computeDepreciation(asset[a], m - asset[a].start, Booked(a))
    IN  [by |-> r, asset |-> a, month |-> m, amount |-> amount, accumulated |-> Booked(a) + amount,
         book |-> NotBelow(asset[a].value - Booked(a) - amount, asset[a].residual)]

(* The assets in use with all their records: what is booked so far is known
   from here on, whatever other runs add. *)
ReadAssets(r) ==
    /\ work[r].pc = "read" /\ work[r].op = "DEPRECIATE"
    /\ LET m == work[r].month
           eligible == {a \in Assets : asset[a].start <= m}
           todo == {a \in eligible : \A d \in RecordsOf(a) : d.month # m}
           plan == {p \in {PlannedRecord(r, a, m) : a \in todo} : p.amount > 0}
       IN IF eligible = {} THEN RejectCall(r)
          ELSE /\ work' = [work EXCEPT ![r].plan = plan,
                                   ![r].pc = IF plan = {} THEN "answer"
                                             ELSE IF work[r].auto THEN "number" ELSE "run"]
               /\ NoRow

(* The posting accounts are looked up, then the next free number. *)
ReadNoteNumber(r) ==
    /\ work[r].pc = "number"
    /\ \/ /\ work' = [work EXCEPT ![r].pc = "note",
                              ![r].no = 1 + Max({0} \cup {note[n].no : n \in Notes})]
          /\ NoRow
       \/ RejectCall(r)

(* The number is unique: the insert waits for a transaction that has taken it
   and fails when that one commits. *)
InsertNote(r) ==
    /\ work[r].pc = "note"
    /\ \A q \in Call \ {r} : HasNote(q) => work[q].no # work[r].no
    /\ IF \E n \in Notes : note[n].no = work[r].no
       THEN EndWork(r, "rolledback") /\ NoRow
       ELSE Reach(r, "run")

(* Fault: a taken period is answered like any other refusal. *)
FaultyInsertRun(r) ==
    /\ work[r].pc = "run" /\ work[r].op = "PAYROLL"
    /\ \A q \in Call \ {r} : HasRun(q) => work[q].month # work[r].month
    /\ IF \E p \in Payrolls : payroll[p].month = work[r].month
       THEN /\ note' = [note EXCEPT ![r] = [op |-> "PAYROLL", month |-> work[r].month,
                                            no |-> work[r].no, lines |-> PayrollLines(work[r].pay)]]
            /\ UNCHANGED <<employee, asset, payroll, record>>
            /\ EndWork(r, "rejected")
       ELSE Reach(r, "answer")

(* The payroll with its lines, unique for the month in the same way. *)
InsertRun(r) ==
    /\ work[r].pc = "run" /\ work[r].op = "PAYROLL"
    /\ \A q \in Call \ {r} : HasRun(q) => work[q].month # work[r].month
    /\ IF \E p \in Payrolls : payroll[p].month = work[r].month
       THEN EndWork(r, "rolledback") /\ NoRow
       ELSE Reach(r, "answer")

(* One of the planned records, unique for asset and month. *)
InsertRecord(r) ==
    /\ work[r].pc = "run" /\ work[r].op = "DEPRECIATE"
    /\ \E p \in work[r].plan \ work[r].written :
         /\ \A q \in Call \ {r} : \A d \in work[q].written :
              d.asset = p.asset => d.month # p.month
         /\ IF \E d \in record : d.asset = p.asset /\ d.month = p.month
            THEN EndWork(r, "rolledback")
            ELSE LET written == work[r].written \cup {p}
                 IN work' = [work EXCEPT ![r].written = written,
                                     ![r].pc = IF written = work[r].plan THEN "answer" ELSE "run"]
    /\ NoRow

-----------------------------------------------------------------------------
(* COMMIT of whatever r has written so far. *)
SaveWork(r) ==
    LET t == work[r]
        saved == t.pc = "answer" /\ t.target # Nothing
    IN  /\ employee' = IF saved /\ t.op = "EMPLOYEE" THEN [employee EXCEPT ![t.target] = t.row]
                                                     ELSE employee
        /\ asset' = IF saved /\ t.op = "ASSET" THEN [asset EXCEPT ![r] = t.row] ELSE asset
        /\ note' = IF ~HasNote(r) THEN note
                   ELSE [note EXCEPT ![r] =
                           [op |-> t.op, month |-> t.month, no |-> t.no,
                            lines |-> IF t.op = "PAYROLL" THEN PayrollLines(t.pay)
                                      ELSE <<D(AmountOf(t.plan)), C(AmountOf(t.plan))>>]]
        /\ payroll' = IF HasRun(r)
                      THEN [payroll EXCEPT ![r] = [month |-> t.month, pay |-> t.pay,
                                                   posted |-> t.auto]]
                      ELSE payroll
        /\ record' = record \cup t.written

CommitWork(r) == work[r].pc = "answer" /\ SaveWork(r) /\ EndWork(r, "committed")
DropCall(r)   == CallsDrop /\ r \in AtWork /\ SaveWork(r) /\ EndWork(r, "cut")
UndoWork(r)   == r \in AtWork /\ EndWork(r, "rolledback") /\ NoRow

Lodge(r)   == SaveEmployee(r) \/ CreateAsset(r) \/ GeneratePayroll(r) \/ RunDepreciation(r)
Proceed(r) == \/ WriteRow(r) \/ CheckMonth(r) \/ ReadEmployees(r) \/ ReadAssets(r)
              \/ ReadNoteNumber(r) \/ InsertNote(r) \/ InsertRun(r) \/ InsertRecord(r) \/ CommitWork(r)
BreakOff(r) == DropCall(r) \/ UndoWork(r)

(* Every request has been served. *)
AllServed == (\A r \in Call : work[r].pc \in Answered) /\ UNCHANGED monthVars

MonthNext == (\E r \in Call : Lodge(r) \/ Proceed(r) \/ BreakOff(r)) \/ AllServed

MonthSpec == MonthInit /\ [][MonthNext]_monthVars

-----------------------------------------------------------------------------
(* Properties. *)

(* An asset is never depreciated by more than its depreciable value.  A record
   of the last month of its life leaves exactly the residual value; with the
   linear method, which spreads a rounded instalment, a full life leaves less
   than half a cent a month.  (An accelerated life of a single month takes the
   fixed half of its first month and stops there.) *)
DepreciatedWell(x, records) ==
    LET last == {d \in records : d.month = x.start + x.life - 1}
        rest == Depreciable(x) - AmountOf(records)
    IN  /\ rest >= 0
        /\ x.method # "LINEAR" /\ x.life > 1 /\ last # {} => rest = 0
        /\ x.method = "LINEAR" /\ Cardinality(records) = x.life => 2 * rest <= x.life

DepreciationSound == \A a \in Assets : DepreciatedWell(asset[a], RecordsOf(a))

(* The books hold one payroll note a month at most, every note balances, and
   what was run and what was posted are the same: a posted payroll has the
   note of its request, with its amounts, and the note of a depreciation run
   is the sum of the records the same request wrote. *)
MonthPosted ==
    /\ \A m, n \in Notes : m # n /\ note[m].op = "PAYROLL" /\ note[n].op = "PAYROLL"
                             => note[m].month # note[n].month
    /\ \A n \in Notes : DebitTotal(note[n].lines) = CreditTotal(note[n].lines)
    /\ \A p \in Payrolls : payroll[p].posted =>
         p \in Notes /\ note[p].lines = PayrollLines(payroll[p].pay)
    /\ \A n \in Notes : IF note[n].op = "PAYROLL" THEN n \in Payrolls
                        ELSE DebitTotal(note[n].lines) = AmountOf({d \in record : d.by = n})
=============================================================================
