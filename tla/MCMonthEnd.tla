----------------------------- MODULE MCMonthEnd -----------------------------
(* A small instance of the monthly runs for TLC. *)
EXTENDS MonthEnd, TLC

CONSTANTS g1, g2, g3, g4

(* Gross salaries whose contributions all need rounding, with and without a
   deduction that leaves no tax, and a former employee. *)
Contracts == {[gross |-> 333, deduction |-> 0, active |-> TRUE],
              [gross |-> 202, deduction |-> 200, active |-> TRUE],
              [gross |-> 202, deduction |-> 0, active |-> FALSE]}

Bought(v, s, k, l) == [value |-> v, residual |-> s, method |-> k, life |-> l, start |-> 0]

(* A few cents over up to three months, so that no instalment is exact; one
   asset with a residual value, one of a single month. *)
Register == {Bought(6, 2, "LINEAR", 3), Bought(5, 0, "DEGRESSIVE", 2),
             Bought(5, 0, "ACCELERATED", 3), Bought(5, 1, "ACCELERATED", 1)}

CallSymmetry == Permutations(Call)

(* History: whether two requests were ever in flight together. *)
VARIABLE mixed

MonthHistoryInit == MonthInit /\ mixed = FALSE
MonthHistoryNext == MonthNext /\ mixed' = (mixed \/ Cardinality(AtWork') > 1)
MonthHistorySpec == MonthHistoryInit /\ [][MonthHistoryNext]_<<monthVars, mixed>>

NothingCut == \A r \in Call : work[r].pc # "cut"

(* Depreciation runs that come one at a time, in any order of months, cut or
   not, book exactly what the asset has to lose. *)
SerialDepreciation == ~mixed => DepreciationSound

(* Unless a connection was cut between the note and the run, however the runs
   of a month race, what is run and what is posted agree. *)
UncutMonthPosted == NothingCut => MonthPosted

-----------------------------------------------------------------------------
(* What keeps these two. *)

Truth == BOOLEAN

RecordRow == [by : Call, asset : Call, month : Month, amount : Int, accumulated : Int, book : Int]

Work == [op : CallKind, pc : {"idle"} \cup Phase \cup Answered, month : Month \cup {0}, auto : Truth,
         row : Salary \cup FixedAsset \cup {Nothing}, target : Call \cup {Nothing}, pay : SUBSET PayRow,
         plan : SUBSET RecordRow, written : SUBSET RecordRow, no : Nat]

MonthTypeOK ==
    /\ employee \in [Call -> Salary \cup {Nothing}]
    /\ asset \in [Call -> FixedAsset \cup {Nothing}]
    /\ payroll \in [Call -> PayrollRow \cup {Nothing}]
    /\ record \in SUBSET RecordRow
    /\ note \in [Call -> NoteRow \cup {Nothing}]
    /\ work \in [Call -> Work]

(* Only finitely many rows come about. *)
RowsFinite == /\ IsFiniteSet(Employees) /\ IsFiniteSet(Assets) /\ IsFiniteSet(Notes)
              /\ IsFiniteSet(record) /\ IsFiniteSet(AtWork)

(* Every line of a payroll pays out the gross salary. *)
PaidOut(pay) ==
    IsFiniteSet(pay) /\ \A l \in pay : l.gross = l.net + l.cas + l.cass + l.tax

(* What the work t of request r has read, computed and written at each step. *)
CallFormed(r, t) ==
    /\ t.pc \notin Phase => t = NewWork(t.pc)
    /\ t.pc \in Phase /\ t.op \in {"EMPLOYEE", "ASSET"} =>
          /\ t.pc \in {"write", "answer"} /\ ~t.auto
          /\ IF t.op = "EMPLOYEE" THEN t.row \in Salary /\ t.target \in Call
             ELSE t.row \in FixedAsset /\ t.row.residual < t.row.value /\ t.target = r
    /\ t.op \in {"PAYROLL", "DEPRECIATE"} =>
          t.pc # "write" /\ t.target = Nothing /\ t.month \in Month
    /\ t.op = "PAYROLL" /\ t.pc \in {"number", "note", "run", "answer"} => PaidOut(t.pay)
    /\ t.op # "DEPRECIATE" \/ t.pc \in {"check", "read"} => t.plan = {}
    /\ t.written \subseteq t.plan /\ IsFiniteSet(t.plan)
    /\ t.pc = "answer" => t.written = t.plan
    /\ \A p \in t.plan : p.by = r /\ p.month = t.month /\ p.asset \in Assets
    /\ \A p, q \in t.plan : p.asset = q.asset => p = q
    /\ t.auto /\ t.pc \in {"note", "run", "answer"} =>
          t.no > 0 \/ (t.op = "DEPRECIATE" /\ t.plan = {})

(* A row is that of a request that has committed. *)
RowsAnswered ==
    /\ \A n \in Notes \cup Payrolls \cup Assets : work[n].pc \in {"committed", "cut"}
    /\ \A d \in record : d.asset \in Assets /\ work[d.by].pc \in {"committed", "cut"}

(* There is one payroll a month, those about to be committed included. *)
RunsApart ==
    /\ \A p, q \in Payrolls : payroll[p].month = payroll[q].month => p = q
    /\ \A r \in Call : HasRun(r) =>
          /\ \A p \in Payrolls : payroll[p].month # work[r].month
          /\ \A q \in Call : HasRun(q) /\ work[q].month = work[r].month => q = r

(* Notes balance, posted payrolls have theirs, and a note has its run unless
   a connection was cut. *)
EntriesSound ==
    /\ \A n \in Notes : /\ note[n].op \in {"PAYROLL", "DEPRECIATE"}
                         /\ DebitTotal(note[n].lines) = CreditTotal(note[n].lines)
    /\ \A p \in Payrolls : payroll[p].posted =>
          p \in Notes /\ note[p].lines = PayrollLines(payroll[p].pay)
    /\ NothingCut =>
          \A n \in Notes :
              IF note[n].op = "PAYROLL" THEN n \in Payrolls /\ payroll[n].month = note[n].month
              ELSE DebitTotal(note[n].lines) = AmountOf({d \in record : d.by = n})

(* A linear asset loses one equal share a record until nothing is left. *)
LinearPace(x, records) ==
    x.method = "LINEAR" =>
        \/ Depreciable(x) - AmountOf(records) = 0
        \/ AmountOf(records) = Cardinality(records) * RoundedShare(Depreciable(x), x.life)

(* What a request that runs alone plans is what the assets are due now. *)
PlanDue(t) ==
    \A p \in t.plan :
        LET x == asset[p.asset]
        IN  /\ p.amount > 0 /\ p.amount = computeDepreciation(x, p.month - x.start, Booked(p.asset))
            /\ \A d \in RecordsOf(p.asset) : d.month # p.month

MonthInv ==
    /\ MonthTypeOK /\ RowsFinite /\ mixed \in BOOLEAN
    /\ \A r \in Call : CallFormed(r, work[r])
    /\ RowsAnswered /\ RunsApart /\ EntriesSound
    /\ ~mixed => /\ \A p, q \in AtWork : p = q
                 /\ DepreciationSound /\ \A a \in Assets : LinearPace(asset[a], RecordsOf(a))
                 /\ \A r \in Call : PlanDue(work[r])
=============================================================================
