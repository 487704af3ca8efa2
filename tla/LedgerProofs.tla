---------------------------- MODULE LedgerProofs ----------------------------
(***************************************************************************)
(* Proofs about the ledger for any set of requests, periods, years and     *)
(* note contents, with or without disconnecting clients: the numbers of    *)
(* notes, stornos, posted notes; that the ledger implements the register;  *)
(* and that closing and reopening keep notes in step with their period.    *)
(* The monthly runs, which post to the ledger, follow: what a payroll and  *)
(* a depreciation book, and that the books agree with the runs.            *)
(***************************************************************************)
EXTENDS MCLedger, MCMonthEnd, SumProofs, FiniteSetTheorems, WellFoundedInduction, TLAPS

USE DEF Op, Inserting, Switching, Running, Finished

-----------------------------------------------------------------------------
(* Operators on note lines. *)

(* A line of a note is a line. *)
LEMMA LineAt ==
    ASSUME NEW l \in Seq(Line)
    PROVE  /\ Len(l) \in Nat /\ DOMAIN l = 1 .. Len(l)
           /\ \A i \in DOMAIN l : l[i].debit \in Nat /\ l[i].credit \in Nat
<1>1. \A i \in 1 .. Len(l) : l[i] \in Line
  OBVIOUS
<1> QED BY <1>1 DEF Line

(* Rounding keeps lines well formed (the money columns of journal_lines). *)
LEMMA StoredType ==
    ASSUME NEW l \in Seq(Line) PROVE Stored(l) \in Seq(Line)
<1>1. \A m \in Nat : Round2(m) \in Nat
  BY DEF Round2
<1>2. \A i \in DOMAIN l : [debit |-> Round2(l[i].debit), credit |-> Round2(l[i].credit)] \in Line
  BY <1>1, LineAt DEF Line
<1> QED BY <1>2, LineAt DEF Stored

(* So does swapping debit and credit for a storno note. *)
LEMMA ReversedType ==
    ASSUME NEW l \in Seq(Line) PROVE Reversed(l) \in Seq(Line)
<1>1. \A i \in DOMAIN l : [debit |-> l[i].credit, credit |-> l[i].debit] \in Line
  BY LineAt DEF Line
<1> QED BY <1>1, LineAt DEF Reversed

(* A storno note balances when the note it reverses does. *)
LEMMA ReversedBalanced ==
    ASSUME NEW l \in Seq(Line), Balanced(l) PROVE Balanced(Reversed(l))
<1>1. DOMAIN Reversed(l) = DOMAIN l
  BY DEF Reversed
<1>2. /\ \A i \in DOMAIN l : Reversed(l)[i].debit = l[i].credit
      /\ \A i \in DOMAIN l : Reversed(l)[i].credit = l[i].debit
  BY DEF Reversed
<1>3. [i \in DOMAIN Reversed(l) |-> Reversed(l)[i].debit] = [i \in DOMAIN l |-> l[i].credit]
  BY <1>1, <1>2
<1>4. [i \in DOMAIN Reversed(l) |-> Reversed(l)[i].credit] = [i \in DOMAIN l |-> l[i].debit]
  BY <1>1, <1>2
<1> QED BY <1>3, <1>4 DEF Balanced, DebitTotal, CreditTotal

(* A non-empty set of naturals has a least element. *)
LEMMA LeastNatural ==
    ASSUME NEW T, T \subseteq Nat, T # {}
    PROVE  \E k \in T : \A j \in T : k <= j
<1>1. \E k \in T : \A j \in T : ~(<<j, k>> \in OpToRel(<, Nat))
  BY WFMin, NatLessThanWellFounded, Zenon
<1>2. \A j, k \in Nat : <<j, k>> \in OpToRel(<, Nat) <=> j < k
  BY DEF OpToRel
<1>3. \A j, k \in Nat : ~(j < k) => k <= j
  OBVIOUS
<1> QED BY <1>1, <1>2, <1>3

(* Of a gapless series that stops at PadMax + 1 the text ordering picks a
   number of at most six digits (orderBy number desc on the text column). *)
LEMMA LexGreatest ==
    ASSUME NEW N, N \subseteq 0 .. (PadMax + 1), N # {},
           \A n \in N : 1 .. n \subseteq N
    PROVE  /\ \E n \in N : \A m \in N : LexLeq(m, n)
           /\ \A n \in N : (\A m \in N : LexLeq(m, n)) => n <= PadMax
<1> DEFINE G == {k \in Nat : k > 0 /\ k \notin N}
<1>0. PadMax \in Nat /\ PadMax >= 1
  BY LedgerConstants
<1>1. PadMax + 2 \in G
  BY <1>0
<1>2. PICK k \in G : \A j \in G : k <= j
  <2> HIDE DEF G
  <2>1. G \subseteq Nat
    BY DEF G
  <2> QED BY <1>1, <2>1, LeastNatural
<1>3. \A n \in N : n < k
  <2> SUFFICES ASSUME NEW n \in N, k <= n PROVE FALSE
    BY <1>0
  <2>1. k \in 1 .. n
    BY <1>0
  <2> QED BY <2>1
<1>4. \A j \in 1 .. (k - 1) : j \in N
  BY <1>2
<1>5. \A m, n \in Nat : m <= n /\ n <= PadMax => LexLeq(m, n)
  BY <1>0 DEF LexLeq, Lead
<1>6. LexLeq(PadMax + 1, PadMax) /\ ~LexLeq(PadMax, PadMax + 1)
  BY <1>0 DEF LexLeq, Lead
<1>7. CASE k - 1 <= PadMax
  <2>1. \A n \in N : n <= PadMax
    BY <1>0, <1>3, <1>7
  <2>2. CASE k = 1
    <3>1. \A n \in N : n = 0
      BY <1>0, <1>3, <2>2
    <3>3. 0 \in N
      BY <3>1
    <3>2. \A m \in N : LexLeq(m, 0)
      BY <1>0, <1>5, <3>1
    <3> QED BY <2>1, <3>2, <3>3
  <2>3. CASE k > 1
    <3>1. k - 1 \in N
      BY <1>4, <2>3
    <3>2. \A m \in N : LexLeq(m, k - 1)
      BY <1>0, <1>3, <1>5, <1>7, <2>3
    <3> QED BY <2>1, <3>1, <3>2
  <2> QED BY <2>2, <2>3
<1>8. CASE k - 1 > PadMax
  <2>1. PadMax \in N
    BY <1>0, <1>4, <1>8
  <2>2. \A m \in N : LexLeq(m, PadMax)
    <3> SUFFICES ASSUME NEW m \in N PROVE LexLeq(m, PadMax)
      OBVIOUS
    <3>1. m <= PadMax \/ m = PadMax + 1
      BY <1>0
    <3> QED BY <1>0, <1>5, <1>6, <3>1
  <2>3. \A n \in N : (\A m \in N : LexLeq(m, n)) => n <= PadMax
    <3> SUFFICES ASSUME NEW n \in N, LexLeq(PadMax, n), n > PadMax PROVE FALSE
      BY <1>0, <2>1
    <3>1. n = PadMax + 1
      BY <1>0
    <3> QED BY <1>6, <3>1
  <2> QED BY <2>1, <2>2, <2>3
<1> QED BY <1>0, <1>7, <1>8

(* nextJournalEntryNumber extends the series of a year by one number. *)
LEMMA NextNumber ==
    ASSUME TypeOK, GaplessNumbers, SeriesSaturates, NEW y \in Year
    PROVE  /\ NextJournalEntryNumber(y) \in 1 .. (PadMax + 1)
           /\ 1 .. (NextJournalEntryNumber(y) - 1) \subseteq Numbers(y)
<1>0. PadMax \in Nat /\ PadMax >= 1
  BY LedgerConstants
<1> DEFINE N == Numbers(y)
<1>1. N \subseteq 0 .. (PadMax + 1)
  <2> SUFFICES ASSUME NEW r \in Committed PROVE entry[r].num \in 0 .. (PadMax + 1)
    BY DEF Numbers
  <2>1. entry[r].num \in Nat /\ entry[r].num <= PadMax + 1
    BY DEF TypeOK, Committed, Entry, SeriesSaturates
  <2> QED BY <1>0, <2>1
<1>2. \A n \in N : 1 .. n \subseteq N
  BY DEF Numbers, GaplessNumbers
<1>3. CASE N = {}
  BY <1>0, <1>3 DEF NextJournalEntryNumber
<1>4. CASE N # {}
  <2> DEFINE n == CHOOSE n \in N : \A m \in N : LexLeq(m, n)
  <2> HIDE DEF N
  <2>1. n \in N /\ n <= PadMax
    BY <1>1, <1>2, <1>4, LexGreatest
  <2>2. NextJournalEntryNumber(y) = 1 + n
    BY <1>4 DEF N, NextJournalEntryNumber
  <2> HIDE DEF n
  <2>3. n \in Nat /\ 1 .. n \subseteq N
    BY <1>0, <1>1, <1>2, <2>1
  <2>4. (1 + n) - 1 = n /\ 1 + n \in 1 .. (PadMax + 1)
    BY <1>0, <2>1, <2>3
  <2>5. 1 .. (NextJournalEntryNumber(y) - 1) \subseteq N
    BY <2>2, <2>3, <2>4
  <2> QED BY <2>2, <2>4, <2>5 DEF N
<1> QED BY <1>3, <1>4

-----------------------------------------------------------------------------
(* A blank transaction is one of the transaction records. *)
LEMMA BlankType ==
    ASSUME NEW label \in {"idle"} \cup Running \cup Finished
    PROVE  /\ Blank(label) \in Transaction
           /\ Blank(label).op = "CREATE" /\ Blank(label).pc = label
           /\ Blank(label).src = None /\ Blank(label).touched = {}
<1>1. (CHOOSE p \in Period : TRUE) \in Period /\ (CHOOSE y \in Year : TRUE) \in Year
  BY LedgerConstants
<1> QED BY <1>1 DEF Blank, Transaction

TypeInv == TypeOK /\ PcMatchesOp /\ References

(* Committing keeps the rows well formed: what is updated exists. *)
LEMMA PersistEffect ==
    ASSUME TypeInv, NEW r \in Req, tx[r].pc \in Running, Persist(r)
    PROVE  /\ entry' \in [Req -> Entry \cup {None}]
           /\ period' \in [Period -> {"OPEN", "CLOSED"}]
           /\ audit' \in SUBSET Req
           /\ Committed' = Committed \cup (IF HasRow(r) THEN {r} ELSE {})
           /\ r \notin Committed
           /\ HasRow(r) => entry'[r] = NewRow(r)
           /\ \A e \in Committed :
                 /\ entry'[e] = [entry[e] EXCEPT !.st = entry'[e].st]
                 /\ entry'[e] \in Entry
                 /\ entry'[e].st # entry[e].st
                       => e \in tx[r].touched /\ entry'[e].st # "DRAFT"
                 /\ e \notin tx[r].touched => entry'[e] = entry[e]
<1> USE DEF TypeInv, TypeOK, References
<1>1. tx[r] \in Transaction
  OBVIOUS
<1>2. HasRow(r) => NewRow(r) \in Entry
  BY <1>1 DEF HasRow, NewRow, ReversalOf, Transaction, Entry
<1>3. \A e \in Committed : entry[e] \in Entry
  BY DEF Committed
<1>4. r \notin Committed
  BY DEF Committed
<1>5. \A e \in Req : HoldsEntry(r, e) => e \in Committed
  BY DEF HoldsEntry
<1>6. \A e \in Committed, s \in {"DRAFT", "VALIDATED", "CLOSED"} :
          [entry[e] EXCEPT !.st = s] \in Entry
  BY <1>3 DEF Entry
<1>7. \A e \in Req : entry'[e] =
            IF e = r /\ HasRow(r) THEN NewRow(r)
            ELSE IF HoldsEntry(r, e)
            THEN [entry[e] EXCEPT !.st = IF tx[r].op = "CLOSE" THEN "CLOSED" ELSE "VALIDATED"]
            ELSE entry[e]
  BY DEF Persist
<1>8. entry' \in [Req -> Entry \cup {None}]
  <2>1. ASSUME NEW e \in Req PROVE entry'[e] \in Entry \cup {None}
    <3>1. CASE e = r /\ HasRow(r)
      BY <1>2, <1>7, <3>1
    <3>2. CASE ~(e = r /\ HasRow(r)) /\ HoldsEntry(r, e)
      <4>1. e \in Committed
        BY <1>5, <3>2
      <4> QED BY <1>6, <1>7, <3>2, <4>1
    <3>3. CASE ~(e = r /\ HasRow(r)) /\ ~HoldsEntry(r, e)
      <4>1. entry'[e] = entry[e]
        BY <1>7, <3>3
      <4> QED BY <4>1
    <3> QED BY <3>1, <3>2, <3>3
  <2> DEFINE f(e) == IF e = r /\ HasRow(r) THEN NewRow(r)
                     ELSE IF HoldsEntry(r, e)
                     THEN [entry[e] EXCEPT !.st = IF tx[r].op = "CLOSE" THEN "CLOSED"
                                                                        ELSE "VALIDATED"]
                     ELSE entry[e]
  <2>2. entry' = [e \in Req |-> f(e)]
    BY DEF Persist
  <2>3. \A e \in Req : f(e) \in Entry \cup {None}
    BY <1>7, <2>1
  <2> HIDE DEF f
  <2> QED BY <2>2, <2>3
<1>9. Committed' = Committed \cup (IF HasRow(r) THEN {r} ELSE {})
  <2>1. \A e \in Req : HasRow(r) /\ e = r => entry'[e] # None
    BY <1>2, <1>7, LedgerConstants
  <2>2. \A e \in Req : HoldsEntry(r, e) => entry'[e] # None
    <3> SUFFICES ASSUME NEW e \in Req, HoldsEntry(r, e) PROVE entry'[e] \in Entry
      BY LedgerConstants
    <3>1. e \in Committed /\ e # r
      BY <1>4, <1>5
    <3> QED BY <1>6, <1>7, <3>1
  <2>3. \A e \in Req : ~(e = r /\ HasRow(r)) /\ ~HoldsEntry(r, e) => entry'[e] = entry[e]
    BY <1>7
  <2> QED BY <1>5, <2>1, <2>2, <2>3 DEF Committed
<1>10. ASSUME NEW e \in Committed
       PROVE  /\ entry'[e] = [entry[e] EXCEPT !.st = entry'[e].st]
              /\ entry'[e] \in Entry
              /\ entry'[e].st # entry[e].st => e \in tx[r].touched /\ entry'[e].st # "DRAFT"
              /\ e \notin tx[r].touched => entry'[e] = entry[e]
  <2>1. e # r /\ e \in Req
    BY <1>4 DEF Committed
  <2>2. CASE HoldsEntry(r, e)
    <3> DEFINE s == IF tx[r].op = "CLOSE" THEN "CLOSED" ELSE "VALIDATED"
    <3>1. entry'[e] = [entry[e] EXCEPT !.st = s]
      BY <1>7, <2>1, <2>2
    <3>2. entry'[e].st = s /\ s \in {"CLOSED", "VALIDATED"}
      BY <1>3, <3>1 DEF Entry
    <3>3. e \in tx[r].touched
      BY <2>2 DEF HoldsEntry
    <3> HIDE DEF s
    <3> QED BY <1>6, <3>1, <3>2, <3>3
  <2>3. CASE ~HoldsEntry(r, e)
    <3>1. entry'[e] = entry[e]
      BY <1>7, <2>1, <2>3
    <3> QED BY <1>3, <3>1 DEF Entry
  <2> QED BY <2>2, <2>3
<1>11. period' \in [Period -> {"OPEN", "CLOSED"}] /\ audit' \in SUBSET Req
  BY DEF Persist
<1> QED BY <1>4, <1>7, <1>8, <1>9, <1>10, <1>11
-----------------------------------------------------------------------------
(* What TypeInv says of one request whose transaction is t. *)
Local(r, t) ==
    /\ t \in Transaction
    /\ t.pc = "source" => t.op \in {"VALIDATE", "STORNO"}
    /\ t.pc = "period" => t.op \notin Switching
    /\ t.pc \in {"number", "insert"} => t.op \in Inserting
    /\ t.pc = "update" => t.op = "VALIDATE"
    /\ t.pc \in {"count", "lock", "sweep"} => t.op \in Switching
    /\ t.touched \subseteq Committed
    /\ t.pc \in Running /\ t.op \in {"VALIDATE", "STORNO"} => t.src \in Committed
    /\ t.pc \in Running \cup {"idle"} => entry[r] = None

(* Only the transaction of r changes. *)
Alone(r) == /\ tx' = [tx EXCEPT ![r] = tx'[r]]
            /\ UNCHANGED <<period, entry, audit>>

(* TypeInv says the same of every transaction, so one can be looked at alone. *)
LEMMA TypeInvLocal ==
    TypeInv => \A r \in Req : Local(r, tx[r])
BY DEF TypeInv, TypeOK, PcMatchesOp, References, Local

(* An arriving request is well formed. *)
LEMMA ArriveLocal ==
    ASSUME TypeInv, NEW r \in Req, Arrive(r)
    PROVE  /\ Alone(r) /\ Local(r, tx'[r])
           /\ tx'[r].pc \in {"period", "source", "count", "lock"}
           /\ tx'[r].touched = {}
           /\ tx'[r].op = "STORNO" => tx'[r].pc = "source"
           /\ tx'[r].op = "VALIDATE" => /\ tx'[r].pc = "source"
                                        /\ entry[tx'[r].src].per = tx'[r].per
           /\ tx'[r].op = "CLOSE" => tx'[r].pc = "count"
           /\ tx[r].pc = "idle"
           /\ tx'[r].op = "POST" => \E l \in PostedLines : tx'[r].lines = Stored(l)
<1>0. /\ (CHOOSE p \in Period : TRUE) \in Period /\ (CHOOSE y \in Year : TRUE) \in Year
      /\ << >> \in Seq(Line)
  BY LedgerConstants
<1>1. entry[r] = None /\ tx \in [Req -> Transaction] /\ tx[r].pc = "idle"
  <2>1. tx[r].pc = "idle"
    BY DEF Arrive, CreateEntry, PostEntry, ValidateEntry, StornoEntry, ClosePeriod,
           ReopenPeriod, Start
  <2> QED BY <2>1 DEF TypeInv, TypeOK, References
<1>2. ASSUME NEW t \in Transaction, Start(r, t) PROVE Alone(r) /\ tx'[r] = t
  BY <1>1, <1>2 DEF Start, Alone
<1>3. Committed \subseteq Req /\ \A s \in Committed : entry[s] \in Entry
  BY DEF TypeInv, TypeOK, Committed
<1>4. CASE CreateEntry(r)
  <2>1. PICK p \in Period, y \in Year, l \in InputLines :
            Start(r, [Blank("period") EXCEPT !.op = "CREATE", !.per = p, !.year = y,
                                             !.lines = Stored(l)])
    BY <1>4 DEF CreateEntry
  <2> DEFINE t == [Blank("period") EXCEPT !.op = "CREATE", !.per = p, !.year = y,
                                          !.lines = Stored(l)]
  <2>2. Stored(l) \in Seq(Line)
    BY StoredType, LedgerConstants
  <2>3. t \in Transaction /\ t.op = "CREATE" /\ t.pc = "period" /\ t.touched = {}
    BY <1>0, <2>2 DEF Blank, Transaction
  <2> HIDE DEF t
  <2>4. Alone(r) /\ tx'[r] = t
    BY <1>2, <2>1, <2>3 DEF t
  <2> QED BY <1>1, <2>3, <2>4 DEF Local
<1>5. CASE PostEntry(r)
  <2>1. PICK p \in Period, y \in Year, l \in PostedLines :
            Start(r, [Blank("period") EXCEPT !.op = "POST", !.per = p, !.year = y,
                                             !.lines = Stored(l)])
    BY <1>5 DEF PostEntry
  <2> DEFINE t == [Blank("period") EXCEPT !.op = "POST", !.per = p, !.year = y,
                                          !.lines = Stored(l)]
  <2>2. Stored(l) \in Seq(Line)
    BY StoredType, LedgerConstants
  <2>3. /\ t \in Transaction /\ t.op = "POST" /\ t.pc = "period" /\ t.touched = {}
        /\ t.lines = Stored(l)
    BY <1>0, <2>2 DEF Blank, Transaction
  <2> HIDE DEF t
  <2>4. Alone(r) /\ tx'[r] = t
    BY <1>2, <2>1, <2>3 DEF t
  <2> QED BY <1>1, <2>3, <2>4 DEF Local
<1>6. CASE ValidateEntry(r)
  <2>1. PICK s \in Committed :
            Start(r, [Blank("source") EXCEPT !.op = "VALIDATE", !.per = entry[s].per, !.src = s])
    BY <1>6 DEF ValidateEntry
  <2> DEFINE t == [Blank("source") EXCEPT !.op = "VALIDATE", !.per = entry[s].per, !.src = s]
  <2>2. entry[s].per \in Period /\ s \in Req
    BY <1>3 DEF Entry
  <2>3. /\ t \in Transaction /\ t.op = "VALIDATE" /\ t.pc = "source" /\ t.touched = {}
        /\ t.src = s /\ t.per = entry[s].per
    BY <1>0, <2>2 DEF Blank, Transaction
  <2> HIDE DEF t
  <2>4. Alone(r) /\ tx'[r] = t
    BY <1>2, <2>1, <2>3 DEF t
  <2> QED BY <1>1, <2>3, <2>4 DEF Local
<1>7. CASE StornoEntry(r)
  <2>1. PICK p \in Period, y \in Year, s \in Committed :
            Start(r, [Blank("source") EXCEPT !.op = "STORNO", !.per = p, !.year = y, !.src = s])
    BY <1>7 DEF StornoEntry
  <2> DEFINE t == [Blank("source") EXCEPT !.op = "STORNO", !.per = p, !.year = y, !.src = s]
  <2>2. s \in Req
    BY <1>3
  <2>3. /\ t \in Transaction /\ t.op = "STORNO" /\ t.pc = "source" /\ t.touched = {}
        /\ t.src = s
    BY <1>0, <2>2 DEF Blank, Transaction
  <2> HIDE DEF t
  <2>4. Alone(r) /\ tx'[r] = t
    BY <1>2, <2>1, <2>3 DEF t
  <2> QED BY <1>1, <2>3, <2>4 DEF Local
<1>8. CASE ClosePeriod(r)
  <2>1. PICK p \in Period : Start(r, [Blank("count") EXCEPT !.op = "CLOSE", !.per = p])
    BY <1>8 DEF ClosePeriod
  <2> DEFINE t == [Blank("count") EXCEPT !.op = "CLOSE", !.per = p]
  <2>2. t \in Transaction /\ t.op = "CLOSE" /\ t.pc = "count" /\ t.touched = {}
    BY <1>0 DEF Blank, Transaction
  <2> HIDE DEF t
  <2>3. Alone(r) /\ tx'[r] = t
    BY <1>2, <2>1, <2>2 DEF t
  <2> QED BY <1>1, <2>2, <2>3 DEF Local
<1>9. CASE ReopenPeriod(r)
  <2>1. PICK p \in Period : Start(r, [Blank("lock") EXCEPT !.op = "REOPEN", !.per = p])
    BY <1>9 DEF ReopenPeriod
  <2> DEFINE t == [Blank("lock") EXCEPT !.op = "REOPEN", !.per = p]
  <2>2. t \in Transaction /\ t.op = "REOPEN" /\ t.pc = "lock" /\ t.touched = {}
    BY <1>0 DEF Blank, Transaction
  <2> HIDE DEF t
  <2>3. Alone(r) /\ tx'[r] = t
    BY <1>2, <2>1, <2>2 DEF t
  <2> QED BY <1>1, <2>2, <2>3 DEF Local
<1> QED BY <1>4, <1>5, <1>6, <1>7, <1>8, <1>9 DEF Arrive

(* A transaction that ends without a commit holds nothing. *)
LEMMA EndLocal ==
    ASSUME TypeInv, NEW r \in Req, NEW label \in Finished, End(r, label),
           UNCHANGED <<period, entry, audit>>
    PROVE  Alone(r) /\ Local(r, tx'[r]) /\ tx'[r] = Blank(label)
<1>1. Blank(label) \in Transaction /\ Blank(label).pc = label /\ Blank(label).touched = {}
  BY BlankType
<1>2. tx \in [Req -> Transaction]
  BY DEF TypeInv, TypeOK
<1>3. Alone(r) /\ tx'[r] = Blank(label)
  BY <1>1, <1>2 DEF End, Alone
<1> QED BY <1>1, <1>3 DEF Local

(* A handler that goes on keeps everything but the step it is at. *)
LEMMA GotoLocal ==
    ASSUME TypeInv, NEW r \in Req, NEW label \in Running, Goto(r, label),
           UNCHANGED <<period, entry, audit>>
    PROVE  /\ Alone(r) /\ tx'[r] \in Transaction
           /\ tx'[r] = [tx[r] EXCEPT !.pc = label] /\ tx'[r].pc = label
           /\ tx'[r].op = tx[r].op /\ tx'[r].src = tx[r].src /\ tx'[r].num = tx[r].num
           /\ tx'[r].per = tx[r].per /\ tx'[r].year = tx[r].year
           /\ tx'[r].lines = tx[r].lines /\ tx'[r].touched = tx[r].touched
<1>1. tx \in [Req -> Transaction]
  BY DEF TypeInv, TypeOK
<1>2. tx'[r] = [tx[r] EXCEPT !.pc = label] /\ Alone(r)
  BY <1>1 DEF Goto, Alone
<1> QED BY <1>1, <1>2 DEF Transaction

(* Every statement of a handler keeps its transaction well formed. *)
LEMMA AdvanceLocal ==
    ASSUME TypeInv, GaplessNumbers, SeriesSaturates, NEW r \in Req,
           Advance(r) \/ Timeout(r), ~Commit(r)
    PROVE  Alone(r) /\ Local(r, tx'[r])
<1>1. Local(r, tx[r]) /\ tx \in [Req -> Transaction] /\ tx[r] \in Transaction
  BY TypeInvLocal DEF TypeInv, TypeOK
<1>2. CASE ReadDraft(r)
  <2>1. CASE Goto(r, "period")
    BY <1>1, <1>2, <2>1, GotoLocal DEF ReadDraft, Local
  <2>2. CASE Reject(r)
    BY <1>2, <2>2, EndLocal DEF ReadDraft, Reject
  <2> QED BY <1>2, <2>1, <2>2 DEF ReadDraft
<1>3. CASE ReadStornoSource(r)
  <2> DEFINE e == entry[tx[r].src]
  <2>1. CASE tx' = [tx EXCEPT ![r].pc = "period", ![r].lines = Reversed(e.lines)]
    <3>1. e \in Entry
      BY <1>1, <1>3 DEF ReadStornoSource, Local, Committed, TypeInv, TypeOK
    <3>2. Reversed(e.lines) \in Seq(Line)
      BY <3>1, ReversedType DEF Entry
    <3>3. /\ tx'[r] = [tx[r] EXCEPT !.pc = "period", !.lines = Reversed(e.lines)]
          /\ Alone(r)
      BY <1>1, <1>3, <2>1 DEF ReadStornoSource, Alone
    <3> HIDE DEF e
    <3>4. /\ tx'[r] \in Transaction /\ tx'[r].pc = "period" /\ tx'[r].op = tx[r].op
          /\ tx'[r].src = tx[r].src /\ tx'[r].touched = tx[r].touched
      BY <1>1, <3>2, <3>3 DEF Transaction
    <3> QED BY <1>1, <1>3, <3>3, <3>4 DEF ReadStornoSource, Local
  <2>2. CASE Reject(r)
    BY <1>3, <2>2, EndLocal DEF ReadStornoSource, Reject
  <2> QED BY <1>3, <2>1, <2>2 DEF ReadStornoSource
<1>4. CASE AssertPeriodOpen(r)
  <2>1. CASE Goto(r, "update") /\ tx[r].op = "VALIDATE"
    BY <1>1, <1>4, <2>1, GotoLocal DEF AssertPeriodOpen, Local
  <2>2. CASE Goto(r, "number") /\ tx[r].op # "VALIDATE"
    BY <1>1, <1>4, <2>2, GotoLocal DEF AssertPeriodOpen, Local, Transaction
  <2>3. CASE Reject(r)
    BY <1>4, <2>3, EndLocal DEF AssertPeriodOpen, Reject
  <2> QED BY <1>4, <2>1, <2>2, <2>3 DEF AssertPeriodOpen
<1>5. CASE ReadNumber(r)
  <2> DEFINE n == NextJournalEntryNumber(tx[r].year)
  <2>1. n \in Nat
    <3>1. tx[r].year \in Year
      BY <1>1 DEF Transaction
    <3> QED BY <3>1, NextNumber DEF TypeInv
  <2>2. tx'[r] = [tx[r] EXCEPT !.pc = "insert", !.num = n] /\ Alone(r)
    BY <1>1, <1>5 DEF ReadNumber, Alone
  <2> HIDE DEF n
  <2>3. /\ tx'[r] \in Transaction /\ tx'[r].pc = "insert" /\ tx'[r].op = tx[r].op
        /\ tx'[r].src = tx[r].src /\ tx'[r].touched = tx[r].touched
    BY <1>1, <2>1, <2>2 DEF Transaction
  <2> QED BY <1>1, <1>5, <2>2, <2>3 DEF ReadNumber, Local
<1>6. CASE InsertEntry(r)
  <2>1. CASE Goto(r, "audit")
    BY <1>1, <1>6, <2>1, GotoLocal DEF InsertEntry, Local
  <2>2. CASE RollBack(r)
    BY <1>6, <2>2, EndLocal DEF InsertEntry, RollBack
  <2> QED BY <1>6, <2>1, <2>2 DEF InsertEntry
<1>7. CASE UpdateEntry(r)
  <2> DEFINE rows == {tx[r].src}
  <2>1. tx'[r] = [tx[r] EXCEPT !.pc = "audit", !.touched = rows] /\ Alone(r)
    BY <1>1, <1>7 DEF UpdateEntry, Alone
  <2>2. rows \subseteq Committed /\ rows \subseteq Req
    BY <1>1, <1>7 DEF UpdateEntry, Local, Committed
  <2> HIDE DEF rows
  <2>3. /\ tx'[r] \in Transaction /\ tx'[r].pc = "audit" /\ tx'[r].op = tx[r].op
        /\ tx'[r].src = tx[r].src /\ tx'[r].touched = rows
    BY <1>1, <2>1, <2>2 DEF Transaction
  <2> QED BY <1>1, <1>7, <2>1, <2>2, <2>3 DEF UpdateEntry, Local
<1>8. CASE CountDrafts(r)
  <2>1. CASE Goto(r, "lock")
    BY <1>1, <1>8, <2>1, GotoLocal DEF CountDrafts, Local
  <2>2. CASE Reject(r)
    BY <1>8, <2>2, EndLocal DEF CountDrafts, Reject
  <2> QED BY <1>8, <2>1, <2>2 DEF CountDrafts
<1>9. CASE UpsertPeriod(r)
  BY <1>1, <1>9, GotoLocal DEF UpsertPeriod, Local
<1>10. CASE SweepEntries(r)
  <2>1. PICK rows \in SUBSET Committed :
            tx' = [tx EXCEPT ![r].pc = "audit", ![r].touched = rows]
    BY <1>10 DEF SweepEntries
  <2>2. tx'[r] = [tx[r] EXCEPT !.pc = "audit", !.touched = rows] /\ Alone(r)
    BY <1>1, <1>10, <2>1 DEF SweepEntries, Alone
  <2>3. rows \subseteq Req /\ rows \subseteq Committed
    BY DEF Committed
  <2>4. /\ tx'[r] \in Transaction /\ tx'[r].pc = "audit" /\ tx'[r].op = tx[r].op
        /\ tx'[r].src = tx[r].src /\ tx'[r].touched = rows
    BY <1>1, <2>2, <2>3 DEF Transaction
  <2> QED BY <1>1, <1>10, <2>2, <2>3, <2>4 DEF SweepEntries, Local
<1>11. CASE Answer(r)
  BY <1>1, <1>11, GotoLocal DEF Answer, Local
<1>12. CASE Timeout(r)
  BY <1>12, EndLocal DEF Timeout, RollBack
<1> QED BY <1>2, <1>3, <1>4, <1>5, <1>6, <1>7, <1>8, <1>9, <1>10, <1>11, <1>12 DEF Advance

-----------------------------------------------------------------------------
(* The number series. *)

(* What NumbersRead and RowsFresh say of one request whose transaction is t. *)
Series(t) ==
    t.op \in Inserting /\ t.pc \in {"insert", "audit", "answered"}
      => t.num \in 1 .. (PadMax + 1) /\ 1 .. (t.num - 1) \subseteq Numbers(t.year)

Holding(t) == t.op \in Inserting /\ t.pc \in {"audit", "answered"}
Rev(t) == IF t.op = "STORNO" THEN t.src ELSE None
Clash(t, year, num, rev) == (year = t.year /\ num = t.num) \/ (rev # None /\ rev = Rev(t))

Fresh(r, t) ==
    Holding(t) =>
      /\ \A q \in Committed : ~Clash(t, entry[q].year, entry[q].num, entry[q].rev)
      /\ \A q \in Req \ {r} :
            Holding(tx[q]) => ~Clash(t, tx[q].year, tx[q].num, Rev(tx[q]))

(* So do the two parts of NumberInv: the series a request read, and the row
   it holds. *)
LEMMA NumberInvLocal ==
    /\ NumbersRead <=> \A r \in Req : Series(tx[r])
    /\ RowsFresh <=> \A r \in Req : Fresh(r, tx[r])
<1>1. \A r \in Req : HasRow(r) <=> Holding(tx[r])
  BY DEF HasRow, Holding
<1>2. \A r \in Req : ReversalOf(r) = Rev(tx[r])
  BY DEF ReversalOf, Rev
<1>3. \A r \in Req, q \in Req :
          SameKey(r, entry[q]) <=> Clash(tx[r], entry[q].year, entry[q].num, entry[q].rev)
  BY <1>2 DEF SameKey, Clash
<1>4. \A q \in Req : /\ NewRow(q).year = tx[q].year /\ NewRow(q).num = tx[q].num
                     /\ NewRow(q).rev = Rev(tx[q])
  BY <1>2 DEF NewRow
<1>5. \A r \in Req, q \in Req :
          SameKey(r, NewRow(q)) <=> Clash(tx[r], tx[q].year, tx[q].num, Rev(tx[q]))
  BY <1>2, <1>4 DEF SameKey, Clash
<1>6. NumbersRead <=> \A r \in Req : Series(tx[r])
  BY DEF NumbersRead, Series
<1>7. RowsFresh <=> \A r \in Req : Fresh(r, tx[r])
  BY <1>1, <1>3, <1>5 DEF RowsFresh, Fresh, Committed
<1> QED BY <1>6, <1>7

(* A handler reads a number that extends the series, and its insert succeeds
   only when the number is still free. *)
LEMMA AdvanceSeries ==
    ASSUME NumberInv, NEW r \in Req, Advance(r) \/ Timeout(r), ~Commit(r)
    PROVE  Series(tx'[r]) /\ Fresh(r, tx'[r])
<1>1. /\ TypeInv /\ tx \in [Req -> Transaction] /\ tx[r] \in Transaction
      /\ Local(r, tx[r]) /\ Series(tx[r]) /\ Fresh(r, tx[r])
  BY NumberInvLocal, TypeInvLocal DEF NumberInv, TypeInv, TypeOK
<1>2. ASSUME NEW label \in Finished, End(r, label)
      PROVE  Series(tx'[r]) /\ Fresh(r, tx'[r])
  <2>1. tx'[r] = Blank(label) /\ Blank(label).pc = label
    BY <1>1, <1>2 DEF End, Blank
  <2> QED BY <2>1 DEF Series, Fresh, Holding
<1>3. ASSUME NEW label \in Running \ {"insert", "audit", "answered"}, Goto(r, label)
      PROVE  Series(tx'[r]) /\ Fresh(r, tx'[r])
  <2>1. tx'[r].pc = label
    BY <1>1, <1>3 DEF Goto, Transaction
  <2> QED BY <2>1 DEF Series, Fresh, Holding
<1>4. CASE ReadDraft(r)
  BY <1>2, <1>3, <1>4 DEF ReadDraft, Reject
<1>5. CASE ReadStornoSource(r)
  <2>1. CASE tx' = [tx EXCEPT ![r].pc = "period", ![r].lines = Reversed(entry[tx[r].src].lines)]
    <3>1. tx'[r].pc = "period"
      BY <1>1, <2>1 DEF Transaction
    <3> QED BY <3>1 DEF Series, Fresh, Holding
  <2> QED BY <1>2, <1>5, <2>1 DEF ReadStornoSource, Reject
<1>6. CASE AssertPeriodOpen(r)
  BY <1>2, <1>3, <1>6 DEF AssertPeriodOpen, Reject
<1>7. CASE ReadNumber(r)
  <2> DEFINE n == NextJournalEntryNumber(tx[r].year)
  <2>1. n \in 1 .. (PadMax + 1) /\ 1 .. (n - 1) \subseteq Numbers(tx[r].year)
    BY <1>1, NextNumber DEF NumberInv, Transaction
  <2>2. tx'[r] = [tx[r] EXCEPT !.pc = "insert", !.num = n]
    BY <1>1, <1>7 DEF ReadNumber
  <2> HIDE DEF n
  <2>3. tx'[r].pc = "insert" /\ tx'[r].num = n /\ tx'[r].year = tx[r].year
    BY <1>1, <2>2 DEF Transaction
  <2> QED BY <2>1, <2>3 DEF Series, Fresh, Holding
<1>8. CASE InsertEntry(r)
  <2>1. CASE Goto(r, "audit") /\ ~\E q \in Committed : SameKey(r, entry[q])
    <3>1. /\ tx'[r].pc = "audit" /\ tx'[r].op = tx[r].op /\ tx'[r].src = tx[r].src
          /\ tx'[r].num = tx[r].num /\ tx'[r].year = tx[r].year
      BY <1>1, <1>8, <2>1, GotoLocal DEF InsertEntry
    <3>2. tx[r].pc = "insert" /\ Rev(tx'[r]) = Rev(tx[r])
      BY <1>8, <3>1 DEF InsertEntry, Rev
    <3>3. \A q \in Committed : ~Clash(tx'[r], entry[q].year, entry[q].num, entry[q].rev)
      BY <2>1, <3>1, <3>2 DEF SameKey, Clash, ReversalOf, Rev
    <3>4. ASSUME NEW q \in Req \ {r}, Holding(tx[q])
          PROVE  ~Clash(tx'[r], tx[q].year, tx[q].num, Rev(tx[q]))
      <4>1. ~SameKey(r, NewRow(q))
        BY <1>8, <3>4 DEF InsertEntry, HasRow, Holding
      <4>2. /\ NewRow(q).year = tx[q].year /\ NewRow(q).num = tx[q].num
            /\ NewRow(q).rev = Rev(tx[q])
        BY DEF NewRow, ReversalOf, Rev
      <4> QED BY <3>1, <3>2, <4>1, <4>2 DEF SameKey, Clash, ReversalOf, Rev
    <3>5. Fresh(r, tx'[r])
      BY <3>3, <3>4 DEF Fresh
    <3> QED BY <1>1, <3>1, <3>2, <3>5 DEF Series
  <2> QED BY <1>2, <1>8, <2>1 DEF InsertEntry, RollBack
<1>9. CASE UpdateEntry(r)
  <2>1. tx'[r].op = "VALIDATE"
    BY <1>1, <1>9 DEF UpdateEntry, Local, Transaction
  <2> QED BY <2>1 DEF Series, Fresh, Holding
<1>10. CASE CountDrafts(r)
  BY <1>2, <1>3, <1>10 DEF CountDrafts, Reject
<1>11. CASE UpsertPeriod(r)
  BY <1>3, <1>11 DEF UpsertPeriod
<1>12. CASE SweepEntries(r)
  <2>1. tx'[r].op \in Switching
    BY <1>1, <1>12 DEF SweepEntries, Local, Transaction
  <2> QED BY <2>1 DEF Series, Fresh, Holding
<1>13. CASE Answer(r)
  <2>1. /\ tx'[r].pc = "answered" /\ tx'[r].op = tx[r].op /\ tx'[r].src = tx[r].src
        /\ tx'[r].num = tx[r].num /\ tx'[r].year = tx[r].year
    BY <1>1, <1>13, GotoLocal DEF Answer
  <2>2. tx[r].pc = "audit"
    BY <1>13 DEF Answer
  <2> QED BY <1>1, <2>1, <2>2 DEF Series, Fresh, Holding, Clash, Rev
<1>14. CASE Timeout(r)
  BY <1>2, <1>14 DEF Timeout, RollBack
<1> QED BY <1>4, <1>5, <1>6, <1>7, <1>8, <1>9, <1>10, <1>11, <1>12, <1>13, <1>14 DEF Advance

(* The invariants after a step, from what holds of each request. *)
LEMMA InvariantsNext ==
    /\ TypeOK' /\ (\A r \in Req : Local(r, tx[r])') => TypeInv'
    /\ (\A r \in Req : Series(tx[r])') => NumbersRead'
    /\ (\A r \in Req : Fresh(r, tx[r])') => RowsFresh'
<1>1. \A r \in Req : HasRow(r)' <=> Holding(tx'[r])
  BY DEF HasRow, Holding
<1>2. \A r \in Req : ReversalOf(r)' = Rev(tx'[r])
  BY DEF ReversalOf, Rev
<1>3. \A r \in Req, q \in Req :
          SameKey(r, entry[q])' <=> Clash(tx'[r], entry'[q].year, entry'[q].num, entry'[q].rev)
  BY <1>2 DEF SameKey, Clash
<1>4. \A q \in Req : /\ NewRow(q)'.year = tx'[q].year /\ NewRow(q)'.num = tx'[q].num
                     /\ NewRow(q)'.rev = Rev(tx'[q])
  BY <1>2 DEF NewRow
<1>5. \A r \in Req, q \in Req :
          SameKey(r, NewRow(q))' <=> Clash(tx'[r], tx'[q].year, tx'[q].num, Rev(tx'[q]))
  BY <1>2, <1>4 DEF SameKey, Clash
<1>6. (\A r \in Req : Series(tx[r])') => NumbersRead'
  BY DEF NumbersRead, Series
<1>7. (\A r \in Req : Fresh(r, tx[r])') => RowsFresh'
  BY <1>1, <1>3, <1>5 DEF RowsFresh, Fresh, Committed
<1>8. TypeOK' /\ (\A r \in Req : Local(r, tx[r])') => TypeInv'
  BY DEF TypeInv, PcMatchesOp, References, Local
<1> QED BY <1>6, <1>7, <1>8

(* A step that changes one transaction and no table. *)
LEMMA QuietStep ==
    ASSUME NumberInv, NEW r \in Req, Alone(r), Local(r, tx'[r]),
           Series(tx'[r]), Fresh(r, tx'[r])
    PROVE  NumberInv'
<1>1. /\ TypeInv /\ tx \in [Req -> Transaction]
      /\ \A q \in Req : Local(q, tx[q]) /\ Series(tx[q]) /\ Fresh(q, tx[q])
  BY NumberInvLocal, TypeInvLocal DEF NumberInv, TypeInv, TypeOK
<1>2. /\ tx' = [tx EXCEPT ![r] = tx'[r]] /\ entry' = entry /\ period' = period /\ audit' = audit
      /\ \A q \in Req \ {r} : tx'[q] = tx[q]
  BY <1>1 DEF Alone
<1>3. Committed' = Committed /\ \A y : Numbers(y)' = Numbers(y)
  BY <1>2 DEF Committed, Numbers
<1>4. TypeInv'
  <2>1. TypeOK'
    BY <1>1, <1>2 DEF TypeInv, TypeOK, Local
  <2>2. \A q \in Req : Local(q, tx[q])'
    BY <1>1, <1>2, <1>3 DEF Local
  <2> QED BY <2>1, <2>2, InvariantsNext
<1>5. NumbersRead'
  <2>1. \A q \in Req : Series(tx[q])'
    BY <1>1, <1>2, <1>3 DEF Series
  <2> QED BY <2>1, InvariantsNext
<1>6. RowsFresh'
  <2> SUFFICES ASSUME NEW q \in Req PROVE Fresh(q, tx[q])'
    BY InvariantsNext
  <2>1. CASE q = r
    BY <1>2, <1>3, <2>1 DEF Fresh, Holding, Clash, Rev
  <2>2. CASE q # r
    <3> SUFFICES ASSUME Holding(tx[q])
                 PROVE  /\ \A e \in Committed :
                              ~Clash(tx[q], entry[e].year, entry[e].num, entry[e].rev)
                        /\ \A e \in Req \ {q} :
                              Holding(tx'[e]) => ~Clash(tx[q], tx'[e].year, tx'[e].num, Rev(tx'[e]))
      BY <1>2, <1>3, <2>2 DEF Fresh, Holding, Clash, Rev
    <3>1. \A e \in Req \ {q, r} :
              Holding(tx'[e]) => ~Clash(tx[q], tx'[e].year, tx'[e].num, Rev(tx'[e]))
      BY <1>1, <1>2 DEF Fresh
    <3>2. Holding(tx'[r]) => ~Clash(tx[q], tx'[r].year, tx'[r].num, Rev(tx'[r]))
      <4>1. Holding(tx'[r]) => ~Clash(tx'[r], tx[q].year, tx[q].num, Rev(tx[q]))
        BY <2>2 DEF Fresh
      <4> QED BY <4>1 DEF Clash
    <3> QED BY <1>1, <3>1, <3>2 DEF Fresh
  <2> QED BY <2>1, <2>2
<1>7. (UniqueNumbers /\ GaplessNumbers /\ SeriesSaturates)'
  BY <1>2, <1>3 DEF NumberInv, UniqueNumbers, GaplessNumbers, SeriesSaturates
<1> QED BY <1>4, <1>5, <1>6, <1>7 DEF NumberInv, TypeInv

(* A step that commits the rows of one transaction, whole or cut short. *)
LEMMA PersistStep ==
    ASSUME NumberInv, NEW r \in Req, tx[r].pc \in Running, NEW label \in Finished,
           Persist(r), End(r, label)
    PROVE  NumberInv'
<1>1. /\ TypeInv /\ tx \in [Req -> Transaction]
      /\ \A q \in Req : Local(q, tx[q]) /\ Series(tx[q]) /\ Fresh(q, tx[q])
  BY NumberInvLocal, TypeInvLocal DEF NumberInv, TypeInv, TypeOK
<1>2. /\ Blank(label) \in Transaction /\ Blank(label).pc = label /\ Blank(label).touched = {}
      /\ tx' = [tx EXCEPT ![r] = Blank(label)] /\ tx'[r] = Blank(label)
      /\ \A q \in Req \ {r} : tx'[q] = tx[q]
  BY <1>1, BlankType DEF End
<1>3. /\ entry' \in [Req -> Entry \cup {None}]
      /\ period' \in [Period -> {"OPEN", "CLOSED"}]
      /\ audit' \in SUBSET Req
      /\ r \notin Committed
      /\ Committed' = Committed \cup (IF HasRow(r) THEN {r} ELSE {})
  BY <1>1, PersistEffect
<1>4. \A e \in Committed : /\ entry[e] \in Entry
                           /\ entry'[e].year = entry[e].year /\ entry'[e].num = entry[e].num
                           /\ entry'[e].rev = entry[e].rev
  <2> SUFFICES ASSUME NEW e \in Committed
               PROVE  /\ entry[e] \in Entry
                      /\ entry'[e].year = entry[e].year /\ entry'[e].num = entry[e].num
                      /\ entry'[e].rev = entry[e].rev
    OBVIOUS
  <2>1. entry[e] \in Entry
    BY <1>1 DEF TypeInv, TypeOK, Committed
  <2>2. entry'[e] = [entry[e] EXCEPT !.st = entry'[e].st]
    BY <1>1, PersistEffect
  <2> QED BY <2>1, <2>2 DEF Entry
<1>5. HasRow(r) => /\ Holding(tx[r])
                   /\ entry'[r].year = tx[r].year /\ entry'[r].num = tx[r].num
                   /\ entry'[r].rev = Rev(tx[r])
  <2> SUFFICES ASSUME HasRow(r)
               PROVE  /\ Holding(tx[r])
                      /\ entry'[r].year = tx[r].year /\ entry'[r].num = tx[r].num
                      /\ entry'[r].rev = Rev(tx[r])
    OBVIOUS
  <2>1. entry'[r] = NewRow(r)
    BY <1>1, PersistEffect
  <2> QED BY <2>1 DEF NewRow, HasRow, Holding, ReversalOf, Rev
<1> DEFINE After(y) == {entry'[e].num : e \in {q \in Committed' : entry'[q].year = y}}
<1>6. /\ \A y : Numbers(y) \subseteq After(y)
      /\ HasRow(r) => tx[r].num \in After(tx[r].year)
      /\ \A q \in Req : Numbers(tx[q].year)' = After(tx'[q].year)
      /\ \A q \in Req : Numbers(entry[q].year)' = After(entry'[q].year)
  <2>1. ASSUME NEW y, NEW n \in Numbers(y) PROVE n \in After(y)
    <3>1. PICK e \in Committed : entry[e].year = y /\ n = entry[e].num
      BY <2>1 DEF Numbers
    <3>2. e \in Committed' /\ entry'[e].year = y /\ n = entry'[e].num
      BY <1>3, <1>4, <3>1
    <3> QED BY <3>2
  <2>2. HasRow(r) => tx[r].num \in After(tx[r].year)
    BY <1>3, <1>5
  <2> QED BY <2>1, <2>2 DEF Numbers
<1> HIDE DEF After
<1>7. TypeInv'
  <2>1. TypeOK'
    BY <1>1, <1>2, <1>3 DEF TypeOK
  <2>2. ASSUME NEW q \in Req PROVE Local(q, tx[q])'
    <3>1. CASE q = r
      BY <1>2, <3>1 DEF Local
    <3>2. CASE q # r
      <4>1. tx'[q] = tx[q] /\ Local(q, tx[q])
        BY <1>1, <1>2, <3>2
      <4>2. entry[q] = None => entry'[q] = None
        BY <1>3, <3>2 DEF Committed
      <4> QED BY <1>3, <4>1, <4>2 DEF Local
    <3> QED BY <3>1, <3>2
  <2> QED BY <2>1, <2>2, InvariantsNext
<1>8. NumbersRead'
  <2>1. ASSUME NEW q \in Req PROVE Series(tx[q])'
    <3>1. CASE q = r
      BY <1>2, <3>1 DEF Series
    <3>2. CASE q # r
      BY <1>1, <1>2, <1>6, <3>2 DEF Series
    <3> QED BY <3>1, <3>2
  <2> QED BY <2>1, InvariantsNext
<1>9. RowsFresh'
  <2> SUFFICES ASSUME NEW q \in Req PROVE Fresh(q, tx[q])'
    BY InvariantsNext
  <2>1. CASE q = r
    BY <1>2, <2>1 DEF Fresh, Holding
  <2>2. CASE q # r
    <3> SUFFICES ASSUME Holding(tx[q])
                 PROVE  /\ \A e \in Committed' :
                              ~Clash(tx[q], entry'[e].year, entry'[e].num, entry'[e].rev)
                        /\ \A e \in Req \ {q} :
                              Holding(tx'[e]) => ~Clash(tx[q], tx'[e].year, tx'[e].num, Rev(tx'[e]))
      BY <1>2, <2>2 DEF Fresh, Holding, Clash, Rev
    <3>1. ~Holding(tx'[r])
      BY <1>2 DEF Holding
    <3>2. \A e \in Req \ {q} :
              Holding(tx'[e]) => ~Clash(tx[q], tx'[e].year, tx'[e].num, Rev(tx'[e]))
      BY <1>1, <1>2, <3>1 DEF Fresh
    <3>3. \A e \in Committed : ~Clash(tx[q], entry'[e].year, entry'[e].num, entry'[e].rev)
      BY <1>1, <1>4 DEF Fresh
    <3>4. HasRow(r) => ~Clash(tx[q], entry'[r].year, entry'[r].num, entry'[r].rev)
      BY <1>1, <1>5, <2>2 DEF Fresh
    <3> QED BY <1>3, <3>2, <3>3, <3>4
  <2> QED BY <2>1, <2>2
<1>10. UniqueNumbers'
  <2>1. \A e, f \in Committed :
            entry'[e].year = entry'[f].year /\ entry'[e].num = entry'[f].num => e = f
    BY <1>4 DEF NumberInv, UniqueNumbers
  <2>2. HasRow(r) => \A e \in Committed :
            ~(entry'[e].year = entry'[r].year /\ entry'[e].num = entry'[r].num)
    BY <1>1, <1>4, <1>5 DEF Fresh, Clash
  <2> QED BY <1>3, <2>1, <2>2 DEF UniqueNumbers
<1>11. GaplessNumbers'
  <2>1. \A e \in Committed : 1 .. entry'[e].num \subseteq After(entry'[e].year)
    BY <1>4, <1>6 DEF NumberInv, GaplessNumbers
  <2>2. HasRow(r) => 1 .. entry'[r].num \subseteq After(entry'[r].year)
    <3> SUFFICES ASSUME HasRow(r), NEW n \in 1 .. tx[r].num
                 PROVE  n \in After(tx[r].year)
      BY <1>5
    <3>1. tx[r].num \in Nat /\ tx[r].num >= 1 /\ 1 .. (tx[r].num - 1) \subseteq Numbers(tx[r].year)
      BY <1>1, <1>5, LedgerConstants DEF Series, Holding
    <3>2. n = tx[r].num \/ n \in 1 .. (tx[r].num - 1)
      BY <3>1
    <3> QED BY <1>6, <3>1, <3>2
  <2>3. \A e \in Committed' : 1 .. entry'[e].num \subseteq After(entry'[e].year) /\ e \in Req
    <3>1. Committed \subseteq Req
      BY DEF Committed
    <3> QED BY <1>3, <2>1, <2>2, <3>1
  <2> QED BY <1>6, <2>3 DEF GaplessNumbers
<1>12. SeriesSaturates'
  <2>1. HasRow(r) => entry'[r].num <= PadMax + 1
    BY <1>1, <1>5, LedgerConstants DEF Series, Holding
  <2> QED BY <1>3, <1>4, <2>1 DEF NumberInv, SeriesSaturates
<1> QED BY <1>7, <1>8, <1>9, <1>10, <1>11, <1>12 DEF NumberInv, TypeInv

(* NumberInv is inductive. *)
LEMMA NumberInvStep ==
    NumberInv /\ [Next]_vars => NumberInv'
<1> SUFFICES ASSUME NumberInv, [Next]_vars PROVE NumberInv'
  OBVIOUS
<1>1. TypeInv /\ GaplessNumbers /\ SeriesSaturates
  BY DEF NumberInv, TypeInv
<1>2. ASSUME NEW r \in Req, Arrive(r) PROVE NumberInv'
  <2>1. /\ Alone(r) /\ Local(r, tx'[r])
        /\ tx'[r].pc \in {"period", "source", "count", "lock"}
    BY <1>1, <1>2, ArriveLocal
  <2>2. Series(tx'[r]) /\ Fresh(r, tx'[r])
    BY <2>1 DEF Series, Fresh, Holding
  <2> QED BY <2>1, <2>2, QuietStep
<1>3. ASSUME NEW r \in Req, Advance(r) \/ Timeout(r), ~Commit(r) PROVE NumberInv'
  BY <1>1, <1>3, AdvanceLocal, AdvanceSeries, QuietStep
<1>4. ASSUME NEW r \in Req, Commit(r) PROVE NumberInv'
  BY <1>4, PersistStep DEF Commit
<1>5. ASSUME NEW r \in Req, Disconnect(r) PROVE NumberInv'
  BY <1>5, PersistStep DEF Disconnect, InFlight
<1>6. CASE UNCHANGED vars
  BY <1>6 DEF vars, NumberInv, TypeOK, PcMatchesOp, References, NumbersRead, RowsFresh,
              UniqueNumbers, GaplessNumbers, SeriesSaturates, Committed, Numbers, HasRow,
              SameKey, NewRow, ReversalOf
<1> QED BY <1>2, <1>3, <1>4, <1>5, <1>6 DEF Next, Fail, Quiescent

(* NumberInv holds of the empty journal. *)
LEMMA NumberInvInit == Init => NumberInv
<1> SUFFICES ASSUME Init PROVE NumberInv
  OBVIOUS
<1>1. /\ entry = [r \in Req |-> None] /\ period = [p \in Period |-> "OPEN"] /\ audit = {}
      /\ tx = [r \in Req |-> Blank("idle")] /\ Committed = {}
  BY DEF Init, Committed
<1>2. \A r \in Req : tx[r] \in Transaction /\ tx[r].pc = "idle" /\ tx[r].touched = {}
  BY <1>1, BlankType
<1>3. TypeOK
  BY <1>1, <1>2 DEF TypeOK
<1> QED BY <1>1, <1>2, <1>3 DEF NumberInv, PcMatchesOp, References, NumbersRead,
           RowsFresh, HasRow, UniqueNumbers, GaplessNumbers, SeriesSaturates

(* NumberInv holds of every reachable state. *)
THEOREM NumberInvariance == Spec => []NumberInv
<1> QED BY NumberInvInit, NumberInvStep, PTL DEF Spec

(* Every reachable state is well formed, for any number of requests. *)
THEOREM TypeCorrect == Spec => []TypeOK
<1>1. NumberInv => TypeOK
  BY DEF NumberInv
<1> QED BY <1>1, NumberInvariance, PTL

(* No two notes of a year ever share a number (nextJournalEntryNumber with the
   unique key of journal_entries). *)
THEOREM NumbersAreUnique == Spec => []UniqueNumbers
<1>1. NumberInv => UniqueNumbers
  BY DEF NumberInv
<1> QED BY <1>1, NumberInvariance, PTL

(* The series of a year never has a gap, whatever fails or rolls back. *)
THEOREM NumbersAreGapless == Spec => []GaplessNumbers
<1>1. NumberInv => GaplessNumbers
  BY DEF NumberInv
<1> QED BY <1>1, NumberInvariance, PTL

(* The series of a year never goes past the first seven-digit number, because
   nextJournalEntryNumber compares numbers as text. *)
THEOREM SeriesStops == Spec => []SeriesSaturates
<1>1. NumberInv => SeriesSaturates
  BY DEF NumberInv
<1> QED BY <1>1, NumberInvariance, PTL

-----------------------------------------------------------------------------
(* Storno notes. *)

(* What StornoRead says of one transaction t. *)
Reverses(t) ==
    t.op = "STORNO" /\ t.pc \in {"period", "number", "insert", "audit", "answered"}
      => /\ Posted(t.src) /\ entry[t.src].rev = None
         /\ t.lines = Reversed(entry[t.src].lines)

(* A commit changes the status of committed notes and nothing else of them,
   and it makes no posted note a draft. *)
LEMMA PersistKeeps ==
    ASSUME TypeInv, NEW r \in Req, tx[r].pc \in Running, Persist(r), NEW e \in Committed
    PROVE  /\ entry[e] \in Entry /\ entry'[e] \in Entry /\ e \in Committed'
           /\ entry'[e] = [entry[e] EXCEPT !.st = entry'[e].st]
           /\ entry'[e].rev = entry[e].rev /\ entry'[e].lines = entry[e].lines
           /\ entry[e].st # "DRAFT" => entry'[e].st # "DRAFT"
           /\ entry[e].st = "DRAFT" /\ entry'[e].st # "DRAFT" => e \in tx[r].touched
<1>1. entry[e] \in Entry
  BY DEF TypeInv, TypeOK, Committed
<1>2. /\ entry'[e] = [entry[e] EXCEPT !.st = entry'[e].st] /\ entry'[e] \in Entry
      /\ entry'[e].st # entry[e].st => e \in tx[r].touched /\ entry'[e].st # "DRAFT"
      /\ e \in Committed'
  BY PersistEffect
<1> QED BY <1>1, <1>2 DEF Entry

(* Every statement of a storno handler keeps what it read true. *)
LEMMA AdvanceStorno ==
    ASSUME TypeInv, StornoRead, NEW r \in Req, Advance(r) \/ Timeout(r), ~Commit(r)
    PROVE  Reverses(tx'[r])
<1>1. tx \in [Req -> Transaction] /\ tx[r] \in Transaction /\ Local(r, tx[r]) /\ Reverses(tx[r])
  BY TypeInvLocal DEF TypeInv, TypeOK, StornoRead, Reverses
<1>2. ASSUME NEW label \in Finished, End(r, label) PROVE Reverses(tx'[r])
  <2>1. tx'[r] = Blank(label) /\ Blank(label).pc = label
    BY <1>1, <1>2 DEF End, Blank
  <2> QED BY <2>1 DEF Reverses
<1>3. ASSUME NEW label \in Running, Goto(r, label),
             tx[r].op # "STORNO" \/ tx[r].pc \in {"period", "number", "insert", "audit", "answered"}
      PROVE  Reverses(tx'[r])
  <2>1. /\ tx'[r].pc = label /\ tx'[r].op = tx[r].op /\ tx'[r].src = tx[r].src
        /\ tx'[r].lines = tx[r].lines
    BY <1>1, <1>3 DEF Goto, Transaction
  <2> QED BY <1>1, <1>3, <2>1 DEF Reverses
<1>4. CASE ReadDraft(r)
  BY <1>2, <1>3, <1>4 DEF ReadDraft, Reject
<1>5. CASE ReadStornoSource(r)
  <2> DEFINE l == Reversed(entry[tx[r].src].lines)
  <2>1. CASE /\ tx' = [tx EXCEPT ![r].pc = "period", ![r].lines = l]
             /\ entry[tx[r].src].st # "DRAFT" /\ entry[tx[r].src].rev = None
    <3> HIDE DEF l
    <3>1. tx'[r].lines = l /\ tx'[r].src = tx[r].src
      BY <1>1, <2>1 DEF Transaction
    <3>2. tx[r].src \in Committed
      BY <1>1, <1>5 DEF ReadStornoSource, Local
    <3> QED BY <2>1, <3>1, <3>2 DEF Reverses, Posted, l
  <2> QED BY <1>2, <1>5, <2>1 DEF ReadStornoSource, Reject
<1>6. CASE AssertPeriodOpen(r)
  BY <1>2, <1>3, <1>6 DEF AssertPeriodOpen, Reject
<1>7. CASE ReadNumber(r)
  <2>1. /\ tx'[r].op = tx[r].op /\ tx'[r].src = tx[r].src /\ tx'[r].lines = tx[r].lines
        /\ tx[r].pc = "number"
    BY <1>1, <1>7 DEF ReadNumber, Transaction
  <2> QED BY <1>1, <2>1 DEF Reverses
<1>8. CASE InsertEntry(r)
  BY <1>2, <1>3, <1>8 DEF InsertEntry, RollBack
<1>9. CASE UpdateEntry(r)
  <2>1. tx'[r].op = "VALIDATE"
    BY <1>1, <1>9 DEF UpdateEntry, Local, Transaction
  <2> QED BY <2>1 DEF Reverses
<1>10. CASE CountDrafts(r)
  BY <1>1, <1>2, <1>3, <1>10 DEF CountDrafts, Reject, Local
<1>11. CASE UpsertPeriod(r)
  BY <1>1, <1>3, <1>11 DEF UpsertPeriod, Local
<1>12. CASE SweepEntries(r)
  <2>1. tx'[r].op \in Switching
    BY <1>1, <1>12 DEF SweepEntries, Local, Transaction
  <2> QED BY <2>1 DEF Reverses
<1>13. CASE Answer(r)
  BY <1>3, <1>13 DEF Answer
<1>14. CASE Timeout(r)
  BY <1>2, <1>14 DEF Timeout, RollBack
<1> QED BY <1>4, <1>5, <1>6, <1>7, <1>8, <1>9, <1>10, <1>11, <1>12, <1>13, <1>14 DEF Advance

(* StornoInv is inductive. *)
LEMMA StornoInvStep ==
    StornoInv /\ [Next]_vars => StornoInv'
<1> SUFFICES ASSUME StornoInv, [Next]_vars PROVE StornoInv'
  OBVIOUS
<1>1. NumberInv /\ NumberInv' /\ TypeInv /\ GaplessNumbers /\ SeriesSaturates
  BY NumberInvStep DEF StornoInv, NumberInv, TypeInv
<1>2. StornoRead /\ StornoSound /\ \A q \in Req : Reverses(tx[q])
  BY DEF StornoInv, StornoRead, Reverses
<1>3. ASSUME NEW r \in Req, Alone(r), Reverses(tx'[r]) PROVE StornoInv'
  <2>1. entry' = entry /\ Committed' = Committed /\ \A q \in Req \ {r} : tx'[q] = tx[q]
    BY <1>1, <1>3 DEF Alone, Committed, TypeInv, TypeOK
  <2>2. StornoRead'
    <3> SUFFICES ASSUME NEW q \in Req PROVE Reverses(tx[q])'
      BY DEF StornoRead, Reverses
    <3>1. Reverses(tx'[q])
      BY <1>2, <1>3, <2>1
    <3> QED BY <2>1, <3>1 DEF Reverses, Posted
  <2>3. StornoSound'
    BY <1>2, <2>1 DEF StornoSound, Posted
  <2> QED BY <1>1, <2>2, <2>3 DEF StornoInv
<1>4. ASSUME NEW r \in Req, tx[r].pc \in Running, NEW label \in Finished,
             Persist(r), End(r, label)
      PROVE  StornoInv'
  <2>1. /\ tx'[r].pc = label /\ \A q \in Req \ {r} : tx'[q] = tx[q]
    BY <1>1, <1>4, BlankType DEF End, TypeInv, TypeOK
  <2>2. \A e \in Committed :
            /\ e \in Committed' /\ entry'[e].rev = entry[e].rev
            /\ entry'[e].lines = entry[e].lines
            /\ Posted(e) => Posted(e)'
    BY <1>1, <1>4, PersistKeeps DEF Posted
  <2>3. /\ Committed' = Committed \cup (IF HasRow(r) THEN {r} ELSE {})
        /\ HasRow(r) => entry'[r] = NewRow(r)
    BY <1>1, <1>4, PersistEffect
  <2>4. ASSUME NEW e, Posted(e) PROVE e \in Committed
    BY <2>4 DEF Posted
  <2>5. StornoRead'
    <3> SUFFICES ASSUME NEW q \in Req PROVE Reverses(tx[q])'
      BY DEF StornoRead, Reverses
    <3>1. CASE q = r
      BY <2>1, <3>1 DEF Reverses
    <3>2. CASE q # r
      <4>1. tx'[q] = tx[q] /\ Reverses(tx[q])
        BY <1>2, <2>1, <3>2
      <4>2. ASSUME Posted(tx[q].src), entry[tx[q].src].rev = None,
                   tx[q].lines = Reversed(entry[tx[q].src].lines)
            PROVE  /\ Posted(tx[q].src)' /\ entry'[tx'[q].src].rev = None
                   /\ tx'[q].lines = Reversed(entry'[tx'[q].src].lines)
        <5>1. tx[q].src \in Committed
          BY <2>4, <4>2
        <5>2. tx[q].src \in Committed' /\ entry'[tx[q].src].st # "DRAFT"
          BY <1>1, <1>4, <4>2, <5>1, PersistKeeps DEF Posted
        <5> QED BY <2>2, <4>1, <4>2, <5>1, <5>2 DEF Posted
      <4> QED BY <4>1, <4>2 DEF Reverses
    <3> QED BY <3>1, <3>2
  <2>6. StornoSound'
    <3> DEFINE Sound(e) ==
            entry'[e].rev # None =>
               /\ entry'[e].rev \in Committed' /\ entry'[entry'[e].rev].st # "DRAFT"
               /\ entry'[entry'[e].rev].rev = None
               /\ entry'[e].lines = Reversed(entry'[entry'[e].rev].lines)
    <3>1. ASSUME NEW e \in Committed PROVE Sound(e)
      <4> SUFFICES ASSUME entry[e].rev # None PROVE Sound(e)
        BY <2>2
      <4>1. /\ Posted(entry[e].rev) /\ entry[entry[e].rev].rev = None
            /\ entry[e].lines = Reversed(entry[entry[e].rev].lines)
        BY <1>2 DEF StornoSound
      <4>2. entry[e].rev \in Committed
        BY <2>4, <4>1
      <4>3. entry'[entry[e].rev].st # "DRAFT"
        BY <1>1, <1>4, <4>1, <4>2, PersistKeeps DEF Posted
      <4> QED BY <2>2, <4>1, <4>2, <4>3
    <3>2. ASSUME HasRow(r) PROVE Sound(r)
      <4>1. /\ entry'[r].rev = Rev(tx[r]) /\ entry'[r].lines = tx[r].lines
        BY <2>3, <3>2 DEF NewRow, ReversalOf, Rev
      <4> SUFFICES ASSUME tx[r].op = "STORNO" PROVE Sound(r)
        BY <4>1 DEF Rev
      <4>2. /\ Posted(tx[r].src) /\ entry[tx[r].src].rev = None
            /\ tx[r].lines = Reversed(entry[tx[r].src].lines)
        BY <1>2, <3>2 DEF Reverses, HasRow
      <4>3. tx[r].src \in Committed /\ entry'[r].rev = tx[r].src
        BY <2>4, <4>1, <4>2 DEF Rev
      <4>4. entry'[tx[r].src].st # "DRAFT"
        BY <1>1, <1>4, <4>2, <4>3, PersistKeeps DEF Posted
      <4> QED BY <2>2, <4>1, <4>2, <4>3, <4>4
    <3>3. \A e, f \in Committed :
              entry'[e].rev # None /\ entry'[f].rev = entry'[e].rev => f = e
      BY <1>2, <2>2 DEF StornoSound
    <3>4. HasRow(r) => \A e \in Committed : entry'[e].rev # None => entry'[e].rev # entry'[r].rev
      <4>1. Fresh(r, tx[r])
        BY <1>1, NumberInvLocal DEF NumberInv
      <4>2. HasRow(r) => entry'[r].rev = Rev(tx[r]) /\ Holding(tx[r])
        BY <2>3 DEF NewRow, ReversalOf, Rev, HasRow, Holding
      <4> QED BY <2>2, <4>1, <4>2 DEF Fresh, Clash
    <3>5. \A e \in Committed' : Sound(e)
      BY <2>3, <3>1, <3>2
    <3>6. \A e, f \in Committed' :
              entry'[e].rev # None /\ entry'[f].rev = entry'[e].rev => f = e
      BY <2>3, <3>3, <3>4
    <3> QED BY <3>5, <3>6 DEF StornoSound, Posted
  <2> QED BY <1>1, <2>5, <2>6 DEF StornoInv
<1>5. ASSUME NEW r \in Req, Arrive(r) PROVE StornoInv'
  <2>1. Alone(r) /\ (tx'[r].op = "STORNO" => tx'[r].pc = "source")
    BY <1>1, <1>5, ArriveLocal
  <2> QED BY <1>3, <2>1 DEF Reverses
<1>6. ASSUME NEW r \in Req, Advance(r) \/ Timeout(r), ~Commit(r) PROVE StornoInv'
  BY <1>1, <1>2, <1>3, <1>6, AdvanceLocal, AdvanceStorno
<1>7. ASSUME NEW r \in Req, Commit(r) PROVE StornoInv'
  BY <1>4, <1>7 DEF Commit
<1>8. ASSUME NEW r \in Req, Disconnect(r) PROVE StornoInv'
  BY <1>4, <1>8 DEF Disconnect, InFlight
<1>9. CASE UNCHANGED vars
  BY <1>1, <1>2, <1>9 DEF vars, StornoInv, StornoRead, StornoSound, Posted, Committed
<1> QED BY <1>5, <1>6, <1>7, <1>8, <1>9 DEF Next, Fail, Quiescent

(* StornoInv holds of the empty journal. *)
LEMMA StornoInvInit == Init => StornoInv
<1> SUFFICES ASSUME Init PROVE StornoInv
  OBVIOUS
<1>1. Committed = {} /\ \A r \in Req : tx[r].pc = "idle"
  BY BlankType DEF Init, Committed
<1> QED BY <1>1, NumberInvInit DEF StornoInv, StornoRead, StornoSound

(* StornoInv holds of every reachable state. *)
LEMMA StornoInvariance == Spec => []StornoInv
<1> QED BY StornoInvInit, StornoInvStep, PTL DEF Spec

(* A note is reversed at most once, only when it is posted, and never when it
   is a storno itself, however many storno requests run at once. *)
THEOREM StornoIsSound == Spec => []StornoSound
<1>1. StornoInv => StornoSound
  BY DEF StornoInv
<1> QED BY <1>1, StornoInvariance, PTL

(* A posted note stays posted and keeps its number, period and lines, across
   commits, disconnects and reopened periods. *)
THEOREM PostedStaysPosted == Spec => PostingIsFinal
<1>1. NumberInv /\ [Next]_vars => KeepsPosted
  <2> SUFFICES ASSUME NumberInv, [Next]_vars PROVE KeepsPosted
    OBVIOUS
  <2>1. TypeInv /\ GaplessNumbers /\ SeriesSaturates
    BY DEF NumberInv, TypeInv
  <2>2. ASSUME entry' = entry PROVE KeepsPosted
    <3> SUFFICES ASSUME NEW e \in Req, Posted(e)
                 PROVE  Posted(e)' /\ entry'[e] = [entry[e] EXCEPT !.st = entry'[e].st]
      BY DEF KeepsPosted
    <3>1. entry[e] \in Entry
      BY <2>1 DEF Posted, Committed, TypeInv, TypeOK
    <3> QED BY <2>2, <3>1 DEF Posted, Committed, Entry
  <2>3. ASSUME NEW r \in Req, tx[r].pc \in Running, Persist(r) PROVE KeepsPosted
    <3> SUFFICES ASSUME NEW e \in Req, Posted(e)
                 PROVE  Posted(e)' /\ entry'[e] = [entry[e] EXCEPT !.st = entry'[e].st]
      BY DEF KeepsPosted
    <3> QED BY <2>1, <2>3, PersistKeeps DEF Posted
  <2>4. ASSUME NEW r \in Req, Arrive(r) PROVE KeepsPosted
    BY <2>1, <2>2, <2>4, ArriveLocal DEF Alone
  <2>5. ASSUME NEW r \in Req, Advance(r) \/ Timeout(r), ~Commit(r) PROVE KeepsPosted
    BY <2>1, <2>2, <2>5, AdvanceLocal DEF Alone
  <2>6. ASSUME NEW r \in Req, Commit(r) \/ Disconnect(r) PROVE KeepsPosted
    BY <2>3, <2>6 DEF Commit, Disconnect, InFlight
  <2>7. CASE UNCHANGED vars
    BY <2>2, <2>7 DEF vars
  <2> QED BY <2>4, <2>5, <2>6, <2>7 DEF Next, Fail, Quiescent
<1>2. Spec => []NumberInv
  BY NumberInvariance
<1> QED BY <1>1, <1>2, PTL DEF Spec, PostingIsFinal

-----------------------------------------------------------------------------
(* Double entry. *)

(* What BalanceRead says of one transaction t. *)
Balances(t) ==
    /\ t.op = "POST" /\ t.pc \in Running => Balanced(t.lines)
    /\ t.op = "VALIDATE" /\ t.pc \in {"period", "update"} => Balanced(entry[t.src].lines)
    /\ \A e \in t.touched : Balanced(entry[e].lines)

(* Every statement of a handler posts balanced lines only. *)
LEMMA AdvanceBalance ==
    ASSUME TypeInv, BalanceRead, PostedBalances, NEW r \in Req,
           Advance(r) \/ Timeout(r), ~Commit(r)
    PROVE  Balances(tx'[r])
<1>1. tx \in [Req -> Transaction] /\ tx[r] \in Transaction /\ Local(r, tx[r]) /\ Balances(tx[r])
  BY TypeInvLocal DEF TypeInv, TypeOK, BalanceRead, Balances
<1>2. ASSUME NEW label \in Finished, End(r, label) PROVE Balances(tx'[r])
  <2>1. tx'[r] = Blank(label) /\ Blank(label).pc = label /\ Blank(label).touched = {}
    BY <1>1, <1>2 DEF End, Blank
  <2> QED BY <2>1 DEF Balances
<1>3. ASSUME NEW label \in Running, Goto(r, label), tx[r].pc \in Running,
             tx[r].op = "VALIDATE" /\ label \in {"period", "update"}
                => Balanced(entry[tx[r].src].lines)
      PROVE  Balances(tx'[r])
  <2>1. /\ tx'[r].pc = label /\ tx'[r].op = tx[r].op /\ tx'[r].src = tx[r].src
        /\ tx'[r].lines = tx[r].lines /\ tx'[r].touched = tx[r].touched
    BY <1>1, <1>3 DEF Goto, Transaction
  <2> QED BY <1>1, <1>3, <2>1 DEF Balances
<1>4. CASE ReadDraft(r)
  BY <1>2, <1>3, <1>4 DEF ReadDraft, Reject, ValidateDoubleEntry
<1>5. CASE ReadStornoSource(r)
  <2>1. CASE tx' = [tx EXCEPT ![r].pc = "period", ![r].lines = Reversed(entry[tx[r].src].lines)]
    <3>1. tx'[r].op = "STORNO" /\ tx'[r].touched = tx[r].touched
      BY <1>1, <1>5, <2>1 DEF ReadStornoSource, Transaction
    <3> QED BY <1>1, <3>1 DEF Balances
  <2> QED BY <1>2, <1>5, <2>1 DEF ReadStornoSource, Reject
<1>6. CASE AssertPeriodOpen(r)
  <2>1. tx[r].pc = "period"
    BY <1>6 DEF AssertPeriodOpen
  <2>2. tx[r].op = "VALIDATE" => Balanced(entry[tx[r].src].lines)
    BY <1>1, <2>1 DEF Balances
  <2> QED BY <1>2, <1>3, <1>6, <2>1, <2>2 DEF AssertPeriodOpen, Reject
<1>7. CASE ReadNumber(r)
  <2>1. /\ tx'[r].op = tx[r].op /\ tx'[r].pc = "insert" /\ tx'[r].lines = tx[r].lines
        /\ tx'[r].touched = tx[r].touched /\ tx[r].pc = "number"
    BY <1>1, <1>7 DEF ReadNumber, Transaction
  <2> QED BY <1>1, <2>1 DEF Balances
<1>8. CASE InsertEntry(r)
  BY <1>2, <1>3, <1>8 DEF InsertEntry, RollBack
<1>9. CASE UpdateEntry(r)
  <2>1. tx[r].pc = "update" /\ tx[r].op = "VALIDATE"
    BY <1>1, <1>9 DEF UpdateEntry, Local
  <2>2. /\ tx'[r].op = "VALIDATE" /\ tx'[r].pc = "audit" /\ tx'[r].touched = {tx[r].src}
    BY <1>1, <1>9, <2>1 DEF UpdateEntry, Transaction
  <2> QED BY <1>1, <2>1, <2>2 DEF Balances
<1>10. CASE CountDrafts(r)
  BY <1>2, <1>3, <1>10 DEF CountDrafts, Reject
<1>11. CASE UpsertPeriod(r)
  BY <1>3, <1>11 DEF UpsertPeriod
<1>12. CASE SweepEntries(r)
  <2> DEFINE from == IF tx[r].op = "CLOSE" THEN "VALIDATED" ELSE "CLOSED"
             rows == {e \in Committed : entry[e].per = tx[r].per /\ entry[e].st = from}
  <2>1. tx' = [tx EXCEPT ![r].pc = "audit", ![r].touched = rows] /\ tx[r].op \in Switching
    BY <1>1, <1>12 DEF SweepEntries, Local
  <2>2. \A e \in rows : Balanced(entry[e].lines)
    BY DEF PostedBalances, Posted
  <2> HIDE DEF rows
  <2>3. tx'[r].op \in Switching /\ tx'[r].touched = rows
    BY <1>1, <2>1 DEF Transaction
  <2> QED BY <2>2, <2>3 DEF Balances
<1>13. CASE Answer(r)
  BY <1>3, <1>13 DEF Answer
<1>14. CASE Timeout(r)
  BY <1>2, <1>14 DEF Timeout, RollBack
<1> QED BY <1>4, <1>5, <1>6, <1>7, <1>8, <1>9, <1>10, <1>11, <1>12, <1>13, <1>14 DEF Advance

(* BalanceInv is inductive when the posting handlers compute balanced notes. *)
LEMMA BalanceInvStep ==
    ASSUME \A l \in PostedLines : Balanced(Stored(l))
    PROVE  BalanceInv /\ [Next]_vars => BalanceInv'
<1> SUFFICES ASSUME BalanceInv, [Next]_vars PROVE BalanceInv'
  OBVIOUS
<1>1. /\ StornoInv /\ StornoInv' /\ NumberInv /\ TypeInv /\ GaplessNumbers /\ SeriesSaturates
      /\ StornoRead
  BY StornoInvStep DEF BalanceInv, StornoInv, NumberInv, TypeInv
<1>2. BalanceRead /\ PostedBalances /\ \A q \in Req : Balances(tx[q])
  BY DEF BalanceInv, BalanceRead, Balances
<1>3. ASSUME NEW r \in Req, Alone(r), Balances(tx'[r]) PROVE BalanceInv'
  <2>1. entry' = entry /\ Committed' = Committed /\ \A q \in Req \ {r} : tx'[q] = tx[q]
    BY <1>1, <1>3 DEF Alone, Committed, TypeInv, TypeOK
  <2>2. BalanceRead'
    <3> SUFFICES ASSUME NEW q \in Req PROVE Balances(tx[q])'
      BY DEF BalanceRead, Balances
    <3>1. Balances(tx'[q])
      BY <1>2, <1>3, <2>1
    <3> QED BY <2>1, <3>1 DEF Balances
  <2>3. PostedBalances'
    BY <1>2, <2>1 DEF PostedBalances, Posted
  <2> QED BY <1>1, <2>2, <2>3 DEF BalanceInv
<1>4. ASSUME NEW r \in Req, tx[r].pc \in Running, NEW label \in Finished,
             Persist(r), End(r, label)
      PROVE  BalanceInv'
  <2>1. /\ tx'[r].pc = label /\ tx'[r].touched = {}
        /\ \A q \in Req \ {r} : tx'[q] = tx[q]
    BY <1>1, <1>4, BlankType DEF End, TypeInv, TypeOK
  <2>2. \A e \in Committed :
            /\ entry[e] \in Entry /\ entry'[e].lines = entry[e].lines
            /\ entry[e].st = "DRAFT" /\ entry'[e].st # "DRAFT" => e \in tx[r].touched
    BY <1>1, <1>4, PersistKeeps
  <2>3. /\ Committed' = Committed \cup (IF HasRow(r) THEN {r} ELSE {})
        /\ HasRow(r) => entry'[r] = NewRow(r)
    BY <1>1, <1>4, PersistEffect
  <2>4. BalanceRead'
    <3> SUFFICES ASSUME NEW q \in Req PROVE Balances(tx[q])'
      BY DEF BalanceRead, Balances
    <3>1. CASE q = r
      BY <2>1, <3>1 DEF Balances
    <3>2. CASE q # r
      <4>1. tx'[q] = tx[q] /\ Balances(tx[q]) /\ Local(q, tx[q])
        BY <1>1, <1>2, <2>1, <3>2, TypeInvLocal
      <4> QED BY <2>2, <4>1 DEF Balances, Local
    <3> QED BY <3>1, <3>2
  <2>5. ASSUME NEW e \in Committed, entry'[e].st # "DRAFT" PROVE Balanced(entry'[e].lines)
    <3>1. CASE entry[e].st # "DRAFT"
      BY <1>2, <2>2, <3>1 DEF PostedBalances, Posted
    <3>2. CASE entry[e].st = "DRAFT"
      BY <1>2, <2>2, <2>5, <3>2 DEF Balances
    <3> QED BY <3>1, <3>2
  <2>6. ASSUME HasRow(r), entry'[r].st # "DRAFT" PROVE Balanced(entry'[r].lines)
    <3>1. entry'[r].lines = tx[r].lines /\ tx[r].op \in {"POST", "STORNO"}
      BY <2>3, <2>6 DEF NewRow, HasRow
    <3>2. CASE tx[r].op = "POST"
      BY <1>2, <1>4, <3>1, <3>2 DEF Balances
    <3>3. CASE tx[r].op = "STORNO"
      <4>1. Posted(tx[r].src) /\ tx[r].lines = Reversed(entry[tx[r].src].lines)
        BY <1>1, <2>6, <3>3 DEF StornoRead, HasRow
      <4>2. tx[r].src \in Committed /\ Balanced(entry[tx[r].src].lines)
        BY <1>2, <4>1 DEF PostedBalances, Posted
      <4>3. entry[tx[r].src].lines \in Seq(Line)
        BY <2>2, <4>2 DEF Entry
      <4> QED BY <3>1, <4>1, <4>2, <4>3, ReversedBalanced
    <3> QED BY <3>1, <3>2, <3>3
  <2>7. PostedBalances'
    BY <2>3, <2>5, <2>6 DEF PostedBalances, Posted
  <2> QED BY <1>1, <2>4, <2>7 DEF BalanceInv
<1>5. ASSUME NEW r \in Req, Arrive(r) PROVE BalanceInv'
  <2>1. /\ Alone(r) /\ tx'[r].touched = {}
        /\ tx'[r].op = "VALIDATE" => tx'[r].pc = "source"
        /\ tx'[r].op = "POST" => \E l \in PostedLines : tx'[r].lines = Stored(l)
    BY <1>1, <1>5, ArriveLocal
  <2> QED BY <1>3, <2>1 DEF Balances
<1>6. ASSUME NEW r \in Req, Advance(r) \/ Timeout(r), ~Commit(r) PROVE BalanceInv'
  BY <1>1, <1>2, <1>3, <1>6, AdvanceLocal, AdvanceBalance
<1>7. ASSUME NEW r \in Req, Commit(r) \/ Disconnect(r) PROVE BalanceInv'
  BY <1>4, <1>7 DEF Commit, Disconnect, InFlight
<1>8. CASE UNCHANGED vars
  BY <1>1, <1>2, <1>8 DEF vars, BalanceInv, BalanceRead, PostedBalances, Posted, Committed
<1> QED BY <1>5, <1>6, <1>7, <1>8 DEF Next, Fail, Quiescent

(* Every posted note balances to the cent as stored, whatever users type and
   whatever validates it, provided the handlers that post on their own compute
   notes that still balance once the money columns have rounded them. *)
THEOREM PostedNotesBalance ==
    ASSUME \A l \in PostedLines : Balanced(Stored(l))
    PROVE  Spec => []PostedBalances
<1>1. Init => BalanceRead /\ PostedBalances
  <2> SUFFICES ASSUME Init PROVE BalanceRead /\ PostedBalances
    OBVIOUS
  <2>1. Committed = {} /\ \A r \in Req : tx[r].pc = "idle" /\ tx[r].touched = {}
    BY BlankType DEF Init, Committed
  <2> QED BY <2>1 DEF BalanceRead, PostedBalances
<1>2. Spec => []StornoInv
  BY StornoInvariance
<1>3. StornoInv /\ BalanceRead /\ PostedBalances <=> BalanceInv
  BY DEF BalanceInv
<1>4. BalanceInv /\ [Next]_vars => BalanceInv'
  BY BalanceInvStep
<1> QED BY <1>1, <1>2, <1>3, <1>4, PTL DEF Spec

-----------------------------------------------------------------------------
(* The notes a transaction rewrites. *)

(* What TouchedKnown says of one transaction t. *)
Touches(t) ==
    /\ t.op \in Inserting => t.touched = {}
    /\ t.op = "VALIDATE" => t.touched \subseteq {t.src}
    /\ t.op \in Switching => \A e \in t.touched : Posted(e)

(* Every statement of a handler keeps to the notes the handler may rewrite. *)
LEMMA AdvanceTouches ==
    ASSUME TypeInv, TouchedKnown, NEW r \in Req, Advance(r) \/ Timeout(r), ~Commit(r)
    PROVE  Touches(tx'[r])
<1>1. tx \in [Req -> Transaction] /\ tx[r] \in Transaction /\ Local(r, tx[r]) /\ Touches(tx[r])
  BY TypeInvLocal DEF TypeInv, TypeOK, TouchedKnown, Touches
<1>2. ASSUME NEW label \in Finished, End(r, label) PROVE Touches(tx'[r])
  <2>1. tx'[r] = Blank(label) /\ Blank(label).op = "CREATE" /\ Blank(label).touched = {}
    BY <1>1, <1>2, BlankType DEF End
  <2> QED BY <2>1 DEF Touches
<1>3. ASSUME NEW label \in Running, Goto(r, label) PROVE Touches(tx'[r])
  <2>1. /\ tx'[r].op = tx[r].op /\ tx'[r].src = tx[r].src /\ tx'[r].touched = tx[r].touched
    BY <1>1, <1>3 DEF Goto, Transaction
  <2> QED BY <1>1, <2>1 DEF Touches
<1>4. CASE ReadDraft(r)
  BY <1>2, <1>3, <1>4 DEF ReadDraft, Reject
<1>5. CASE ReadStornoSource(r)
  <2> DEFINE l == Reversed(entry[tx[r].src].lines)
  <2>1. CASE tx' = [tx EXCEPT ![r].pc = "period", ![r].lines = l]
    <3> HIDE DEF l
    <3>1. /\ tx'[r].op = tx[r].op /\ tx'[r].src = tx[r].src /\ tx'[r].touched = tx[r].touched
      BY <1>1, <2>1 DEF Transaction
    <3> QED BY <1>1, <3>1 DEF Touches
  <2> QED BY <1>2, <1>5, <2>1 DEF ReadStornoSource, Reject
<1>6. CASE AssertPeriodOpen(r)
  BY <1>2, <1>3, <1>6 DEF AssertPeriodOpen, Reject
<1>7. CASE ReadNumber(r)
  <2>1. /\ tx'[r].op = tx[r].op /\ tx'[r].src = tx[r].src /\ tx'[r].touched = tx[r].touched
    BY <1>1, <1>7 DEF ReadNumber, Transaction
  <2> QED BY <1>1, <2>1 DEF Touches
<1>8. CASE InsertEntry(r)
  BY <1>2, <1>3, <1>8 DEF InsertEntry, RollBack
<1>9. CASE UpdateEntry(r)
  <2>1. tx'[r].op = "VALIDATE" /\ tx'[r].src = tx[r].src /\ tx'[r].touched = {tx[r].src}
    BY <1>1, <1>9 DEF UpdateEntry, Local, Transaction
  <2> QED BY <2>1 DEF Touches
<1>10. CASE CountDrafts(r)
  BY <1>2, <1>3, <1>10 DEF CountDrafts, Reject
<1>11. CASE UpsertPeriod(r)
  BY <1>3, <1>11 DEF UpsertPeriod
<1>12. CASE SweepEntries(r)
  <2>1. tx'[r].op \in Switching /\ \A e \in tx'[r].touched : Posted(e)
    BY <1>1, <1>12 DEF SweepEntries, Local, Transaction, Posted
  <2> QED BY <2>1 DEF Touches
<1>13. CASE Answer(r)
  BY <1>3, <1>13 DEF Answer
<1>14. CASE Timeout(r)
  BY <1>2, <1>14 DEF Timeout, RollBack
<1> QED BY <1>4, <1>5, <1>6, <1>7, <1>8, <1>9, <1>10, <1>11, <1>12, <1>13, <1>14 DEF Advance

(* RegisterInv is inductive: posted notes stay posted while other requests
   commit. *)
LEMMA RegisterInvStep ==
    RegisterInv /\ [Next]_vars => RegisterInv'
<1> SUFFICES ASSUME RegisterInv, [Next]_vars PROVE RegisterInv'
  OBVIOUS
<1>1. StornoInv' /\ NumberInv /\ TypeInv /\ TouchedKnown
  BY StornoInvStep DEF RegisterInv, StornoInv, NumberInv, TypeInv
<1>2. \A q \in Req : Touches(tx[q])
  BY <1>1 DEF TouchedKnown, Touches
<1>3. ASSUME NEW r \in Req, \A q \in Req \ {r} : tx'[q] = tx[q],
             \A e \in Req : Posted(e) => Posted(e)',
             Touches(tx[r])'
      PROVE  RegisterInv'
  <2> SUFFICES ASSUME NEW q \in Req PROVE Touches(tx[q])'
    BY <1>1 DEF RegisterInv, TouchedKnown, Touches
  <2>1. CASE q # r
    <3>1. tx'[q] = tx[q] /\ Touches(tx[q]) /\ tx[q].touched \subseteq Req
      BY <1>1, <1>2, <1>3, <2>1 DEF TypeInv, References, Committed
    <3> QED BY <1>3, <3>1 DEF Touches
  <2> QED BY <1>3, <2>1
<1>4. ASSUME NEW r \in Req, Alone(r), Touches(tx'[r]) PROVE RegisterInv'
  <2>1. entry' = entry /\ Committed' = Committed /\ \A q \in Req \ {r} : tx'[q] = tx[q]
    BY <1>1, <1>4 DEF Alone, Committed, TypeInv, TypeOK
  <2>2. \A e : Posted(e)' <=> Posted(e)
    BY <2>1 DEF Posted
  <2>3. Touches(tx[r])'
    BY <1>4, <2>2 DEF Touches
  <2> QED BY <1>3, <2>1, <2>2, <2>3
<1>5. ASSUME NEW r \in Req, tx[r].pc \in Running, NEW label \in Finished,
             Persist(r), End(r, label)
      PROVE  RegisterInv'
  <2>1. /\ tx'[r].op = "CREATE" /\ tx'[r].touched = {}
        /\ \A q \in Req \ {r} : tx'[q] = tx[q]
    BY <1>1, <1>5, BlankType DEF End, TypeInv, TypeOK
  <2>2. \A e \in Req : Posted(e) => Posted(e)'
    BY <1>1, <1>5, PersistKeeps DEF Posted
  <2>3. Touches(tx[r])'
    BY <2>1 DEF Touches
  <2> QED BY <1>3, <2>1, <2>2, <2>3
<1>6. ASSUME NEW r \in Req, Arrive(r) PROVE RegisterInv'
  <2>1. Alone(r) /\ tx'[r].touched = {}
    BY <1>1, <1>6, ArriveLocal
  <2> QED BY <1>4, <2>1 DEF Touches
<1>7. ASSUME NEW r \in Req, Advance(r) \/ Timeout(r), ~Commit(r) PROVE RegisterInv'
  BY <1>1, <1>4, <1>7, AdvanceLocal, AdvanceTouches DEF NumberInv
<1>8. ASSUME NEW r \in Req, Commit(r) PROVE RegisterInv'
  BY <1>5, <1>8 DEF Commit
<1>9. ASSUME NEW r \in Req, Disconnect(r) PROVE RegisterInv'
  BY <1>5, <1>9 DEF Disconnect, InFlight
<1>10. CASE UNCHANGED vars
  BY <1>1, <1>2, <1>10 DEF vars, RegisterInv, TouchedKnown, Posted, Committed
<1> QED BY <1>6, <1>7, <1>8, <1>9, <1>10 DEF Next, Fail, Quiescent

(* RegisterInv holds of the empty journal. *)
LEMMA RegisterInvInit == Init => RegisterInv
<1> SUFFICES ASSUME Init PROVE RegisterInv
  OBVIOUS
<1>1. \A r \in Req : tx[r].touched = {}
  BY BlankType DEF Init
<1> QED BY <1>1, StornoInvInit DEF RegisterInv, TouchedKnown

(* RegisterInv holds of every reachable state. *)
LEMMA RegisterInvariance == Spec => []RegisterInv
<1> QED BY RegisterInvInit, RegisterInvStep, PTL DEF Spec

-----------------------------------------------------------------------------
(* The book before and after a commit. *)

(* Two committed notes with the same number in the register are one. *)
LEMMA ViewsDistinct ==
    ASSUME UniqueNumbers, NEW e \in Committed, NEW f \in Committed, View(e) = View(f)
    PROVE  e = f
BY DEF UniqueNumbers, View

(* A commit shows a note that was there as it was, up to its status. *)
LEMMA ViewKept ==
    ASSUME RegisterInv, NEW r \in Req, tx[r].pc \in Running, Persist(r), NEW e \in Committed
    PROVE  /\ View(e)' = [View(e) EXCEPT !.st = entry'[e].st]
           /\ View(e).st = entry[e].st
           /\ entry'[e].year = entry[e].year /\ entry'[e].num = entry[e].num
<1>1. TypeInv /\ StornoSound
  BY DEF RegisterInv, StornoInv, NumberInv, TypeInv
<1>2. ASSUME NEW f \in Committed
      PROVE  /\ entry'[f].year = entry[f].year /\ entry'[f].num = entry[f].num
             /\ entry'[f].per = entry[f].per /\ entry'[f].lines = entry[f].lines
             /\ entry'[f].rev = entry[f].rev
  <2>1. entry[f] \in Entry /\ entry'[f] = [entry[f] EXCEPT !.st = entry'[f].st]
    BY <1>1, PersistKeeps
  <2> QED BY <2>1 DEF Entry
<1>3. entry[e].rev # None => entry[e].rev \in Committed
  BY <1>1 DEF StornoSound, Posted
<1>4. entry[e].rev # None => /\ entry'[entry[e].rev].year = entry[entry[e].rev].year
                             /\ entry'[entry[e].rev].num = entry[entry[e].rev].num
  BY <1>2, <1>3
<1> QED BY <1>2, <1>4 DEF View

(* A commit of an inserted note enters it into the register. *)
LEMMA CommitEnters ==
    ASSUME RegisterInv, NEW r \in Req, tx[r].pc \in Running, Persist(r), HasRow(r)
    PROVE  Reg!Enter
<1> DEFINE n == View(r)'
<1>1. TypeInv /\ StornoRead /\ StornoSound /\ TouchedKnown /\ RowsFresh /\ NumbersRead /\ UniqueNumbers
  BY DEF RegisterInv, StornoInv, NumberInv, TypeInv
<1>2. /\ Committed' = Committed \cup {r} /\ r \notin Committed
      /\ entry'[r] = NewRow(r) /\ tx[r].touched = {}
      /\ \A e \in Committed : entry'[e] = entry[e]
  BY <1>1, PersistEffect DEF TouchedKnown, HasRow
<1>3. \A e \in Committed : View(e)' = View(e)
  <2> SUFFICES ASSUME NEW e \in Committed PROVE View(e)' = View(e)
    OBVIOUS
  <2>1. entry[e].rev # None => entry[e].rev \in Committed
    BY <1>1 DEF StornoSound, Posted
  <2> QED BY <1>2, <2>1 DEF View
<1>4. Book' = Book \cup {n}
  BY <1>2, <1>3 DEF Book
<1>5. /\ n.year = tx[r].year /\ n.num = tx[r].num /\ n.per = tx[r].per
      /\ n.lines = tx[r].lines /\ n.st = NewRow(r).st
      /\ n.rev = IF ReversalOf(r) = None THEN None
                 ELSE <<entry'[ReversalOf(r)].year, entry'[ReversalOf(r)].num>>
  BY <1>2 DEF View, NewRow
<1>6. ReversalOf(r) # None =>
         /\ tx[r].op = "STORNO" /\ ReversalOf(r) = tx[r].src /\ Posted(tx[r].src)
         /\ tx[r].src \in Committed /\ entry[tx[r].src].rev = None
         /\ tx[r].lines = Reversed(entry[tx[r].src].lines)
  BY <1>1 DEF ReversalOf, StornoRead, HasRow, Posted
<1>7. tx[r] \in Transaction /\ \A e \in Committed : entry[e] \in Entry
  BY <1>1 DEF TypeInv, TypeOK, Committed
<1>8. ReversalOf(r) # None =>
         n.rev = <<entry[tx[r].src].year, entry[tx[r].src].num>> /\ n.rev \in Year \X Nat
  BY <1>2, <1>5, <1>6, <1>7 DEF Entry
<1>9. n.num \in Nat \ {0} /\ 1 .. (n.num - 1) \subseteq Numbers(n.year)
  <2>1. tx[r].num \in 1 .. (PadMax + 1) /\ 1 .. (tx[r].num - 1) \subseteq Numbers(tx[r].year)
    BY <1>1 DEF NumbersRead, HasRow
  <2> QED BY <1>5, <2>1, LedgerConstants
<1>10. n \in Reg!Note
  <2>1. n.rev \in (Year \X Nat) \cup {None}
    BY <1>5, <1>8
  <2>2. n.st \in {"DRAFT", "VALIDATED", "CLOSED"}
    BY <1>5 DEF NewRow
  <2>3. n.year \in Year /\ n.per \in Period /\ n.lines \in Seq(Line)
    BY <1>5, <1>7 DEF Transaction
  <2>4. n = [year |-> n.year, num |-> n.num, per |-> n.per, lines |-> n.lines,
             st |-> n.st, rev |-> n.rev]
    BY DEF View
  <2> HIDE DEF n
  <2> QED BY <1>9, <2>1, <2>2, <2>3, <2>4 DEF Reg!Note, Reg!Line, Line
<1>11. \A q \in Committed : ~(entry[q].year = tx[r].year /\ entry[q].num = tx[r].num)
                           /\ ~(entry[q].rev # None /\ entry[q].rev = ReversalOf(r))
  BY <1>1 DEF RowsFresh, SameKey
<1>12. \A m \in Book : Reg!Key(m) # Reg!Key(n)
  <2> SUFFICES ASSUME NEW q \in Committed PROVE Reg!Key(View(q)) # Reg!Key(n)
    BY DEF Book
  <2>1. View(q).year = entry[q].year /\ View(q).num = entry[q].num
    BY DEF View
  <2> HIDE DEF n
  <2> QED BY <1>5, <1>11, <2>1 DEF Reg!Key
<1>13. \A k \in 1 .. (n.num - 1) : \E m \in Book : Reg!Key(m) = <<n.year, k>>
  <2> SUFFICES ASSUME NEW k \in 1 .. (n.num - 1)
               PROVE  \E m \in Book : Reg!Key(m) = <<n.year, k>>
    OBVIOUS
  <2>1. PICK q \in Committed : entry[q].year = n.year /\ entry[q].num = k
    <3>1. k \in Numbers(n.year)
      BY <1>9
    <3> HIDE DEF n
    <3> QED BY <3>1 DEF Numbers
  <2>2. View(q) \in Book /\ Reg!Key(View(q)) = <<n.year, k>>
    BY <2>1 DEF Book, View, Reg!Key
  <2> QED BY <2>2
<1>14. n.rev # None => Reg!Reverses(n)
  <2> SUFFICES ASSUME n.rev # None PROVE Reg!Reverses(n)
    OBVIOUS
  <2> DEFINE src == tx[r].src
  <2>1. ReversalOf(r) # None
    BY <1>5
  <2>2. View(src) \in Book /\ n.rev = Reg!Key(View(src))
    BY <1>6, <1>8, <2>1 DEF Book, View, Reg!Key
  <2>3. View(src).st # "DRAFT" /\ View(src).rev = None /\ n.lines = Reg!Reversed(View(src).lines)
    BY <1>5, <1>6, <2>1 DEF View, Posted, Reversed, Reg!Reversed
  <2>4. n.st # "DRAFT"
    BY <1>5, <1>6, <2>1 DEF NewRow
  <2>5. \A m \in Book : m.rev # n.rev
    <3> SUFFICES ASSUME NEW q \in Committed, View(q).rev = n.rev PROVE FALSE
      BY DEF Book
    <3>1. CASE entry[q].rev = None
      <4>1. n.rev = None
        BY <3>1 DEF View
      <4> QED BY <4>1
    <3>2. CASE entry[q].rev # None
      <4>1. entry[q].rev \in Committed /\ src \in Committed
        BY <1>1, <1>6, <2>1, <3>2 DEF StornoSound, Posted
      <4>2. View(q).rev = <<entry[entry[q].rev].year, entry[entry[q].rev].num>>
        BY <3>2 DEF View
      <4>3. /\ entry[entry[q].rev].year = entry[src].year
            /\ entry[entry[q].rev].num = entry[src].num
        BY <1>8, <2>1, <4>2
      <4>4. entry[q].rev = src
        BY <1>1, <4>1, <4>3 DEF UniqueNumbers
      <4> QED BY <1>6, <1>11, <2>1, <3>2, <4>4
    <3> QED BY <3>1, <3>2
  <2> HIDE DEF n, src
  <2> QED BY <2>2, <2>3, <2>4, <2>5 DEF Reg!Reverses
<1>15. n \in Book' \ Book
  <2>1. n \in Book'
    BY <1>4
  <2>2. n \notin Book
    BY <1>12
  <2> QED BY <2>1, <2>2
<1> HIDE DEF n
<1> QED BY <1>4, <1>10, <1>12, <1>13, <1>14, <1>15 DEF Reg!Enter

(* Any other commit changes the status of some notes of the register. *)
LEMMA CommitStamps ==
    ASSUME RegisterInv, NEW r \in Req, tx[r].pc \in Running, Persist(r), ~HasRow(r)
    PROVE  Reg!Stamp
<1> DEFINE st == IF tx[r].op = "CLOSE" THEN "CLOSED" ELSE "VALIDATED"
           T  == {e \in Committed : entry'[e].st # entry[e].st}
           S  == {View(e) : e \in T}
<1>1. TypeInv /\ TouchedKnown /\ UniqueNumbers
  BY DEF RegisterInv, StornoInv, NumberInv, TypeInv
<1>2. Committed' = Committed /\ \A e \in T : e \in tx[r].touched
  BY <1>1, PersistEffect
<1>3. \A e \in T : entry'[e].st = st
  <2> SUFFICES ASSUME NEW e \in T PROVE entry'[e].st = st
    OBVIOUS
  <2>1. entry[e] \in Entry
    BY <1>1 DEF TypeInv, TypeOK, Committed
  <2>2. HoldsEntry(r, e)
    BY DEF Persist, Committed
  <2>3. entry'[e] = [entry[e] EXCEPT !.st = st]
    BY <2>2 DEF Persist, Committed
  <2> QED BY <2>1, <2>3 DEF Entry
<1>4. \A e \in Committed : /\ View(e)' = [View(e) EXCEPT !.st = entry'[e].st]
                           /\ View(e).st = entry[e].st
  BY ViewKept
<1>5. \A e \in Committed \ T : View(e)' = View(e) /\ View(e) \notin S
  <2> SUFFICES ASSUME NEW e \in Committed \ T PROVE View(e)' = View(e) /\ View(e) \notin S
    OBVIOUS
  <2>1. View(e)' = View(e)
    <3>1. View(e)' = [View(e) EXCEPT !.st = View(e).st]
      BY <1>4
    <3> QED BY <3>1 DEF View
  <2>2. View(e) \notin S
    BY <1>1, ViewsDistinct
  <2> QED BY <2>1, <2>2
<1>6. \A e \in T : View(e)' = [View(e) EXCEPT !.st = st]
  BY <1>3, <1>4
<1>7. Book' = (Book \ S) \cup {[n EXCEPT !.st = st] : n \in S}
  <2> HIDE DEF st
  <2>1. Book' = {View(e)' : e \in Committed}
    BY <1>2 DEF Book
  <2>2. Book \ S = {View(e) : e \in Committed \ T}
    BY <1>5 DEF Book
  <2>3. {[n EXCEPT !.st = st] : n \in S} = {[View(e) EXCEPT !.st = st] : e \in T}
    OBVIOUS
  <2>4. {View(e)' : e \in Committed} = {View(e)' : e \in Committed \ T} \cup {View(e)' : e \in T}
    OBVIOUS
  <2>5. {View(e)' : e \in Committed \ T} = {View(e) : e \in Committed \ T}
    BY <1>5
  <2>6. {View(e)' : e \in T} = {[View(e) EXCEPT !.st = st] : e \in T}
    BY <1>6
  <2> QED BY <2>1, <2>2, <2>3, <2>4, <2>5, <2>6
<1>8. \A n \in S : n.st = "DRAFT" => S = {n} /\ st = "VALIDATED"
  <2> SUFFICES ASSUME NEW e \in T, View(e).st = "DRAFT"
               PROVE  S = {View(e)} /\ st = "VALIDATED"
    OBVIOUS
  <2>1. entry[e].st = "DRAFT" /\ e \in tx[r].touched
    BY <1>2, <1>4
  <2>2. tx[r].op = "VALIDATE"
    <3>1. tx[r].op \in Op
      BY <1>1 DEF TypeInv, TypeOK, Transaction
    <3> QED BY <1>1, <2>1, <3>1 DEF TouchedKnown, Posted
  <2>3. \A f \in T : f = e
    BY <1>1, <1>2, <2>1, <2>2 DEF TouchedKnown
  <2> QED BY <2>2, <2>3
<1>9. S \in SUBSET Book /\ st \in {"VALIDATED", "CLOSED"}
  BY DEF Book
<1> HIDE DEF S, st
<1> QED BY <1>7, <1>8, <1>9 DEF Reg!Stamp

(* Whatever interleaves, times out or is cut, the committed notes are a
   register: entered one at a time under the next number of their year,
   reversed at most once, and changed in nothing but their status. *)
THEOREM LedgerImplementsRegister == Spec => ImplementsRegister
<1>1. Init => Reg!Init
  BY DEF Init, Book, Committed, Reg!Init
<1>2. RegisterInv /\ [Next]_vars => [Reg!Next]_Book
  <2> SUFFICES ASSUME RegisterInv, [Next]_vars PROVE [Reg!Next]_Book
    OBVIOUS
  <2>1. TypeInv /\ NumberInv
    BY DEF RegisterInv, StornoInv, NumberInv, TypeInv
  <2>2. ASSUME entry' = entry PROVE Book' = Book
    BY <2>2 DEF Book, View, Committed
  <2>3. ASSUME NEW r \in Req, tx[r].pc \in Running, Persist(r) PROVE Reg!Next
    BY <2>3, CommitEnters, CommitStamps DEF Reg!Next
  <2>4. ASSUME NEW r \in Req, Arrive(r) PROVE Book' = Book
    BY <2>1, <2>2, <2>4, ArriveLocal DEF Alone
  <2>5. ASSUME NEW r \in Req, Advance(r) \/ Timeout(r), ~Commit(r) PROVE Book' = Book
    BY <2>1, <2>2, <2>5, AdvanceLocal DEF Alone, NumberInv
  <2>6. ASSUME NEW r \in Req, Commit(r) \/ Disconnect(r) PROVE Reg!Next
    BY <2>3, <2>6 DEF Commit, Disconnect, InFlight
  <2>7. CASE UNCHANGED vars
    BY <2>2, <2>7 DEF vars
  <2> QED BY <2>4, <2>5, <2>6, <2>7 DEF Next, Fail, Quiescent
<1>3. Spec => []RegisterInv
  BY RegisterInvariance
<1> QED BY <1>1, <1>2, <1>3, PTL DEF Spec, ImplementsRegister, Reg!Spec
-----------------------------------------------------------------------------
(* Accounting periods. *)

(* Transaction t holds the row of period p. *)
HoldsRow(t, p) == t.op \in Switching /\ t.per = p /\ t.pc \in {"sweep", "audit", "answered"}

(* A step of r that commits nothing and leaves r with a transaction that
   rewrites what it should, takes a period row nobody holds, and whose reads
   are as current as they were. *)
Sound(r) ==
    /\ Alone(r) /\ tx[r].pc \in {"idle"} \cup Running /\ tx'[r].pc # "cut"
    /\ PeriodRead(tx'[r])
    /\ \A p \in Period : HoldsRow(tx'[r], p) =>
          HoldsRow(tx[r], p) \/ \A q \in Req \ {r} : ~HoldsPeriod(q, p)
    /\ Current(tx[r]) => Current(tx'[r])

(* An arriving request has read nothing yet. *)
LEMMA ArriveSound ==
    ASSUME TypeInv, NEW r \in Req, Arrive(r)
    PROVE  Sound(r)
<1>1. /\ Alone(r) /\ tx[r].pc = "idle" /\ tx'[r].touched = {}
      /\ tx'[r].pc \in {"period", "source", "count", "lock"}
      /\ tx'[r].op = "CLOSE" => tx'[r].pc = "count"
      /\ tx'[r].op = "VALIDATE" => entry[tx'[r].src].per = tx'[r].per
  BY ArriveLocal
<1> QED BY <1>1 DEF Sound, PeriodRead, HoldsRow, Current

(* A transaction that ends without a commit holds nothing. *)
LEMMA EndSound ==
    ASSUME TypeInv, NEW r \in Req, NEW label \in Finished \ {"cut"}, End(r, label),
           tx[r].pc \in Running, UNCHANGED <<period, entry, audit>>
    PROVE  Sound(r)
<1>1. /\ Alone(r) /\ tx'[r] = Blank(label) /\ Blank(label).pc = label
      /\ Blank(label).op = "CREATE" /\ Blank(label).touched = {}
  BY EndLocal, BlankType
<1> QED BY <1>1 DEF Sound, PeriodRead, HoldsRow, Current

(* Every statement before the commit is sound. *)
LEMMA AdvanceSound ==
    ASSUME TypeInv, TouchedKnown, NEW r \in Req, PeriodRead(tx[r]),
           Advance(r) \/ Timeout(r), ~Commit(r)
    PROVE  Sound(r)
<1> DEFINE t == tx[r]
<1>1. tx \in [Req -> Transaction] /\ t \in Transaction /\ Local(r, t) /\ t.per \in Period
  BY TypeInvLocal DEF TypeInv, TypeOK, Transaction
<1>2. t.pc \in Running
  BY DEF Advance, ReadDraft, ReadStornoSource, AssertPeriodOpen, ReadNumber, InsertEntry,
         UpdateEntry, CountDrafts, UpsertPeriod, SweepEntries, Answer, Commit, Timeout, InFlight
<1>3. /\ period \in [Period -> {"OPEN", "CLOSED"}]
      /\ \A e \in Committed : entry[e].st \in {"DRAFT", "VALIDATED", "CLOSED"}
  BY DEF TypeInv, TypeOK, Committed, Entry
<1>4. CASE ReadDraft(r)
  <2>1. CASE Goto(r, "period")
    BY <1>1, <1>2, <1>4, <2>1, GotoLocal DEF ReadDraft, Sound, PeriodRead, HoldsRow, Current
  <2>2. CASE Reject(r)
    BY <1>2, <1>4, <2>2, EndSound DEF ReadDraft, Reject
  <2> QED BY <1>4, <2>1, <2>2 DEF ReadDraft
<1>5. CASE ReadStornoSource(r)
  <2>1. ASSUME NEW l, tx' = [tx EXCEPT ![r].pc = "period", ![r].lines = l] PROVE Sound(r)
    <3>1. tx'[r] = [t EXCEPT !.pc = "period", !.lines = l] /\ Alone(r)
      BY <1>1, <1>5, <2>1 DEF ReadStornoSource, Alone
    <3>2. tx'[r].pc = "period" /\ tx'[r].op = "STORNO"
      BY <1>1, <1>5, <3>1 DEF Transaction, ReadStornoSource
    <3> QED BY <1>2, <3>1, <3>2 DEF Sound, PeriodRead, HoldsRow, Current
  <2>2. CASE Reject(r)
    BY <1>2, <1>5, <2>2, EndSound DEF ReadStornoSource, Reject
  <2> QED BY <1>5, <2>1, <2>2 DEF ReadStornoSource
<1>6. CASE AssertPeriodOpen(r)
  <2>1. ASSUME NEW label \in {"update", "number"}, Goto(r, label), period[t.per] # "CLOSED"
        PROVE  Sound(r)
    <3>1. period[t.per] = "OPEN" /\ t.op \notin Switching
      BY <1>1, <1>3, <1>6, <2>1 DEF AssertPeriodOpen, Local
    <3>2. /\ Alone(r) /\ tx'[r].pc = label /\ tx'[r].op = t.op /\ tx'[r].per = t.per
          /\ tx'[r].src = t.src /\ tx'[r].touched = t.touched
      BY <1>6, <2>1, GotoLocal DEF AssertPeriodOpen
    <3> QED BY <1>2, <3>1, <3>2 DEF Sound, PeriodRead, HoldsRow, Current
  <2>2. CASE Reject(r)
    BY <1>2, <1>6, <2>2, EndSound DEF AssertPeriodOpen, Reject
  <2> QED BY <1>6, <2>1, <2>2 DEF AssertPeriodOpen
<1>7. CASE ReadNumber(r)
  <2> DEFINE n == NextJournalEntryNumber(t.year)
  <2>1. tx'[r] = [t EXCEPT !.pc = "insert", !.num = n] /\ Alone(r)
    BY <1>1, <1>7 DEF ReadNumber, Alone
  <2> HIDE DEF n
  <2>2. /\ tx'[r].pc = "insert" /\ tx'[r].op = t.op /\ tx'[r].per = t.per
        /\ t.pc = "number" /\ t.op \in Inserting
    BY <1>1, <1>7, <2>1 DEF Transaction, ReadNumber, Local
  <2> QED BY <1>2, <2>1, <2>2 DEF Sound, PeriodRead, HoldsRow, Current
<1>8. CASE InsertEntry(r)
  <2>1. CASE Goto(r, "audit")
    <3>1. t.pc = "insert" /\ t.op \in Inserting
      BY <1>1, <1>8 DEF InsertEntry, Local
    <3> QED BY <1>2, <1>8, <2>1, <3>1, GotoLocal
            DEF InsertEntry, Sound, PeriodRead, HoldsRow, Current
  <2>2. CASE RollBack(r)
    BY <1>2, <1>8, <2>2, EndSound DEF InsertEntry, RollBack
  <2> QED BY <1>8, <2>1, <2>2 DEF InsertEntry
<1>9. CASE UpdateEntry(r)
  <2>1. tx'[r] = [t EXCEPT !.pc = "audit", !.touched = {t.src}] /\ Alone(r)
    BY <1>1, <1>9 DEF UpdateEntry, Alone
  <2>2. /\ tx'[r].pc = "audit" /\ tx'[r].op = t.op /\ tx'[r].per = t.per /\ tx'[r].src = t.src
        /\ t.pc = "update" /\ t.op = "VALIDATE"
    BY <1>1, <1>9, <2>1 DEF Transaction, UpdateEntry, Local
  <2> QED BY <1>2, <2>1, <2>2 DEF Sound, PeriodRead, HoldsRow, Current
<1>10. CASE CountDrafts(r)
  <2>1. CASE /\ Goto(r, "lock")
             /\ ~ \E e \in Committed : entry[e].per = t.per /\ entry[e].st = "DRAFT"
    <3>1. t.pc = "count" /\ t.op \in Switching
      BY <1>1, <1>10 DEF CountDrafts, Local
    <3>2. /\ Alone(r) /\ tx'[r].pc = "lock" /\ tx'[r].op = t.op /\ tx'[r].per = t.per
          /\ tx'[r].touched = t.touched
      BY <1>10, <2>1, GotoLocal DEF CountDrafts
    <3> QED BY <1>2, <2>1, <3>1, <3>2 DEF Sound, PeriodRead, HoldsRow, Current
  <2>2. CASE Reject(r)
    BY <1>2, <1>10, <2>2, EndSound DEF CountDrafts, Reject
  <2> QED BY <1>10, <2>1, <2>2 DEF CountDrafts
<1>11. CASE UpsertPeriod(r)
  <2>1. /\ t.pc = "lock" /\ t.op \in Switching /\ \A q \in Req \ {r} : ~HoldsPeriod(q, t.per)
        /\ Goto(r, "sweep") /\ UNCHANGED <<period, entry, audit>>
    BY <1>1, <1>11 DEF UpsertPeriod, Local
  <2>2. /\ Alone(r) /\ tx'[r].pc = "sweep" /\ tx'[r].op = t.op /\ tx'[r].per = t.per
        /\ tx'[r].touched = t.touched
    BY <2>1, GotoLocal
  <2> QED BY <1>2, <2>1, <2>2 DEF Sound, PeriodRead, HoldsRow, Current
<1>12. CASE SweepEntries(r)
  <2> DEFINE from == IF t.op = "CLOSE" THEN "VALIDATED" ELSE "CLOSED"
             rows == {e \in Committed : entry[e].per = t.per /\ entry[e].st = from}
  <2>1. /\ t.pc = "sweep" /\ t.op \in Switching
        /\ tx' = [tx EXCEPT ![r].pc = "audit", ![r].touched = rows] /\ Alone(r)
    BY <1>1, <1>12 DEF SweepEntries, Local, Alone
  <2> HIDE DEF rows
  <2>2. /\ tx'[r].pc = "audit" /\ tx'[r].op = t.op /\ tx'[r].per = t.per
        /\ tx'[r].touched = rows
    BY <1>1, <2>1 DEF Transaction
  <2>3. \A e \in rows : entry[e].per = t.per
    BY DEF rows
  <2>4. PeriodRead(tx'[r])
    BY <2>1, <2>2, <2>3 DEF PeriodRead, rows
  <2>5. Current(t) => Current(tx'[r])
    BY <1>3, <2>1, <2>2 DEF Current, rows
  <2> QED BY <1>2, <2>1, <2>2, <2>4, <2>5 DEF Sound, HoldsRow
<1>13. CASE Answer(r)
  <2>1. /\ Alone(r) /\ tx'[r].pc = "answered" /\ tx'[r].op = t.op /\ tx'[r].per = t.per
        /\ tx'[r].src = t.src /\ tx'[r].touched = t.touched /\ t.pc = "audit"
    BY <1>13, GotoLocal DEF Answer
  <2> QED BY <1>2, <2>1 DEF Sound, PeriodRead, HoldsRow, Current
<1>14. CASE Timeout(r)
  BY <1>2, <1>14, EndSound DEF Timeout, RollBack
<1> QED BY <1>4, <1>5, <1>6, <1>7, <1>8, <1>9, <1>10, <1>11, <1>12, <1>13, <1>14 DEF Advance

(* A request commits at the end of its handler, or where it was cut. *)
Commits(r) ==
    /\ tx[r].pc \in Running /\ Persist(r)
    /\ (tx[r].pc = "answered" /\ End(r, "committed")) \/ End(r, "cut")

(* Every step is sound, commits or changes nothing. *)
LEMMA StepKinds ==
    ASSUME TypeInv, TouchedKnown, \A r \in Req : PeriodRead(tx[r]), [Next]_vars
    PROVE  (\E r \in Req : Sound(r) \/ Commits(r)) \/ UNCHANGED vars
<1>1. ASSUME NEW r \in Req, Arrive(r) PROVE Sound(r)
  BY <1>1, ArriveSound
<1>2. ASSUME NEW r \in Req, Advance(r) \/ Timeout(r) PROVE Sound(r) \/ Commits(r)
  <2>1. CASE Commit(r)
    BY <2>1 DEF Commit, Commits
  <2> QED BY <1>2, <2>1, AdvanceSound
<1>3. ASSUME NEW r \in Req, Disconnect(r) PROVE Commits(r)
  BY <1>3 DEF Disconnect, InFlight, Commits
<1> QED BY <1>1, <1>2, <1>3 DEF Next, Fail, Quiescent

(* A step of the history: overlapping is remembered. *)
Remembers == overlapped' = (overlapped \/ Cardinality(InFlight') > 1)

(* After a step of one request the requests in flight are finitely many, and
   at most one if none ever overlapped. *)
LEMMA SerialAfter ==
    ASSUME PeriodInv, Remembers, NEW r \in Req, \A q \in Req \ {r} : tx'[q] = tx[q]
    PROVE  /\ IsFiniteSet(InFlight') /\ overlapped' \in BOOLEAN
           /\ ~overlapped' => ~overlapped /\ \A p, q \in InFlight' : p = q
<1>1. InFlight' \in SUBSET (InFlight \union {r})
  BY DEF InFlight
<1>2. IsFiniteSet(InFlight \union {r})
  BY FS_AddElement DEF PeriodInv
<1>3. IsFiniteSet(InFlight')
  BY <1>1, <1>2, FS_Subset
<1>4. ~overlapped' => ~overlapped /\ ~(Cardinality(InFlight') > 1)
  BY DEF Remembers
<1>5. overlapped' \in BOOLEAN
  BY DEF Remembers, PeriodInv
<1> QED BY <1>3, <1>4, <1>5, AtMostOne

(* A sound step keeps what is known of the periods. *)
LEMMA QuietPeriod ==
    ASSUME PeriodInv, NEW r \in Req, Sound(r), Remembers, RegisterInv'
    PROVE  PeriodInv'
<1>1. period' = period /\ entry' = entry /\ Committed' = Committed
  BY DEF Sound, Alone, Committed
<1>2. tx' = [tx EXCEPT ![r] = tx'[r]] /\ tx \in [Req -> Transaction]
  BY DEF Sound, Alone, PeriodInv, RegisterInv, StornoInv, NumberInv, TypeOK
<1>3. \A q \in Req \ {r} : tx'[q] = tx[q]
  BY <1>2
<1>4. /\ IsFiniteSet(InFlight') /\ overlapped' \in BOOLEAN
      /\ ~overlapped' => ~overlapped /\ \A p, q \in InFlight' : p = q
  BY <1>3, SerialAfter
<1>5. \A q \in Req : PeriodRead(tx[q])'
  <2> SUFFICES ASSUME NEW q \in Req PROVE PeriodRead(tx[q])'
    OBVIOUS
  <2>1. PeriodRead(tx'[q])
    BY <1>3 DEF PeriodInv, Sound
  <2> QED BY <1>1, <2>1 DEF PeriodRead
<1>6. PeriodsExclusive'
  <2> SUFFICES ASSUME NEW q \in Req, NEW s \in Req, NEW p \in Period, q # s,
                      HoldsRow(tx'[q], p), HoldsRow(tx'[s], p)
               PROVE  FALSE
    BY DEF PeriodsExclusive, HoldsPeriod, HoldsRow
  <2>1. \A x \in Req : HoldsPeriod(x, p) <=> HoldsRow(tx[x], p)
    BY DEF HoldsPeriod, HoldsRow
  <2>2. CASE q = r
    BY <1>3, <2>1, <2>2 DEF Sound, PeriodInv, PeriodsExclusive
  <2>3. CASE s = r
    BY <1>3, <2>1, <2>3 DEF Sound, PeriodInv, PeriodsExclusive
  <2>4. CASE q # r /\ s # r
    BY <1>3, <2>1, <2>4 DEF PeriodInv, PeriodsExclusive
  <2> QED BY <2>2, <2>3, <2>4
<1>7. ~overlapped' => \A q \in Req : Current(tx[q])'
  <2> SUFFICES ASSUME ~overlapped', NEW q \in Req PROVE Current(tx[q])'
    OBVIOUS
  <2>1. Current(tx'[q])
    BY <1>3, <1>4 DEF PeriodInv, Sound
  <2> QED BY <1>1, <2>1 DEF Current
<1>8. PeriodsSettle'
  <2>1. NoneCut' => NoneCut
    BY <1>3 DEF NoneCut, Sound
  <2> QED BY <1>1, <1>4, <2>1 DEF PeriodInv, PeriodsSettle, OpenPeriodUnsealed,
                                  ClosedPeriodSettled
<1> QED BY <1>4, <1>5, <1>6, <1>7, <1>8 DEF PeriodInv

(* What a commit does to the notes and the periods. *)
LEMMA CommitPeriods ==
    ASSUME PeriodInv, NEW r \in Req, Commits(r)
    PROVE  /\ \A p \in Period : period'[p] = IF ~HoldsPeriod(r, p) THEN period[p]
                                             ELSE IF tx[r].op = "CLOSE" THEN "CLOSED" ELSE "OPEN"
           /\ \A e \in Committed :
                 /\ entry'[e].per = entry[e].per /\ entry[e].per \in Period
                 /\ entry'[e].st = IF ~HoldsEntry(r, e) THEN entry[e].st
                                   ELSE IF tx[r].op = "CLOSE" THEN "CLOSED" ELSE "VALIDATED"
                 /\ entry[e].st \in {"DRAFT", "VALIDATED", "CLOSED"}
           /\ Committed \subseteq Committed'
           /\ \A e \in Committed' \ Committed :
                 /\ e = r /\ HasRow(r) /\ entry'[e].per = tx[r].per
                 /\ entry'[e].st \in {"DRAFT", "VALIDATED"}
<1>1. TypeInv /\ tx[r].pc \in Running /\ Persist(r)
  BY DEF PeriodInv, RegisterInv, StornoInv, NumberInv, TypeInv, Commits
<1>2. /\ Committed' = Committed \cup (IF HasRow(r) THEN {r} ELSE {})
      /\ HasRow(r) => entry'[r] = NewRow(r)
      /\ r \notin Committed
      /\ \A e \in Committed : entry'[e] = [entry[e] EXCEPT !.st = entry'[e].st]
  BY <1>1, PersistEffect
<1>3. \A e \in Committed : entry[e] \in Entry /\ e \in Req
  BY <1>1 DEF TypeInv, TypeOK, Committed
<1>4. ASSUME NEW e \in Committed
      PROVE  /\ entry'[e].per = entry[e].per /\ entry[e].per \in Period
             /\ entry'[e].st = IF ~HoldsEntry(r, e) THEN entry[e].st
                               ELSE IF tx[r].op = "CLOSE" THEN "CLOSED" ELSE "VALIDATED"
             /\ entry[e].st \in {"DRAFT", "VALIDATED", "CLOSED"}
  <2>1. entry[e] \in Entry /\ e \in Req /\ e # r
    BY <1>2, <1>3
  <2>2. entry'[e].per = entry[e].per /\ entry[e].per \in Period
    BY <1>2, <2>1 DEF Entry
  <2>3. CASE ~HoldsEntry(r, e)
    <3>1. entry'[e] = entry[e]
      BY <1>1, <2>1, <2>3 DEF Persist
    <3> QED BY <2>1, <2>2, <2>3, <3>1 DEF Entry
  <2>4. CASE HoldsEntry(r, e)
    <3> DEFINE s == IF tx[r].op = "CLOSE" THEN "CLOSED" ELSE "VALIDATED"
    <3>1. entry'[e] = [entry[e] EXCEPT !.st = s]
      BY <1>1, <2>1, <2>4 DEF Persist
    <3>2. entry'[e].st = s
      BY <2>1, <3>1 DEF Entry
    <3> QED BY <2>1, <2>2, <2>4, <3>2 DEF Entry
  <2> QED BY <2>3, <2>4
<1>5. HasRow(r) => entry'[r].per = tx[r].per /\ entry'[r].st \in {"DRAFT", "VALIDATED"}
  BY <1>2 DEF NewRow
<1>6. \A p \in Period : period'[p] = IF ~HoldsPeriod(r, p) THEN period[p]
                                     ELSE IF tx[r].op = "CLOSE" THEN "CLOSED" ELSE "OPEN"
  BY <1>1 DEF Persist
<1> QED BY <1>2, <1>4, <1>5, <1>6

(* A commit keeps what is known of the periods. *)
LEMMA CommitPeriod ==
    ASSUME PeriodInv, NEW r \in Req, Commits(r), Remembers, RegisterInv'
    PROVE  PeriodInv'
<1> DEFINE t == tx[r]
<1>1. /\ TypeInv /\ TouchedKnown /\ t.pc \in Running /\ PeriodRead(t)
      /\ tx \in [Req -> Transaction] /\ t \in Transaction /\ Local(r, t) /\ Touches(t)
  BY TypeInvLocal DEF PeriodInv, RegisterInv, StornoInv, NumberInv, TypeInv, TypeOK, Commits,
                      TouchedKnown, Touches
<1>2. PICK label \in {"committed", "cut"} :
          End(r, label) /\ (label = "committed" => t.pc = "answered")
  BY DEF Commits
<1>3. /\ tx'[r] = Blank(label) /\ Blank(label).pc = label
      /\ Blank(label).op = "CREATE" /\ Blank(label).touched = {}
      /\ \A q \in Req \ {r} : tx'[q] = tx[q]
  BY <1>1, <1>2, BlankType DEF End
<1>4. /\ IsFiniteSet(InFlight') /\ overlapped' \in BOOLEAN
      /\ ~overlapped' => ~overlapped /\ \A p, q \in InFlight' : p = q
  BY <1>3, SerialAfter
<1>5. /\ \A p \in Period : period'[p] = IF ~HoldsPeriod(r, p) THEN period[p]
                                        ELSE IF t.op = "CLOSE" THEN "CLOSED" ELSE "OPEN"
      /\ \A e \in Committed :
            /\ entry'[e].per = entry[e].per /\ entry[e].per \in Period
            /\ entry'[e].st = IF ~HoldsEntry(r, e) THEN entry[e].st
                              ELSE IF t.op = "CLOSE" THEN "CLOSED" ELSE "VALIDATED"
            /\ entry[e].st \in {"DRAFT", "VALIDATED", "CLOSED"}
      /\ Committed \subseteq Committed'
      /\ \A e \in Committed' \ Committed :
            /\ e = r /\ HasRow(r) /\ entry'[e].per = t.per
            /\ entry'[e].st \in {"DRAFT", "VALIDATED"}
  BY CommitPeriods
(* A closing request seals notes of the period it holds. *)
<1>6. \A e \in Committed : HoldsEntry(r, e) =>
         /\ entry[e].per = t.per /\ e \in t.touched /\ t.op \notin Inserting
         /\ t.op \in Switching => HoldsPeriod(r, entry[e].per)
  <2> SUFFICES ASSUME NEW e \in Committed, HoldsEntry(r, e)
               PROVE  /\ entry[e].per = t.per /\ e \in t.touched /\ t.op \notin Inserting
                      /\ t.op \in Switching => HoldsPeriod(r, entry[e].per)
    OBVIOUS
  <2>1. e \in t.touched /\ t.pc \in {"audit", "answered"} /\ t.op \in Op
    BY <1>1 DEF HoldsEntry, Transaction
  <2>2. t.op \notin Inserting
    BY <1>1, <2>1 DEF Touches
  <2>3. entry[e].per = t.per
    BY <1>1, <2>1, <2>2 DEF Touches, PeriodRead
  <2> QED BY <2>1, <2>2, <2>3 DEF HoldsPeriod
<1>7. ASSUME NEW q \in Req PROVE PeriodRead(tx[q])'
  <2>1. CASE q = r
    BY <1>3, <2>1 DEF PeriodRead
  <2>2. CASE q # r
    <3>1. tx'[q] = tx[q] /\ PeriodRead(tx[q]) /\ Local(q, tx[q]) /\ tx[q] \in Transaction
      BY <1>1, <1>3, <2>2, TypeInvLocal DEF PeriodInv, TypeInv, TypeOK
    <3>2. /\ tx[q].op = "VALIDATE" /\ tx[q].pc \in Running => entry'[tx[q].src].per = tx[q].per
          /\ tx[q].op \in Switching => \A e \in tx[q].touched : entry'[e].per = tx[q].per
      BY <1>5, <3>1 DEF Local, PeriodRead
    <3>3. ASSUME tx[q].op = "REOPEN", tx[q].pc \in {"audit", "answered"}, NEW e \in Committed',
                 entry'[e].per = tx[q].per, entry'[e].st = "CLOSED"
          PROVE  e \in tx[q].touched
      <4>1. e \in Committed /\ entry[e].per = tx[q].per
        BY <1>5, <3>3
      <4>2. CASE entry[e].st = "CLOSED"
        BY <3>1, <3>3, <4>1, <4>2 DEF PeriodRead
      <4>3. CASE entry[e].st # "CLOSED"
        <5>1. HoldsEntry(r, e) /\ t.op = "CLOSE"
          BY <1>5, <3>3, <4>1, <4>3
        <5>2. HoldsPeriod(r, entry[e].per) /\ HoldsPeriod(q, entry[e].per)
          BY <1>6, <3>3, <4>1, <5>1 DEF HoldsPeriod
        <5>3. entry[e].per \in Period
          BY <1>5, <4>1
        <5> QED BY <2>2, <5>2, <5>3 DEF PeriodInv, PeriodsExclusive
      <4> QED BY <4>2, <4>3
    <3> QED BY <3>1, <3>2, <3>3 DEF PeriodRead
  <2> QED BY <2>1, <2>2
<1>8. PeriodsExclusive'
  <2>1. \A q \in Req : \A p : HoldsPeriod(q, p)' => HoldsPeriod(q, p)
    BY <1>3 DEF HoldsPeriod
  <2> QED BY <2>1 DEF PeriodInv, PeriodsExclusive
<1>9. ~overlapped' => \A q \in Req : Current(tx[q])'
  <2> SUFFICES ASSUME ~overlapped', NEW q \in Req PROVE Current(tx[q])'
    OBVIOUS
  <2>1. \A p, s \in InFlight : p = s
    BY <1>4 DEF PeriodInv
  <2>2. tx'[q].pc \notin Running
    <3>1. CASE q = r
      BY <1>3, <3>1
    <3>2. CASE q # r
      <4>1. q \notin InFlight /\ tx'[q] = tx[q]
        BY <1>1, <1>3, <2>1, <3>2 DEF InFlight
      <4> QED BY <4>1 DEF InFlight
    <3> QED BY <3>1, <3>2
  <2> QED BY <2>2 DEF Current
<1>10. PeriodsSettle'
  <2> SUFFICES ASSUME NoneCut' PROVE OpenPeriodUnsealed' /\ (~overlapped' => ClosedPeriodSettled')
    BY DEF PeriodsSettle
  <2>1. t.pc = "answered" /\ NoneCut
    BY <1>1, <1>2, <1>3 DEF NoneCut
  <2>2. OpenPeriodUnsealed'
    <3> SUFFICES ASSUME NEW e \in Committed', entry'[e].st = "CLOSED"
                 PROVE  period'[entry'[e].per] = "CLOSED"
      BY DEF OpenPeriodUnsealed
    <3>1. e \in Committed /\ entry'[e].per = entry[e].per /\ entry[e].per \in Period
      BY <1>5
    <3>2. CASE HoldsEntry(r, e)
      BY <1>5, <1>6, <3>1, <3>2
    <3>3. CASE ~HoldsEntry(r, e)
      <4>1. entry[e].st = "CLOSED"
        BY <1>5, <3>1, <3>3
      <4>2. period[entry[e].per] = "CLOSED"
        BY <2>1, <3>1, <4>1 DEF PeriodInv, PeriodsSettle, OpenPeriodUnsealed
      <4>3. ~(HoldsPeriod(r, entry[e].per) /\ t.op = "REOPEN")
        BY <1>1, <2>1, <3>1, <3>3, <4>1 DEF HoldsPeriod, HoldsEntry, PeriodRead
      <4> QED BY <1>5, <3>1, <4>2, <4>3 DEF HoldsPeriod
    <3> QED BY <3>2, <3>3
  <2>3. ASSUME ~overlapped' PROVE ClosedPeriodSettled'
    <3>1. Current(t) /\ ClosedPeriodSettled
      BY <1>4, <2>1, <2>3 DEF PeriodInv, PeriodsSettle
    <3> SUFFICES ASSUME NEW e \in Committed', period'[entry'[e].per] = "CLOSED"
                 PROVE  entry'[e].st = "CLOSED"
      BY DEF ClosedPeriodSettled
    <3>2. CASE e \notin Committed
      <4>1. HasRow(r) /\ entry'[e].per = t.per
        BY <1>5, <3>2
      <4>2. period[t.per] = "OPEN" /\ t.per \in Period
        BY <1>1, <2>1, <3>1, <4>1 DEF Current, HasRow, Transaction
      <4>3. period'[t.per] = "OPEN"
        BY <1>5, <4>1, <4>2 DEF HasRow, HoldsPeriod
      <4> QED BY <4>1, <4>3
    <3>3. CASE e \in Committed /\ HoldsPeriod(r, entry[e].per)
      <4>1. t.op = "CLOSE" /\ t.per = entry[e].per
        BY <1>5, <3>3 DEF HoldsPeriod
      <4>2. e \in t.touched \/ entry[e].st = "CLOSED"
        BY <2>1, <3>1, <3>3, <4>1 DEF Current
      <4> QED BY <1>5, <2>1, <3>3, <4>1, <4>2 DEF HoldsEntry
    <3>4. CASE e \in Committed /\ ~HoldsPeriod(r, entry[e].per)
      <4>1. period[entry[e].per] = "CLOSED" /\ entry[e].st = "CLOSED"
        BY <1>5, <3>1, <3>4 DEF ClosedPeriodSettled
      <4>2. ~HoldsEntry(r, e)
        <5> SUFFICES ASSUME HoldsEntry(r, e) PROVE FALSE
          OBVIOUS
        <5>1. t.op \notin Switching /\ entry[e].per = t.per
          BY <1>6, <3>4
        <5>2. period[t.per] = "OPEN"
          BY <2>1, <3>1, <5>1 DEF Current
        <5> QED BY <4>1, <5>1, <5>2
      <4> QED BY <1>5, <3>4, <4>1, <4>2
    <3> QED BY <3>2, <3>3, <3>4
  <2> QED BY <2>2, <2>3
<1> QED BY <1>4, <1>7, <1>8, <1>9, <1>10 DEF PeriodInv

(* Every step keeps what is known of the periods. *)
LEMMA PeriodInvStep ==
    PeriodInv /\ [HistoryNext]_<<vars, overlapped>> => PeriodInv'
<1> SUFFICES ASSUME PeriodInv, [HistoryNext]_<<vars, overlapped>> PROVE PeriodInv'
  OBVIOUS
<1>1. [Next]_vars /\ RegisterInv /\ RegisterInv' /\ TypeInv /\ TouchedKnown
  <2>1. [Next]_vars
    BY DEF HistoryNext
  <2> QED BY <2>1, RegisterInvStep DEF PeriodInv, RegisterInv, StornoInv, NumberInv, TypeInv
<1>2. CASE UNCHANGED vars
  <2>1. period' = period /\ entry' = entry /\ tx' = tx
    BY <1>2 DEF vars
  <2>2. Committed' = Committed /\ InFlight' = InFlight
    BY <2>1 DEF Committed, InFlight
  <2>3. overlapped' \in BOOLEAN /\ (~overlapped' => ~overlapped)
    BY DEF PeriodInv, HistoryNext
  <2>4. \A r \in Req : PeriodRead(tx[r])' /\ (Current(tx[r]) => Current(tx[r])')
    BY <2>1, <2>2 DEF PeriodInv, PeriodRead, Current
  <2>5. PeriodsExclusive'
    BY <2>1 DEF PeriodInv, PeriodsExclusive, HoldsPeriod
  <2>6. PeriodsSettle'
    BY <2>1, <2>2, <2>3 DEF PeriodInv, PeriodsSettle, NoneCut, OpenPeriodUnsealed,
                            ClosedPeriodSettled
  <2> QED BY <1>1, <2>2, <2>3, <2>4, <2>5, <2>6 DEF PeriodInv
<1>3. CASE HistoryNext /\ ~UNCHANGED vars
  <2>1. Remembers
    BY <1>3 DEF HistoryNext, Remembers
  <2>2. PICK r \in Req : Sound(r) \/ Commits(r)
    BY <1>1, <1>3, StepKinds DEF PeriodInv
  <2> QED BY <1>1, <2>1, <2>2, QuietPeriod, CommitPeriod
<1> QED BY <1>2, <1>3

(* It holds of every reachable state. *)
THEOREM PeriodInvariance == HistorySpec => []PeriodInv
<1>1. HistoryInit => PeriodInv
  <2> SUFFICES ASSUME HistoryInit PROVE PeriodInv
    OBVIOUS
  <2>1. RegisterInv /\ overlapped = FALSE
    BY RegisterInvInit DEF HistoryInit
  <2>2. \A r \in Req : tx[r].pc = "idle" /\ tx[r].op = "CREATE" /\ tx[r].touched = {}
    BY BlankType DEF HistoryInit, Init
  <2>3. Committed = {} /\ InFlight = {}
    BY <2>2 DEF HistoryInit, Init, Committed, InFlight
  <2>4. \A r \in Req : PeriodRead(tx[r]) /\ Current(tx[r])
    BY <2>2 DEF PeriodRead, Current
  <2>5. PeriodsExclusive
    BY <2>2 DEF PeriodsExclusive, HoldsPeriod
  <2>6. PeriodsSettle
    BY <2>3 DEF PeriodsSettle, OpenPeriodUnsealed, ClosedPeriodSettled
  <2> QED BY <2>1, <2>3, <2>4, <2>5, <2>6, FS_EmptySet DEF PeriodInv
<1> QED BY <1>1, PeriodInvStep, PTL DEF HistorySpec

(* As long as no connection is cut, an open period holds no CLOSED note
   however closings, reopenings and postings interleave, and when requests
   come one at a time a closed period holds only CLOSED notes. *)
THEOREM PeriodsAreSettled == HistorySpec => []PeriodsSettle
<1>1. PeriodInv => PeriodsSettle
  BY DEF PeriodInv
<1> QED BY <1>1, PeriodInvariance, PTL

-----------------------------------------------------------------------------
(* The two monthly runs: arithmetic first. *)

(* A rounded quotient is within half a unit of the quotient. *)
LEMMA ShareBounds ==
    ASSUME NEW a \in Int, NEW b \in Nat \ {0}
    PROVE  /\ RoundedShare(a, b) \in Int
           /\ (2 * b) * RoundedShare(a, b) <= 2 * a + b
           /\ 2 * a + b < (2 * b) * RoundedShare(a, b) + 2 * b
<1> DEFINE n == 2 * a + b
           d == 2 * b
<1>1. n \in Int /\ d \in Nat \ {0}
  OBVIOUS
<1> HIDE DEF n, d
<1>2. n \div d \in Int /\ n = d * (n \div d) + (n % d) /\ n % d \in 0 .. (d - 1)
  BY <1>1
<1>3. d * (n \div d) <= n /\ n < d * (n \div d) + d
  BY <1>1, <1>2
<1> QED BY <1>2, <1>3 DEF RoundedShare, n, d

(* The whole of what is left, when it is due in the last month. *)
LEMMA LastShare ==
    ASSUME NEW rest \in Nat \ {0}
    PROVE  RoundedShare(5 * rest, 4) >= rest /\ RoundedShare(rest, 1) = rest
  BY DEF RoundedShare

(* A share of what is not negative is not negative. *)
LEMMA ShareNat ==
    ASSUME NEW a \in Nat, NEW b \in Nat \ {0}
    PROVE  RoundedShare(a, b) \in Nat
<1>1. PICK q : q = RoundedShare(a, b)
  OBVIOUS
<1>2. a \in Int /\ q \in Int /\ 2 * a + b < (2 * b) * q + 2 * b
  BY <1>1, ShareBounds
<1>3. q \in Int /\ 0 < (2 * b) * (q + 1)
  BY <1>2
<1>4. q + 1 > 0
  BY <1>3
<1> QED BY <1>1, <1>3, <1>4

(* What a month takes is at most what is left; the last month of a method other
   than the linear one takes all of it, any other share of the linear method is
   the same. *)
LEMMA InstalmentBounds ==
    ASSUME NEW x \in FixedAsset, NEW i \in Int, NEW before \in Int
    PROVE  LET amount    == computeDepreciation(x, i, before)
               remaining == Depreciable(x) - before
           IN  /\ amount \in Int
               /\ amount > 0 =>
                    /\ remaining > 0 /\ i \in 0 .. (x.life - 1) /\ amount <= remaining
                    /\ x.method = "LINEAR" =>
                         amount = remaining \/ amount = RoundedShare(Depreciable(x), x.life)
                    /\ x.method # "LINEAR" /\ x.life > 1 /\ i = x.life - 1 => amount = remaining
<1> DEFINE remaining == Depreciable(x) - before
           amount    == computeDepreciation(x, i, before)
           share     == MethodAmount(x, i, remaining)
<1>1. /\ x.value \in Nat /\ x.residual \in Nat /\ x.life \in Nat \ {0} /\ x.start \in Nat
      /\ x.method \in {"LINEAR", "DEGRESSIVE", "ACCELERATED"}
  BY MonthEndConstants
<1>2. Depreciable(x) \in Int /\ remaining \in Int
  BY <1>1 DEF Depreciable
<1>3. NotBelow(x.life - i, 1) \in Nat \ {0}
  BY <1>1 DEF NotBelow
<1>4. share \in Int
  <2> HIDE DEF remaining
  <2>1. CASE x.method = "LINEAR"
    BY <1>1, <1>2, <2>1, ShareBounds DEF MethodAmount
  <2>2. CASE x.method = "DEGRESSIVE"
    <3>1. 5 * remaining \in Int /\ 4 * NotBelow(x.life - i, 1) \in Nat \ {0}
      BY <1>2, <1>3
    <3> QED BY <2>2, <3>1, ShareBounds DEF MethodAmount
  <2>3. CASE x.method = "ACCELERATED"
    <3>1. RoundedShare(Depreciable(x), 2) \in Int
      BY <1>2, ShareBounds
    <3>2. RoundedShare(remaining, NotBelow(x.life - i, 1)) \in Int
      BY <1>2, <1>3, ShareBounds
    <3> QED BY <2>3, <3>1, <3>2 DEF MethodAmount
  <2> QED BY <1>1, <2>1, <2>2, <2>3
<1>5. CASE remaining <= 0 \/ i < 0 \/ i >= x.life
  <2>1. amount = 0
    BY <1>5 DEF computeDepreciation
  <2> HIDE DEF amount, remaining
  <2> QED BY <2>1 DEF amount, remaining
<1>6. CASE ~(remaining <= 0 \/ i < 0 \/ i >= x.life)
  <2>1. amount = NotAbove(share, remaining)
    BY <1>6 DEF computeDepreciation
  <2>2. remaining > 0 /\ i \in 0 .. (x.life - 1)
    BY <1>1, <1>2, <1>6
  <2>3. x.method = "LINEAR" => share = RoundedShare(Depreciable(x), x.life)
    BY DEF MethodAmount
  <2>4. ASSUME x.method # "LINEAR", x.life > 1, i = x.life - 1 PROVE share >= remaining
    <3>1. NotBelow(x.life - i, 1) = 1 /\ i # 0
      BY <1>1, <2>4 DEF NotBelow
    <3>2. remaining \in Nat \ {0}
      BY <1>2, <2>2
    <3> HIDE DEF remaining
    <3>3. RoundedShare(5 * remaining, 4) >= remaining /\ RoundedShare(remaining, 1) = remaining
      BY <3>2, LastShare
    <3>4. CASE x.method = "DEGRESSIVE"
      <4>1. 4 * NotBelow(x.life - i, 1) = 4
        BY <3>1
      <4> QED BY <3>3, <3>4, <4>1 DEF MethodAmount
    <3>5. CASE x.method = "ACCELERATED"
      BY <3>1, <3>2, <3>3, <3>5 DEF MethodAmount
    <3> QED BY <1>1, <2>4, <3>4, <3>5
  <2> HIDE DEF amount, remaining, share
  <2>5. amount \in Int /\ amount <= remaining /\ (amount = remaining \/ amount = share)
        /\ (share >= remaining => amount = remaining)
    BY <1>2, <1>4, <2>1 DEF NotAbove
  <2> QED BY <2>2, <2>3, <2>4, <2>5 DEF amount, remaining
<1> QED BY <1>5, <1>6

-----------------------------------------------------------------------------
(* Totals of the monthly runs. *)

(* The sum of the first terms. *)
LEMMA NextTerm ==
    ASSUME NEW f, NEW n \in Nat, NEW k \in Nat, k = n + 1, \A i \in 1 .. k : f[i] \in Int
    PROVE  SumFunctionOnSet(f, 1 .. k) = f[k] + SumFunctionOnSet(f, 1 .. n)
<1>1. IsFiniteSet(1 .. k)
  BY FS_Interval
<1>2. k \in 1 .. k /\ (1 .. k) \ {k} = 1 .. n
  OBVIOUS
<1> QED BY <1>1, <1>2, SumRemove

LEMMA TwoTerms ==
    ASSUME NEW f, \A i \in 1 .. 2 : f[i] \in Int
    PROVE  SumFunctionOnSet(f, 1 .. 2) = f[1] + f[2]
<1>1. SumFunctionOnSet(f, 1 .. 0) = 0
  <2>1. 1 .. 0 = {}
    OBVIOUS
  <2> QED BY <2>1, SumEmpty
<1>2. f[1] \in Int /\ f[2] \in Int
  OBVIOUS
<1>3. SumFunctionOnSet(f, 1 .. 1) = f[1] + SumFunctionOnSet(f, 1 .. 0)
  <2>1. 0 \in Nat /\ 1 \in Nat /\ 1 = 0 + 1 /\ \A i \in 1 .. 1 : f[i] \in Int
    OBVIOUS
  <2> QED BY <2>1, NextTerm
<1>4. SumFunctionOnSet(f, 1 .. 2) = f[2] + SumFunctionOnSet(f, 1 .. 1)
  <2>1. 1 \in Nat /\ 2 \in Nat /\ 2 = 1 + 1 /\ \A i \in 1 .. 2 : f[i] \in Int
    OBVIOUS
  <2> QED BY <2>1, NextTerm
<1> QED BY <1>1, <1>2, <1>3, <1>4

LEMMA SixTerms ==
    ASSUME NEW f, \A i \in 1 .. 6 : f[i] \in Int
    PROVE  SumFunctionOnSet(f, 1 .. 6) = f[1] + f[2] + f[3] + f[4] + f[5] + f[6]
<1>1. /\ f[1] \in Int /\ f[2] \in Int /\ f[3] \in Int
      /\ f[4] \in Int /\ f[5] \in Int /\ f[6] \in Int
  OBVIOUS
<1>2. SumFunctionOnSet(f, 1 .. 2) = f[1] + f[2]
  BY TwoTerms
<1>3. SumFunctionOnSet(f, 1 .. 3) = f[3] + SumFunctionOnSet(f, 1 .. 2)
  <2>1. 2 \in Nat /\ 3 \in Nat /\ 3 = 2 + 1 /\ \A i \in 1 .. 3 : f[i] \in Int
    OBVIOUS
  <2> QED BY <2>1, NextTerm
<1>4. SumFunctionOnSet(f, 1 .. 4) = f[4] + SumFunctionOnSet(f, 1 .. 3)
  <2>1. 3 \in Nat /\ 4 \in Nat /\ 4 = 3 + 1 /\ \A i \in 1 .. 4 : f[i] \in Int
    OBVIOUS
  <2> QED BY <2>1, NextTerm
<1>5. SumFunctionOnSet(f, 1 .. 5) = f[5] + SumFunctionOnSet(f, 1 .. 4)
  <2>1. 4 \in Nat /\ 5 \in Nat /\ 5 = 4 + 1 /\ \A i \in 1 .. 5 : f[i] \in Int
    OBVIOUS
  <2> QED BY <2>1, NextTerm
<1>6. SumFunctionOnSet(f, 1 .. 6) = f[6] + SumFunctionOnSet(f, 1 .. 5)
  <2>1. 5 \in Nat /\ 6 \in Nat /\ 6 = 5 + 1 /\ \A i \in 1 .. 6 : f[i] \in Int
    OBVIOUS
  <2> QED BY <2>1, NextTerm
<1> QED BY <1>1, <1>2, <1>3, <1>4, <1>5, <1>6

(* Notes of the monthly runs. *)

Row == [debit : Int, credit : Int]

(* The two lines of a depreciation note carry the same amount. *)
LEMMA DepreciationEntry ==
    ASSUME NEW a \in Int
    PROVE  /\ <<D(a), C(a)>> \in Seq(Row)
           /\ DebitTotal(<<D(a), C(a)>>) = a /\ CreditTotal(<<D(a), C(a)>>) = a
<1> DEFINE s == <<D(a), C(a)>>
<1>1. D(a) \in Row /\ C(a) \in Row
  BY DEF Row, D, C
<1>2. s \in Seq(Row) /\ DOMAIN s = 1 .. 2 /\ s[1] = D(a) /\ s[2] = C(a)
  BY <1>1
<1> HIDE DEF s
<1>3. PICK d : d = [i \in DOMAIN s |-> s[i].debit]
  OBVIOUS
<1>4. PICK c : c = [i \in DOMAIN s |-> s[i].credit]
  OBVIOUS
<1>5. DOMAIN d = 1 .. 2 /\ DOMAIN c = 1 .. 2 /\ d[1] = a /\ d[2] = 0 /\ c[1] = 0 /\ c[2] = a
  BY <1>2, <1>3, <1>4 DEF D, C
<1>6. (\A i \in 1 .. 2 : d[i] \in Int) /\ (\A i \in 1 .. 2 : c[i] \in Int)
  BY <1>5
<1>7. SumFunctionOnSet(d, 1 .. 2) = a + 0 /\ SumFunctionOnSet(c, 1 .. 2) = 0 + a
  BY <1>5, <1>6, TwoTerms
<1>8. DebitTotal(s) = a + 0 /\ CreditTotal(s) = 0 + a
  BY <1>3, <1>4, <1>5, <1>7 DEF DebitTotal, CreditTotal, SumFunction
<1> QED BY <1>2, <1>8 DEF s

(* Field f of the lines of a payroll is summed over them. *)
Summed(pay, f) == /\ TotalOf(pay, f) = SumFunctionOnSet([l \in pay |-> l[f]], pay)
                   /\ TotalOf(pay, f) \in Int

(* A total over the lines of a payroll. *)
LEMMA TotalInt ==
    ASSUME NEW pay, IsFiniteSet(pay), NEW f, \A l \in pay : l[f] \in Int
    PROVE  Summed(pay, f)
<1>1. PICK g : g = [l \in pay |-> l[f]]
  OBVIOUS
<1>2. DOMAIN g = pay /\ \A l \in pay : g[l] = l[f]
  BY <1>1
<1>3. SumFunctionOnSet(g, pay) \in Int
  BY <1>2, SumInt
<1>4. TotalOf(pay, f) = SumFunctionOnSet(g, pay)
  BY <1>1, <1>2 DEF TotalOf, SumFunction
<1> QED BY <1>1, <1>3, <1>4 DEF Summed

(* A payroll pays out its gross total. *)
LEMMA PayrollTotals ==
    ASSUME NEW pay \in SUBSET PayRow, PaidOut(pay)
    PROVE  /\ TotalOf(pay, "gross") \in Int /\ TotalOf(pay, "cam") \in Int
           /\ TotalOf(pay, "net") \in Int /\ TotalOf(pay, "cas") \in Int
           /\ TotalOf(pay, "cass") \in Int /\ TotalOf(pay, "tax") \in Nat
           /\ TotalOf(pay, "gross") = TotalOf(pay, "net") + TotalOf(pay, "cas")
                                      + TotalOf(pay, "cass") + TotalOf(pay, "tax")
<1>1. /\ IsFiniteSet(pay)
      /\ \A l \in pay : /\ l.gross \in Nat /\ l.cas \in Nat /\ l.cass \in Nat /\ l.tax \in Nat
                        /\ l.cam \in Nat /\ l.net \in Int
                        /\ l.gross = l.net + l.cas + l.cass + l.tax
  BY DEF PaidOut, PayRow
<1>2. /\ Summed(pay, "gross") /\ Summed(pay, "cam") /\ Summed(pay, "net")
      /\ Summed(pay, "cas") /\ Summed(pay, "cass") /\ Summed(pay, "tax")
  BY <1>1, TotalInt
<1>3. PICK g : g = [l \in pay |-> l.gross]
  OBVIOUS
<1>4. PICK n : n = [l \in pay |-> l.net]
  OBVIOUS
<1>5. PICK a : a = [l \in pay |-> l.cas]
  OBVIOUS
<1>6. PICK h : h = [l \in pay |-> l.cass]
  OBVIOUS
<1>7. PICK t : t = [l \in pay |-> l.tax]
  OBVIOUS
<1>8. PICK na : na = [l \in pay |-> l.net + l.cas]
  OBVIOUS
<1>9. PICK ht : ht = [l \in pay |-> l.cass + l.tax]
  OBVIOUS
<1>10. SumFunctionOnSet(na, pay) = SumFunctionOnSet(n, pay) + SumFunctionOnSet(a, pay)
  <2>1. \A l \in pay : n[l] \in Int /\ a[l] \in Int /\ na[l] = n[l] + a[l]
    BY <1>1, <1>4, <1>5, <1>8
  <2> QED BY <1>1, <2>1, SumPlus
<1>11. SumFunctionOnSet(ht, pay) = SumFunctionOnSet(h, pay) + SumFunctionOnSet(t, pay)
  <2>1. \A l \in pay : h[l] \in Int /\ t[l] \in Int /\ ht[l] = h[l] + t[l]
    BY <1>1, <1>6, <1>7, <1>9
  <2> QED BY <1>1, <2>1, SumPlus
<1>12. SumFunctionOnSet(g, pay) = SumFunctionOnSet(na, pay) + SumFunctionOnSet(ht, pay)
  <2>1. \A l \in pay : na[l] \in Int /\ ht[l] \in Int /\ g[l] = na[l] + ht[l]
    BY <1>1, <1>3, <1>8, <1>9
  <2> QED BY <1>1, <2>1, SumPlus
<1>13. SumFunctionOnSet(t, pay) \in Nat
  <2>1. \A l \in pay : t[l] \in Nat
    BY <1>1, <1>7
  <2> QED BY <1>1, <2>1, SumNat
<1>14. /\ TotalOf(pay, "gross") = SumFunctionOnSet(g, pay) /\ TotalOf(pay, "net") = SumFunctionOnSet(n, pay)
       /\ TotalOf(pay, "cas") = SumFunctionOnSet(a, pay) /\ TotalOf(pay, "cass") = SumFunctionOnSet(h, pay)
       /\ TotalOf(pay, "tax") = SumFunctionOnSet(t, pay)
  BY <1>2, <1>3, <1>4, <1>5, <1>6, <1>7 DEF Summed
<1>15. /\ TotalOf(pay, "gross") \in Int /\ TotalOf(pay, "cam") \in Int
       /\ TotalOf(pay, "net") \in Int /\ TotalOf(pay, "cas") \in Int
       /\ TotalOf(pay, "cass") \in Int /\ TotalOf(pay, "tax") \in Int
  BY <1>2 DEF Summed
<1> QED BY <1>10, <1>11, <1>12, <1>13, <1>14, <1>15

(* Sequences one after the other. *)
LEMMA Joined ==
    ASSUME NEW R, NEW u \in Seq(R), NEW v \in Seq(R)
    PROVE  /\ u \o v \in Seq(R) /\ Len(u \o v) = Len(u) + Len(v)
           /\ \A i \in 1 .. Len(u) : (u \o v)[i] = u[i]
           /\ \A i \in 1 .. Len(v) : (u \o v)[Len(u) + i] = v[i]
  OBVIOUS

(* The note of a payroll balances, whatever it pays. *)
LEMMA PayrollEntry ==
    ASSUME NEW pay \in SUBSET PayRow, PaidOut(pay)
    PROVE  /\ PayrollLines(pay) \in Seq(Row)
           /\ DebitTotal(PayrollLines(pay)) = CreditTotal(PayrollLines(pay))
<1>1. PICK gross, cam, net, cas, cass, tax :
          /\ gross = TotalOf(pay, "gross") /\ cam = TotalOf(pay, "cam") /\ net = TotalOf(pay, "net")
          /\ cas = TotalOf(pay, "cas") /\ cass = TotalOf(pay, "cass") /\ tax = TotalOf(pay, "tax")
  OBVIOUS
<1>2. /\ gross \in Int /\ cam \in Int /\ net \in Int /\ cas \in Int /\ cass \in Int /\ tax \in Nat
      /\ gross = net + cas + cass + tax
  BY <1>1, PayrollTotals
<1>3. PICK s : s = PayrollLines(pay)
  OBVIOUS
<1>4. /\ D(gross) \in Row /\ D(cam) \in Row /\ C(net) \in Row
      /\ C(cas) \in Row /\ C(cass) \in Row /\ C(cam) \in Row /\ C(tax) \in Row
  BY <1>2 DEF Row, D, C
<1>5. PICK u : u = <<D(gross), D(cam), C(net), C(cas), C(cass), C(cam)>>
  OBVIOUS
<1>6. /\ u \in Seq(Row) /\ Len(u) = 6 /\ u[1] = D(gross) /\ u[2] = D(cam) /\ u[3] = C(net)
      /\ u[4] = C(cas) /\ u[5] = C(cass) /\ u[6] = C(cam)
  BY <1>4, <1>5
<1>7. PICK v : v = IF tax > 0 THEN <<C(tax)>> ELSE <<>>
  OBVIOUS
<1>8. /\ v \in Seq(Row) /\ Len(v) \in Nat
      /\ tax > 0 => Len(v) = 1 /\ v[1] = C(tax)
      /\ ~(tax > 0) => Len(v) = 0
  <2>1. CASE tax > 0
    BY <1>4, <1>7, <2>1
  <2>2. CASE ~(tax > 0)
    BY <1>7, <2>2
  <2> QED BY <2>1, <2>2
<1>9. s = u \o v
  BY <1>1, <1>3, <1>5, <1>7 DEF PayrollLines
<1>10. s \in Seq(Row) /\ Len(s) = Len(u) + Len(v)
  BY <1>6, <1>8, <1>9, Joined, ZenonT(60)
<1>11. DOMAIN s = 1 .. Len(s)
  BY <1>10
<1>12. \A i \in 1 .. Len(u) : s[i] = u[i]
  BY <1>6, <1>8, <1>9, Joined, ZenonT(60)
<1>13. \A i \in 1 .. Len(v) : s[Len(u) + i] = v[i]
  <2>1. u \in Seq(Row) /\ v \in Seq(Row)
    BY <1>6, <1>8
  <2>2. \A i \in 1 .. Len(v) : (u \o v)[Len(u) + i] = v[i]
    BY <2>1
  <2> QED BY <1>9, <2>2
<1>14. Len(u) = 6 /\ Len(v) \in Nat
  BY <1>6, <1>8
<1>15. 1 .. 6 \subseteq DOMAIN s
  BY <1>10, <1>11, <1>14
<1>16. PICK d : d = [i \in DOMAIN s |-> s[i].debit]
  OBVIOUS
<1>17. PICK c : c = [i \in DOMAIN s |-> s[i].credit]
  OBVIOUS
<1>18. /\ d[1] = gross /\ d[2] = cam /\ d[3] = 0 /\ d[4] = 0 /\ d[5] = 0 /\ d[6] = 0
       /\ c[1] = 0 /\ c[2] = 0 /\ c[3] = net /\ c[4] = cas /\ c[5] = cass /\ c[6] = cam
  <2>1. 1 \in DOMAIN s /\ 2 \in DOMAIN s /\ 3 \in DOMAIN s /\ 4 \in DOMAIN s /\ 5 \in DOMAIN s /\ 6 \in DOMAIN s
    BY <1>15
  <2>2. /\ s[1] = D(gross) /\ s[2] = D(cam) /\ s[3] = C(net)
        /\ s[4] = C(cas) /\ s[5] = C(cass) /\ s[6] = C(cam)
    BY <1>6, <1>12, <1>14
  <2> QED BY <1>16, <1>17, <2>1, <2>2 DEF D, C
<1>19. (\A i \in 1 .. 6 : d[i] \in Int) /\ (\A i \in 1 .. 6 : c[i] \in Int)
  BY <1>2, <1>18
<1>20. /\ SumFunctionOnSet(d, 1 .. 6) = gross + cam + 0 + 0 + 0 + 0
       /\ SumFunctionOnSet(c, 1 .. 6) = 0 + 0 + net + cas + cass + cam
  BY <1>18, <1>19, SixTerms
<1>21. DebitTotal(s) = SumFunctionOnSet(d, 1 .. Len(s)) /\ CreditTotal(s) = SumFunctionOnSet(c, 1 .. Len(s))
  BY <1>16, <1>17, <1>11 DEF DebitTotal, CreditTotal, SumFunction
<1>22. CASE tax > 0
  <2>1. Len(v) = 1 /\ v[1] = C(tax)
    BY <1>8, <1>22
  <2>2. Len(s) = 7
    BY <1>10, <1>14, <2>1
  <2>3. 7 \in DOMAIN s
    BY <1>11, <2>2
  <2>4. s[7] = C(tax)
    <3>1. 1 \in 1 .. Len(v) /\ Len(u) + 1 = 7
      BY <1>14, <2>1
    <3> QED BY <1>13, <2>1, <3>1
  <2>5. d[7] = 0 /\ c[7] = tax
    BY <1>16, <1>17, <2>3, <2>4 DEF C
  <2>6. /\ 6 \in Nat /\ 7 \in Nat /\ 7 = 6 + 1
        /\ (\A i \in 1 .. 7 : d[i] \in Int) /\ (\A i \in 1 .. 7 : c[i] \in Int)
    BY <1>2, <1>18, <2>5
  <2>7. /\ SumFunctionOnSet(d, 1 .. 7) = d[7] + SumFunctionOnSet(d, 1 .. 6)
        /\ SumFunctionOnSet(c, 1 .. 7) = c[7] + SumFunctionOnSet(c, 1 .. 6)
    BY <2>6, NextTerm
  <2>8. DebitTotal(s) = CreditTotal(s)
    BY <1>2, <1>20, <1>21, <2>5, <2>7, <2>2
  <2> QED BY <1>3, <1>10, <2>8
<1>23. CASE ~(tax > 0)
  <2>1. Len(v) = 0 /\ tax = 0
    BY <1>2, <1>8, <1>23
  <2>2. Len(s) = 6
    BY <1>10, <1>14, <2>1
  <2>3. DebitTotal(s) = CreditTotal(s)
    BY <1>2, <1>20, <1>21, <2>1, <2>2
  <2> QED BY <1>3, <1>10, <2>3
<1> QED BY <1>22, <1>23

(* A line pays out its gross salary. *)
LEMMA LinePays ==
    ASSUME NEW e \in Call, NEW s \in Salary
    PROVE  /\ PayLine(e, s) \in PayRow
           /\ PayLine(e, s).gross = PayLine(e, s).net + PayLine(e, s).cas + PayLine(e, s).cass
                                    + PayLine(e, s).tax
<1>1. s.gross \in Nat /\ s.deduction \in Nat
  BY MonthEndConstants
<1>2. PICK cas, cass, cam, tax :
          /\ cas = RoundedShare(25 * s.gross, 100) /\ cass = RoundedShare(10 * s.gross, 100)
          /\ cam = RoundedShare(225 * s.gross, 10000)
          /\ tax = RoundedShare(NotBelow(s.gross - cas - cass - s.deduction, 0), 10)
  OBVIOUS
<1>3. cas \in Nat /\ cass \in Nat /\ cam \in Nat
  <2>1. 25 * s.gross \in Nat /\ 10 * s.gross \in Nat /\ 225 * s.gross \in Nat
    BY <1>1
  <2> QED BY <1>2, <2>1, ShareNat
<1>4. tax \in Nat
  <2>1. NotBelow(s.gross - cas - cass - s.deduction, 0) \in Nat
    BY <1>1, <1>3 DEF NotBelow
  <2> QED BY <1>2, <2>1, ShareNat
<1>5. PayLine(e, s) = [employee |-> e, gross |-> s.gross, cas |-> cas, cass |-> cass, tax |-> tax,
                       cam |-> cam, net |-> s.gross - cas - cass - tax]
  BY <1>2 DEF PayLine
<1> QED BY <1>1, <1>3, <1>4, <1>5 DEF PayRow

(* The image of a finite set is finite. *)
LEMMA ImageFinite ==
    ASSUME NEW S, IsFiniteSet(S), NEW f
    PROVE  IsFiniteSet({f[x] : x \in S})
<1> DEFINE T == {f[x] : x \in S}
           g == [x \in S |-> f[x]]
<1>1. g \in Surjection(S, T)
  BY DEF Surjection
<1> HIDE DEF T, g
<1> QED BY <1>1, FS_Surjection DEF T

-----------------------------------------------------------------------------
(* Records of an asset. *)

(* What some records book is a number, one more record books its amount more. *)
LEMMA AmountMore ==
    ASSUME NEW R, IsFiniteSet(R), \A d \in R : d.amount \in Int, NEW p, p.amount \in Int, p \notin R
    PROVE  AmountOf(R) \in Int /\ AmountOf(R \cup {p}) = AmountOf(R) + p.amount
<1>1. PICK f : f = [d \in R \cup {p} |-> d.amount]
  OBVIOUS
<1>2. PICK g : g = [d \in R |-> d.amount]
  OBVIOUS
<1>3. DOMAIN f = R \cup {p} /\ DOMAIN g = R /\ (\A d \in R : f[d] = g[d]) /\ f[p] = p.amount
  BY <1>1, <1>2
<1>4. (\A d \in R \cup {p} : f[d] \in Int) /\ (\A d \in R : g[d] \in Int)
  BY <1>1, <1>2
<1>5. AmountOf(R \cup {p}) = SumFunctionOnSet(f, R \cup {p}) /\ AmountOf(R) = SumFunctionOnSet(g, R)
  BY <1>1, <1>2, <1>3 DEF AmountOf, SumFunction
<1>6. SumFunctionOnSet(f, R \cup {p}) = f[p] + SumFunctionOnSet(f, R)
  BY <1>4, SumAdd
<1>7. SumFunctionOnSet(f, R) = SumFunctionOnSet(g, R)
  BY <1>3, SumSame
<1>8. SumFunctionOnSet(g, R) \in Int
  BY <1>4, SumInt
<1> QED BY <1>3, <1>5, <1>6, <1>7, <1>8

LEMMA AmountOfNone == AmountOf({}) = 0
<1>1. PICK g : g = [d \in {} |-> d.amount]
  OBVIOUS
<1>2. DOMAIN g = {} /\ SumFunctionOnSet(g, {}) = 0
  BY <1>1, SumEmpty
<1> QED BY <1>1, <1>2 DEF AmountOf, SumFunction

(* Equal shares for a full life leave less than half a cent a month. *)
LEMMA FullLife ==
    ASSUME NEW x \in FixedAsset, NEW a \in Int, a = x.life * RoundedShare(Depreciable(x), x.life)
    PROVE  2 * (Depreciable(x) - a) <= x.life
<1>1. Depreciable(x) \in Int /\ x.life \in Nat \ {0}
  BY MonthEndConstants DEF Depreciable
<1>2. PICK q, l, v : q = RoundedShare(Depreciable(x), x.life) /\ l = x.life /\ v = Depreciable(x)
  OBVIOUS
<1>3. q \in Int /\ l \in Nat \ {0} /\ v \in Int /\ 2 * v + l < (2 * l) * q + 2 * l
  BY <1>1, <1>2, ShareBounds
<1>4. a = l * q
  BY <1>2
<1>5. (2 * l) * q = 2 * a
  BY <1>3, <1>4
<1>6. 2 * (v - a) <= l
  BY <1>3, <1>5
<1> QED BY <1>2, <1>6

(* One more record that takes what the method says keeps an asset depreciated
   as it should be. *)
LEMMA OneMore ==
    ASSUME NEW x \in FixedAsset, NEW R \in SUBSET RecordRow, IsFiniteSet(R), NEW p \in RecordRow, p \notin R,
           DepreciatedWell(x, R), LinearPace(x, R),
           p.amount > 0, p.amount = computeDepreciation(x, p.month - x.start, AmountOf(R))
    PROVE  DepreciatedWell(x, R \cup {p}) /\ LinearPace(x, R \cup {p})
<1>1. /\ x.life \in Nat \ {0} /\ x.start \in Nat /\ p.month \in Nat /\ p.amount \in Int
      /\ \A d \in R : d.amount \in Int
  BY MonthEndConstants DEF RecordRow
<1>2. PICK before : before = AmountOf(R)
  OBVIOUS
<1>3. before \in Int /\ AmountOf(R \cup {p}) = before + p.amount
  BY <1>1, <1>2, AmountMore
<1>4. PICK v, i : v = Depreciable(x) /\ i = p.month - x.start
  OBVIOUS
<1>5. v \in Int /\ i \in Int
  BY <1>1, <1>4, MonthEndConstants DEF Depreciable
<1>6. /\ v - before > 0 /\ p.amount <= v - before
      /\ x.method = "LINEAR" => p.amount = v - before \/ p.amount = RoundedShare(v, x.life)
      /\ x.method # "LINEAR" /\ x.life > 1 /\ i = x.life - 1 => p.amount = v - before
  BY <1>2, <1>3, <1>4, <1>5, InstalmentBounds
<1>7. PICK n : n = Cardinality(R)
  OBVIOUS
<1>8. n \in Nat /\ Cardinality(R \cup {p}) = n + 1
  BY <1>7, FS_CardinalityType, FS_AddElement
<1>9. LinearPace(x, R \cup {p})
  <2>1. SUFFICES ASSUME x.method = "LINEAR", p.amount # v - before
                 PROVE  before + p.amount = (n + 1) * RoundedShare(v, x.life)
    BY <1>3, <1>4, <1>5, <1>8 DEF LinearPace
  <2>2. p.amount = RoundedShare(v, x.life)
    BY <1>6, <2>1
  <2>3. before = n * p.amount
    <3>1. v - before = 0 \/ before = n * RoundedShare(v, x.life)
      BY <1>2, <1>4, <1>7, <2>1 DEF LinearPace
    <3> QED BY <1>3, <1>5, <1>6, <2>2, <3>1
  <2>4. (n + 1) * p.amount = n * p.amount + p.amount
    BY <1>1, <1>8
  <2> QED BY <2>2, <2>3, <2>4
<1>10. v - (before + p.amount) >= 0
  BY <1>1, <1>3, <1>5, <1>6
<1>11. ASSUME x.method # "LINEAR", x.life > 1, NEW d \in R \cup {p}, d.month = x.start + x.life - 1
       PROVE  v - (before + p.amount) = 0
  <2>1. CASE d = p
    <3>1. i = x.life - 1
      BY <1>1, <1>4, <1>11, <2>1
    <3> QED BY <1>1, <1>3, <1>5, <1>6, <1>11, <3>1
  <2>2. CASE d \in R
    <3>1. v - before = 0
      BY <1>2, <1>4, <1>11, <2>2 DEF DepreciatedWell
    <3> QED BY <1>3, <1>5, <1>6, <3>1
  <2> QED BY <2>1, <2>2
<1>12. ASSUME x.method = "LINEAR", n + 1 = x.life
       PROVE  2 * (v - (before + p.amount)) <= x.life
  <2>1. CASE v - (before + p.amount) = 0
    BY <1>1, <2>1
  <2>2. CASE before + p.amount = x.life * RoundedShare(v, x.life)
    <3>1. before + p.amount \in Int
      BY <1>1, <1>3
    <3> QED BY <1>4, <2>2, <3>1, FullLife
  <2> QED BY <1>3, <1>4, <1>8, <1>9, <1>12, <2>1, <2>2 DEF LinearPace
<1> QED BY <1>3, <1>4, <1>8, <1>9, <1>10, <1>11, <1>12 DEF DepreciatedWell

(* An asset that has no record yet. *)
LEMMA NoneYet ==
    ASSUME NEW x \in FixedAsset, x.residual < x.value
    PROVE  DepreciatedWell(x, {}) /\ LinearPace(x, {})
<1>1. /\ x.life \in Nat \ {0} /\ x.residual \in Nat /\ x.value \in Nat /\ Depreciable(x) \in Int
      /\ Depreciable(x) > 0
  BY MonthEndConstants DEF Depreciable
<1>2. RoundedShare(Depreciable(x), x.life) \in Int
  BY <1>1, ShareBounds
<1>3. AmountOf({}) = 0 /\ Cardinality({}) = 0
  BY AmountOfNone, FS_EmptySet
<1>4. LinearPace(x, {})
  BY <1>2, <1>3 DEF LinearPace
<1> QED BY <1>1, <1>3, <1>4 DEF DepreciatedWell

-----------------------------------------------------------------------------
(* Steps that change only the work of one request. *)

(* A request that has nothing under way is well formed. *)
LEMMA NewWorkFormed ==
    ASSUME NEW label \in {"idle"} \cup Answered, NEW r
    PROVE  /\ NewWork(label) \in Work /\ CallFormed(r, NewWork(label)) /\ PlanDue(NewWork(label))
           /\ NewWork(label).pc = label /\ NewWork(label).op = "EMPLOYEE"
<1>1. PICK t : t = NewWork(label)
  OBVIOUS
<1>2. /\ t.op = "EMPLOYEE" /\ t.pc = label /\ t.plan = {} /\ t.written = {} /\ t.auto = FALSE
      /\ t = NewWork(t.pc) /\ t.pc \notin Phase
  BY <1>1 DEF NewWork, Phase, Answered
<1>3. t \in Work
  <2>1. FALSE \in Truth /\ "EMPLOYEE" \in CallKind
    BY DEF Truth, CallKind
  <2> QED BY <1>1, <2>1 DEF NewWork, Work
<1>4. CallFormed(r, t)
  BY <1>2, FS_EmptySet DEF CallFormed
<1>5. PlanDue(t)
  BY <1>2 DEF PlanDue
<1> QED BY <1>1, <1>2, <1>3, <1>4, <1>5

RunOf(t) == t.op = "PAYROLL" /\ t.pc = "answer"

(* Request r may go on with t: what t has read and computed is right. *)
Fit(r, t) ==
    /\ t \in Work /\ CallFormed(r, t) /\ t.pc \in Phase \cup {"rejected", "rolledback"}
    /\ RunOf(t) => /\ \A p \in Payrolls : payroll[p].month # t.month
                   /\ \A q \in Call \ {r} : HasRun(q) => work[q].month # t.month
    /\ ~mixed' => PlanDue(t)

Moves(r, t) == /\ work[r].pc \in {"idle"} \cup Phase
               /\ work' = [work EXCEPT ![r] = t] /\ NoRow

LEMMA MoveKeeps ==
    ASSUME MonthInv, mixed' = (mixed \/ Cardinality(AtWork') > 1),
           NEW r \in Call, NEW t, Fit(r, t), Moves(r, t)
    PROVE  MonthInv'
<1>1. work \in [Call -> Work] /\ t \in Work
  BY DEF MonthInv, MonthTypeOK, Fit
<1>2. /\ work' \in [Call -> Work] /\ work'[r] = t
      /\ \A q \in Call \ {r} : work'[q] = work[q]
  BY <1>1 DEF Moves
<1>3. /\ employee' = employee /\ asset' = asset /\ payroll' = payroll /\ record' = record /\ note' = note
  BY DEF Moves, NoRow
<1>4. /\ Employees' = Employees /\ Assets' = Assets /\ Payrolls' = Payrolls /\ Notes' = Notes
  BY <1>3 DEF Employees, Assets, Payrolls, Notes
<1>5. MonthTypeOK'
  BY <1>2, <1>3 DEF MonthInv, MonthTypeOK
<1>6. RowsFinite'
  <2>1. AtWork' \subseteq AtWork \cup {r}
    BY <1>2 DEF AtWork
  <2>2. IsFiniteSet(AtWork')
    BY <2>1, FS_AddElement, FS_Subset DEF MonthInv, RowsFinite
  <2> QED BY <1>3, <1>4, <2>2 DEF MonthInv, RowsFinite
<1>7. \A q \in Call : CallFormed(q, work[q])'
  <2>1. \A q \in Call : \A u : CallFormed(q, u)' <=> CallFormed(q, u)
    BY <1>4 DEF CallFormed
  <2>2. CallFormed(r, t)
    BY DEF Fit
  <2> QED BY <1>2, <2>1, <2>2 DEF MonthInv
<1>8. RowsAnswered'
  <2>1. work[r].pc \notin {"committed", "cut"}
    BY DEF Moves, Phase
  <2>2. \A n \in Call : work[n].pc \in {"committed", "cut"} => work'[n].pc = work[n].pc
    BY <1>2, <2>1
  <2>3. \A d \in record : d.by \in Call
    BY DEF MonthInv, MonthTypeOK, RecordRow
  <2>4. \A n \in Notes \cup Payrolls \cup Assets : n \in Call
    BY DEF Notes, Payrolls, Assets
  <2> QED BY <1>3, <1>4, <2>2, <2>3, <2>4 DEF MonthInv, RowsAnswered
<1>9. RunsApart'
  <2>1. \A q \in Call \ {r} : HasRun(q)' <=> HasRun(q)
    BY <1>2 DEF HasRun
  <2>2. HasRun(r)' => RunOf(t)
    BY <1>2 DEF HasRun, RunOf
  <2>3. \A p, q \in Payrolls : payroll[p].month = payroll[q].month => p = q
    BY DEF MonthInv, RunsApart
  <2>4. ASSUME NEW q \in Call, HasRun(q)'
        PROVE  /\ \A p \in Payrolls : payroll[p].month # work'[q].month
               /\ \A s \in Call : HasRun(s)' /\ work'[s].month = work'[q].month => s = q
    <3>1. CASE q = r
      BY <1>2, <2>1, <2>2, <2>4, <3>1 DEF Fit
    <3>2. CASE q # r
      <4>1. HasRun(q) /\ work'[q] = work[q]
        BY <1>2, <2>1, <2>4, <3>2
      <4>2. HasRun(r)' => work'[r].month # work[q].month
        BY <1>2, <2>2, <3>2, <4>1 DEF Fit
      <4> QED BY <1>2, <2>1, <3>2, <4>1, <4>2 DEF MonthInv, RunsApart
    <3> QED BY <3>1, <3>2
  <2> QED BY <1>3, <1>4, <2>3, <2>4 DEF RunsApart
<1>10. EntriesSound'
  <2>1. NothingCut' => NothingCut
    <3>1. work[r].pc # "cut"
      BY DEF Moves, Phase
    <3> QED BY <1>2, <3>1 DEF NothingCut
  <2> QED BY <1>3, <1>4, <2>1 DEF MonthInv, EntriesSound
<1>11. ASSUME ~mixed'
       PROVE  /\ \A p, q \in AtWork' : p = q
              /\ DepreciationSound' /\ \A a \in Assets' : LinearPace(asset'[a], RecordsOf(a)')
              /\ \A q \in Call : PlanDue(work[q])'
  <2>1. ~mixed /\ ~(Cardinality(AtWork') > 1)
    BY <1>11
  <2>2. \A p, q \in AtWork' : p = q
    BY <1>6, <2>1, AtMostOne DEF RowsFinite
  <2>3. \A a : RecordsOf(a)' = RecordsOf(a) /\ Booked(a)' = Booked(a)
    BY <1>3 DEF RecordsOf, Booked
  <2>4. DepreciationSound' /\ \A a \in Assets' : LinearPace(asset'[a], RecordsOf(a)')
    BY <1>3, <1>4, <2>1, <2>3 DEF MonthInv, DepreciationSound
  <2>5. \A u : PlanDue(u)' <=> PlanDue(u)
    BY <1>3, <2>3 DEF PlanDue
  <2>6. PlanDue(t)
    BY <1>11 DEF Fit
  <2>7. \A q \in Call : PlanDue(work[q])'
    BY <1>2, <2>1, <2>5, <2>6 DEF MonthInv
  <2> QED BY <2>2, <2>4, <2>7
<1>12. mixed' \in BOOLEAN
  OBVIOUS
<1> QED BY <1>5, <1>6, <1>7, <1>8, <1>9, <1>10, <1>11, <1>12 DEF MonthInv

-----------------------------------------------------------------------------
(* The steps of a request before its end. *)

(* An end without a commit, and a start with nothing read. *)
LEMMA EndsFit ==
    ASSUME NEW r \in Call, NEW label \in {"rejected", "rolledback"}
    PROVE  Fit(r, NewWork(label))
<1>1. label \in {"idle"} \cup Answered
  BY DEF Answered
<1>2. NewWork(label).op # "PAYROLL"
  BY <1>1, NewWorkFormed
<1> QED BY <1>1, <1>2, NewWorkFormed DEF Fit, RunOf

(* A request to save a row has nothing read. *)
LEMMA StartFits ==
    ASSUME NEW r \in Call, NEW row, NEW target \in Call, NEW t,
           \/ row \in Salary /\ t = [NewWork("write") EXCEPT !.row = row, !.target = target]
           \/ /\ row \in FixedAsset /\ row.residual < row.value /\ target = r
              /\ t = [NewWork("write") EXCEPT !.op = "ASSET", !.row = row, !.target = target]
    PROVE  Fit(r, t)
<1>1. /\ t.pc = "write" /\ t.op \in {"EMPLOYEE", "ASSET"} /\ t.row = row /\ t.target = target
      /\ t.plan = {} /\ t.written = {} /\ t.auto = FALSE
      /\ t.op = "EMPLOYEE" => row \in Salary
      /\ t.op = "ASSET" => row \in FixedAsset /\ row.residual < row.value /\ target = r
  BY DEF NewWork
<1>2. "write" \in Phase
  BY DEF Phase
<1>3. t \in Work
  <2>1. FALSE \in Truth /\ "EMPLOYEE" \in CallKind /\ "ASSET" \in CallKind
    BY DEF Truth, CallKind
  <2>2. NewWork("write") \in Work
    BY <1>2, <2>1 DEF NewWork, Work
  <2>3. CASE row \in Salary /\ t = [NewWork("write") EXCEPT !.row = row, !.target = target]
    BY <2>2, <2>3 DEF Work
  <2>4. CASE row \in FixedAsset /\ t = [NewWork("write") EXCEPT !.op = "ASSET", !.row = row, !.target = target]
    BY <2>1, <2>2, <2>4 DEF Work
  <2> QED BY <2>3, <2>4
<1>4. CallFormed(r, t)
  BY <1>1, <1>2, FS_EmptySet DEF CallFormed
<1>5. PlanDue(t) /\ ~RunOf(t)
  BY <1>1 DEF PlanDue, RunOf
<1> QED BY <1>1, <1>2, <1>3, <1>4, <1>5 DEF Fit

(* Neither has a request for a run. *)
LEMMA RunFits ==
    ASSUME NEW r \in Call, NEW kind \in {"PAYROLL", "DEPRECIATE"}, NEW m \in Month, NEW auto \in BOOLEAN, NEW t,
           t = [NewWork("check") EXCEPT !.op = kind, !.month = m, !.auto = auto]
    PROVE  Fit(r, t)
<1>1. /\ t.pc = "check" /\ t.op = kind /\ t.month = m /\ t.target = Nothing
      /\ t.plan = {} /\ t.written = {}
  BY DEF NewWork
<1>2. "check" \in Phase
  BY DEF Phase
<1>3. t \in Work
  <2>1. auto \in Truth /\ kind \in CallKind
    BY DEF Truth, CallKind
  <2> QED BY <1>2, <2>1 DEF NewWork, Work
<1>4. CallFormed(r, t)
  BY <1>1, <1>2, FS_EmptySet DEF CallFormed
<1>5. PlanDue(t) /\ ~RunOf(t)
  BY <1>1 DEF PlanDue, RunOf
<1> QED BY <1>1, <1>2, <1>3, <1>4, <1>5 DEF Fit

(* A request arrives. *)
LEMMA LodgeMoves ==
    ASSUME MonthInv, NEW r \in Call, Lodge(r)
    PROVE  \E t : Fit(r, t) /\ Moves(r, t)
<1>1. ASSUME NEW t, StartCall(r, t), Fit(r, t) PROVE \E u : Fit(r, u) /\ Moves(r, u)
  BY <1>1 DEF StartCall, Moves
<1>2. CASE SaveEmployee(r)
  <2>1. PICK s \in Salary, e \in Employees \cup {r} :
            StartCall(r, [NewWork("write") EXCEPT !.row = s, !.target = e])
    BY <1>2 DEF SaveEmployee
  <2>2. PICK t : t = [NewWork("write") EXCEPT !.row = s, !.target = e]
    OBVIOUS
  <2>3. e \in Call
    BY DEF Employees
  <2>4. Fit(r, t)
    BY <2>2, <2>3, StartFits
  <2> QED BY <1>1, <2>1, <2>2, <2>4
<1>3. CASE CreateAsset(r)
  <2>1. PICK x \in FixedAsset :
            /\ x.residual < x.value
            /\ StartCall(r, [NewWork("write") EXCEPT !.op = "ASSET", !.row = x, !.target = r])
    BY <1>3 DEF CreateAsset
  <2>2. PICK t : t = [NewWork("write") EXCEPT !.op = "ASSET", !.row = x, !.target = r]
    OBVIOUS
  <2>3. Fit(r, t)
    BY <2>1, <2>2, StartFits
  <2> QED BY <1>1, <2>1, <2>2, <2>3
<1>4. CASE GeneratePayroll(r)
  <2>1. PICK m \in Month, auto \in BOOLEAN :
            StartCall(r, [NewWork("check") EXCEPT !.op = "PAYROLL", !.month = m, !.auto = auto])
    BY <1>4 DEF GeneratePayroll
  <2>2. PICK t : t = [NewWork("check") EXCEPT !.op = "PAYROLL", !.month = m, !.auto = auto]
    OBVIOUS
  <2>3. Fit(r, t)
    BY <2>2, RunFits
  <2> QED BY <1>1, <2>1, <2>2, <2>3
<1>5. CASE RunDepreciation(r)
  <2>1. PICK m \in Month, auto \in BOOLEAN :
            StartCall(r, [NewWork("check") EXCEPT !.op = "DEPRECIATE", !.month = m, !.auto = auto])
    BY <1>5 DEF RunDepreciation
  <2>2. PICK t : t = [NewWork("check") EXCEPT !.op = "DEPRECIATE", !.month = m, !.auto = auto]
    OBVIOUS
  <2>3. Fit(r, t)
    BY <2>2, RunFits
  <2> QED BY <1>1, <2>1, <2>2, <2>3
<1> QED BY <1>2, <1>3, <1>4, <1>5 DEF Lodge

-----------------------------------------------------------------------------
(* The statements of a request. *)

(* A request that goes on to the next statement keeps what it has computed. *)
LEMMA Reached ==
    ASSUME MonthInv, mixed => mixed', NEW r \in Call, work[r].pc \in Phase,
           NEW label \in Phase, Reach(r, label)
    PROVE  \E t : /\ t \in Work /\ t = [work[r] EXCEPT !.pc = label] /\ t.pc = label
                  /\ t.op = work[r].op /\ t.auto = work[r].auto /\ t.month = work[r].month
                  /\ t.row = work[r].row /\ t.target = work[r].target /\ t.pay = work[r].pay
                  /\ t.plan = work[r].plan /\ t.written = work[r].written /\ t.no = work[r].no
                  /\ Moves(r, t) /\ (~mixed' => PlanDue(t))
<1>1. work \in [Call -> Work] /\ work[r] \in Work
  BY DEF MonthInv, MonthTypeOK
<1>2. PICK t : t = [work[r] EXCEPT !.pc = label]
  OBVIOUS
<1>3. t \in Work
  BY <1>1, <1>2 DEF Work
<1>4. /\ t.pc = label /\ t.op = work[r].op /\ t.auto = work[r].auto /\ t.month = work[r].month
      /\ t.row = work[r].row /\ t.target = work[r].target /\ t.pay = work[r].pay
      /\ t.plan = work[r].plan /\ t.written = work[r].written /\ t.no = work[r].no
  BY <1>1, <1>2 DEF Work
<1>5. Moves(r, t)
  BY <1>1, <1>2 DEF Reach, Moves
<1>6. ~mixed' => PlanDue(t)
  BY <1>4 DEF MonthInv, PlanDue
<1> QED BY <1>2, <1>3, <1>4, <1>5, <1>6

(* A refused or undone request. *)
LEMMA Ended ==
    ASSUME NEW r \in Call, work[r].pc \in Phase, NEW label \in {"rejected", "rolledback"},
           EndWork(r, label), NoRow
    PROVE  \E t : Fit(r, t) /\ Moves(r, t)
BY EndsFit DEF EndWork, Moves

LEMMA WriteRowMoves ==
    ASSUME MonthInv, mixed => mixed', NEW r \in Call, WriteRow(r)
    PROVE  \E t : Fit(r, t) /\ Moves(r, t)
<1>1. work[r].pc = "write" /\ Reach(r, "answer")
  BY DEF WriteRow
<1>2. "write" \in Phase /\ "answer" \in Phase
  BY DEF Phase
<1>3. PICK t : /\ t \in Work /\ t.pc = "answer"
               /\ t.op = work[r].op /\ t.auto = work[r].auto /\ t.month = work[r].month
               /\ t.row = work[r].row /\ t.target = work[r].target /\ t.pay = work[r].pay
               /\ t.plan = work[r].plan /\ t.written = work[r].written /\ t.no = work[r].no
               /\ Moves(r, t) /\ (~mixed' => PlanDue(t))
  BY <1>1, <1>2, Reached
<1>4. t.op \in CallKind /\ t.pc \in Phase
  BY <1>2, <1>3 DEF Work
<1>5. CallFormed(r, work[r])
  BY DEF MonthInv
<1>6. t.op \in {"EMPLOYEE", "ASSET"} /\ t.plan = {} /\ t.written = {} /\ t.auto = FALSE
  BY <1>1, <1>2, <1>3, <1>4, <1>5 DEF CallFormed, CallKind
<1>7. CallFormed(r, t)
  BY <1>1, <1>2, <1>3, <1>5, <1>6, FS_EmptySet DEF CallFormed
<1> QED BY <1>3, <1>4, <1>6, <1>7 DEF Fit, RunOf

LEMMA CheckMonthMoves ==
    ASSUME MonthInv, mixed => mixed', NEW r \in Call, CheckMonth(r)
    PROVE  \E t : Fit(r, t) /\ Moves(r, t)
<1>1. work[r].pc = "check" /\ "check" \in Phase /\ "read" \in Phase
  BY DEF CheckMonth, Phase
<1>2. CASE RejectCall(r)
  BY <1>1, <1>2, Ended DEF RejectCall
<1>3. CASE Reach(r, "read")
  <2>1. PICK t : /\ t \in Work /\ t.pc = "read"
                 /\ t.op = work[r].op /\ t.auto = work[r].auto /\ t.month = work[r].month
                 /\ t.row = work[r].row /\ t.target = work[r].target /\ t.pay = work[r].pay
                 /\ t.plan = work[r].plan /\ t.written = work[r].written /\ t.no = work[r].no
                 /\ Moves(r, t) /\ (~mixed' => PlanDue(t))
    BY <1>1, <1>3, Reached
  <2>2. CallFormed(r, work[r]) /\ t.op \in CallKind
    BY <2>1 DEF MonthInv, Work
  <2>3. t.op \in {"PAYROLL", "DEPRECIATE"} /\ t.plan = {} /\ t.written = {}
    BY <1>1, <2>1, <2>2 DEF CallFormed, CallKind
  <2>4. CallFormed(r, t)
    BY <1>1, <2>1, <2>2, <2>3, FS_EmptySet DEF CallFormed
  <2> QED BY <1>1, <2>1, <2>4 DEF Fit, RunOf
<1> QED BY <1>2, <1>3 DEF CheckMonth

LEMMA ReadEmployeesMoves ==
    ASSUME MonthInv, mixed => mixed', NEW r \in Call, ReadEmployees(r)
    PROVE  \E t : Fit(r, t) /\ Moves(r, t)
<1> DEFINE active == {e \in Employees : employee[e].active}
           pay    == {PayLine(e, employee[e]) : e \in active}
           next   == IF work[r].auto THEN "number" ELSE "run"
<1>1. work[r].pc = "read" /\ work[r].op = "PAYROLL" /\ work[r].pc \in Phase /\ next \in Phase
  BY DEF ReadEmployees, Phase
<1>2. CASE RejectCall(r)
  BY <1>1, <1>2, Ended DEF RejectCall
<1>3. CASE work' = [work EXCEPT ![r].pc = next, ![r].pay = pay] /\ NoRow
  <2>1. \A e \in active : /\ PayLine(e, employee[e]) \in PayRow
                          /\ PayLine(e, employee[e]).gross
                               = PayLine(e, employee[e]).net + PayLine(e, employee[e]).cas
                                 + PayLine(e, employee[e]).cass + PayLine(e, employee[e]).tax
    <3>1. \A e \in active : e \in Call /\ employee[e] \in Salary
      BY DEF Employees, MonthInv, MonthTypeOK
    <3> QED BY <3>1, LinePays
  <2>2. pay \in SUBSET PayRow
    BY <2>1
  <2>3. PaidOut(pay)
    <3>1. IsFiniteSet(active)
      BY FS_Subset DEF MonthInv, RowsFinite
    <3>2. PICK f : f = [e \in active |-> PayLine(e, employee[e])]
      OBVIOUS
    <3>3. pay = {f[e] : e \in active}
      BY <3>2
    <3> HIDE DEF active, pay
    <3>4. IsFiniteSet(pay)
      BY <3>1, <3>3, ImageFinite
    <3> USE DEF active, pay
    <3> QED BY <2>1, <3>4 DEF PaidOut
  <2> HIDE DEF pay, next
  <2>4. work \in [Call -> Work] /\ work[r] \in Work /\ CallFormed(r, work[r])
    BY DEF MonthInv, MonthTypeOK
  <2>5. PICK t : t = [work[r] EXCEPT !.pc = next, !.pay = pay]
    OBVIOUS
  <2>6. t \in Work /\ Moves(r, t)
    <3>1. t \in Work
      BY <1>1, <2>2, <2>4, <2>5 DEF Work
    <3>2. work' = [work EXCEPT ![r] = t]
      BY <1>3, <2>4, <2>5 DEF Work
    <3> QED BY <1>1, <1>3, <3>1, <3>2 DEF Moves
  <2>7. /\ t.pc = next /\ t.pay = pay /\ t.op = "PAYROLL" /\ t.auto = work[r].auto
        /\ t.month = work[r].month /\ t.target = work[r].target
        /\ t.plan = work[r].plan /\ t.written = work[r].written
    BY <1>1, <2>4, <2>5 DEF Work
  <2>8. t.plan = {} /\ t.written = {}
    BY <1>1, <2>4, <2>7 DEF CallFormed
  <2>9. t.pc \in {"number", "run"} /\ (t.auto => t.pc = "number")
    BY <2>7 DEF next
  <2>10. CallFormed(r, t)
    BY <1>1, <2>3, <2>4, <2>7, <2>8, <2>9, FS_EmptySet DEF CallFormed
  <2>11. PlanDue(t)
    BY <2>8 DEF PlanDue
  <2> QED BY <1>1, <2>6, <2>7, <2>9, <2>10, <2>11 DEF Fit, RunOf
<1> QED BY <1>2, <1>3 DEF ReadEmployees

(* What an asset has booked is a number. *)
LEMMA BookedInt ==
    ASSUME MonthInv, NEW a
    PROVE  Booked(a) \in Int /\ IsFiniteSet(RecordsOf(a)) /\ RecordsOf(a) \in SUBSET RecordRow
<1>1. RecordsOf(a) \in SUBSET RecordRow
  BY DEF MonthInv, MonthTypeOK, RecordsOf
<1>2. IsFiniteSet(RecordsOf(a))
  BY FS_Subset DEF MonthInv, RowsFinite, RecordsOf
<1>3. PICK f : f = [d \in RecordsOf(a) |-> d.amount]
  OBVIOUS
<1>4. \A d \in RecordsOf(a) : f[d] \in Int
  BY <1>1, <1>3 DEF RecordRow
<1>5. SumFunctionOnSet(f, RecordsOf(a)) \in Int
  BY <1>2, <1>4, SumInt
<1>6. Booked(a) = SumFunctionOnSet(f, RecordsOf(a))
  BY <1>3 DEF Booked, AmountOf, SumFunction
<1> QED BY <1>1, <1>2, <1>5, <1>6

LEMMA PlannedFormed ==
    ASSUME MonthInv, NEW r \in Call, NEW a \in Assets, NEW m \in Month, NEW p, p = PlannedRecord(r, a, m)
    PROVE  /\ p \in RecordRow /\ p.by = r /\ p.asset = a /\ p.month = m
           /\ p.amount = computeDepreciation(asset[a], m - asset[a].start, Booked(a))
<1>1. a \in Call /\ asset[a] \in FixedAsset
  BY DEF Assets, MonthInv, MonthTypeOK
<1>2. PICK x \in FixedAsset : x = asset[a]
  BY <1>1
<1>3. m \in Nat /\ x.start \in Nat /\ x.value \in Nat /\ x.residual \in Nat
  BY MonthEndConstants
<1>4. PICK i \in Int : i = m - x.start
  BY <1>3
<1>5. PICK before \in Int : before = Booked(a)
  BY BookedInt
<1>6. PICK amount \in Int : amount = computeDepreciation(x, i, before)
  BY InstalmentBounds
<1>7. p = [by |-> r, asset |-> a, month |-> m, amount |-> amount, accumulated |-> before + amount,
           book |-> NotBelow(x.value - before - amount, x.residual)]
  BY <1>2, <1>4, <1>5, <1>6 DEF PlannedRecord
<1>8. before + amount \in Int /\ NotBelow(x.value - before - amount, x.residual) \in Int
  BY <1>3 DEF NotBelow
<1>9. p \in RecordRow
  BY <1>1, <1>7, <1>8 DEF RecordRow
<1> QED BY <1>2, <1>4, <1>5, <1>6, <1>7, <1>9

LEMMA ReadAssetsMoves ==
    ASSUME MonthInv, mixed => mixed', NEW r \in Call, ReadAssets(r)
    PROVE  \E t : Fit(r, t) /\ Moves(r, t)
<1> DEFINE m == work[r].month
           eligible == {a \in Assets : asset[a].start <= m}
           todo == {a \in eligible : \A d \in RecordsOf(a) : d.month # m}
           plan == {p \in {PlannedRecord(r, a, m) : a \in todo} : p.amount > 0}
           next == IF plan = {} THEN "answer" ELSE IF work[r].auto THEN "number" ELSE "run"
<1>1. /\ work[r].pc = "read" /\ work[r].op = "DEPRECIATE" /\ work[r].pc \in Phase
      /\ work \in [Call -> Work] /\ work[r] \in Work /\ CallFormed(r, work[r])
  BY DEF ReadAssets, Phase, MonthInv, MonthTypeOK
<1>2. m \in Month /\ work[r].target = Nothing /\ work[r].written = {}
  BY <1>1 DEF CallFormed
<1>3. CASE RejectCall(r)
  BY <1>1, <1>3, Ended DEF RejectCall
<1>4. CASE work' = [work EXCEPT ![r].plan = plan, ![r].pc = next] /\ NoRow
  <2>1. todo \subseteq Assets /\ \A a \in todo : \A d \in RecordsOf(a) : d.month # m
    OBVIOUS
  <2>2. \A p \in plan : /\ p.amount > 0
                        /\ \E a \in todo : p = PlannedRecord(r, a, m)
    OBVIOUS
  <2>3. IsFiniteSet(plan)
    <3>1. IsFiniteSet(todo)
      BY <2>1, FS_Subset DEF MonthInv, RowsFinite
    <3>2. PICK f : f = [a \in todo |-> PlannedRecord(r, a, m)]
      OBVIOUS
    <3>3. plan \subseteq {f[a] : a \in todo}
      BY <3>2
    <3> HIDE DEF todo, plan
    <3>4. IsFiniteSet({f[a] : a \in todo})
      BY <3>1, ImageFinite
    <3> QED BY <3>3, <3>4, FS_Subset
  <2>4. next \in {"answer", "number", "run"} /\ (next = "answer" <=> plan = {})
        /\ (work[r].auto /\ next = "run" => FALSE)
    OBVIOUS
  <2> HIDE DEF todo, plan, next, eligible
  <2>5. \A p \in plan : /\ p \in RecordRow /\ p.by = r /\ p.month = m /\ p.asset \in todo
                        /\ p = PlannedRecord(r, p.asset, m)
                        /\ p.amount = computeDepreciation(asset[p.asset], m - asset[p.asset].start,
                                                          Booked(p.asset))
    <3>1. TAKE p \in plan
    <3>2. PICK a \in todo : p = PlannedRecord(r, a, m)
      BY <2>2
    <3> QED BY <1>2, <2>1, <3>2, PlannedFormed
  <2>6. PICK t : t = [work[r] EXCEPT !.plan = plan, !.pc = next]
    OBVIOUS
  <2>7. next \in Phase
    BY <2>4 DEF Phase
  <2>8. t \in Work /\ Moves(r, t)
    <3>1. plan \in SUBSET RecordRow
      BY <2>5
    <3>2. t \in Work
      BY <1>1, <2>6, <2>7, <3>1 DEF Work
    <3>3. work' = [work EXCEPT ![r] = t]
      BY <1>1, <1>4, <2>6 DEF Work
    <3> QED BY <1>1, <1>4, <3>2, <3>3 DEF Moves
  <2>9. /\ t.pc = next /\ t.op = "DEPRECIATE" /\ t.auto = work[r].auto /\ t.month = m
        /\ t.target = Nothing /\ t.plan = plan /\ t.written = {}
    BY <1>1, <1>2, <2>6 DEF Work
  <2>10. CallFormed(r, t)
    <3>1. \A p \in t.plan : p.by = r /\ p.month = t.month /\ p.asset \in Assets
      BY <2>1, <2>5, <2>9
    <3>2. \A p, q \in t.plan : p.asset = q.asset => p = q
      BY <2>5, <2>9
    <3>3. t.auto /\ t.pc \in {"note", "run", "answer"} => t.op = "DEPRECIATE" /\ t.plan = {}
      BY <2>4, <2>9
    <3>4. t.pc \in Phase /\ t.pc \in {"answer", "number", "run"} /\ (t.pc = "answer" => t.plan = {})
      BY <2>4, <2>7, <2>9
    <3> QED BY <1>2, <2>3, <2>9, <3>1, <3>2, <3>3, <3>4 DEF CallFormed
  <2>11. PlanDue(t)
    <3>1. ASSUME NEW p \in t.plan
          PROVE  /\ p.amount > 0
                 /\ p.amount = computeDepreciation(asset[p.asset], p.month - asset[p.asset].start,
                                                   Booked(p.asset))
                 /\ \A d \in RecordsOf(p.asset) : d.month # p.month
      BY <2>1, <2>2, <2>5, <2>9
    <3> QED BY <3>1 DEF PlanDue
  <2> QED BY <2>7, <2>8, <2>9, <2>10, <2>11 DEF Fit, RunOf
<1> QED BY <1>3, <1>4 DEF ReadAssets

LEMMA ReadNumberMoves ==
    ASSUME MonthInv, mixed => mixed', NEW r \in Call, ReadNoteNumber(r)
    PROVE  \E t : Fit(r, t) /\ Moves(r, t)
<1> DEFINE numbers == {0} \cup {note[n].no : n \in Notes}
<1>1. /\ work[r].pc = "number" /\ work[r].pc \in Phase /\ "note" \in Phase
      /\ work \in [Call -> Work] /\ work[r] \in Work /\ CallFormed(r, work[r])
  BY DEF ReadNoteNumber, Phase, MonthInv, MonthTypeOK
<1>2. CASE RejectCall(r)
  BY <1>1, <1>2, Ended DEF RejectCall
<1>3. CASE work' = [work EXCEPT ![r].pc = "note", ![r].no = 1 + Max(numbers)] /\ NoRow
  <2>1. IsFiniteSet(numbers)
    <3>1. PICK f : f = [n \in Notes |-> note[n].no]
      OBVIOUS
    <3>2. numbers = {f[n] : n \in Notes} \cup {0}
      BY <3>1
    <3>3. IsFiniteSet({f[n] : n \in Notes})
      BY ImageFinite DEF MonthInv, RowsFinite
    <3> QED BY <3>2, <3>3, FS_AddElement
  <2>2. \A k \in numbers : k \in Nat
    BY DEF Notes, MonthInv, MonthTypeOK, NoteRow
  <2>3. 0 \in numbers
    OBVIOUS
  <2> HIDE DEF numbers
  <2>4. Max(numbers) \in numbers
    BY <2>1, <2>2, <2>3, MaxOf
  <2>5. 1 + Max(numbers) \in Nat /\ 1 + Max(numbers) > 0
    BY <2>2, <2>4
  <2>6. PICK k \in Nat : k = 1 + Max(numbers) /\ k > 0
    BY <2>5
  <2>7. PICK t : t = [work[r] EXCEPT !.pc = "note", !.no = k]
    OBVIOUS
  <2>8. t \in Work
    BY <1>1, <2>7 DEF Work
  <2>9. Moves(r, t)
    BY <1>1, <1>3, <2>6, <2>7 DEF Moves, Work
  <2>10. /\ t.pc = "note" /\ t.op = work[r].op /\ t.auto = work[r].auto /\ t.month = work[r].month
         /\ t.row = work[r].row /\ t.target = work[r].target /\ t.pay = work[r].pay
         /\ t.plan = work[r].plan /\ t.written = work[r].written /\ t.no = k
    BY <1>1, <2>7 DEF Work
  <2>11. t.op \in {"PAYROLL", "DEPRECIATE"}
    <3>1. work[r].op \in CallKind
      BY <1>1 DEF Work
    <3> QED BY <1>1, <2>10, <3>1 DEF CallFormed, CallKind
  <2>12. CallFormed(r, t)
    BY <1>1, <2>6, <2>10, <2>11 DEF CallFormed
  <2>13. ~mixed' => PlanDue(t)
    BY <2>10 DEF MonthInv, PlanDue
  <2> QED BY <1>1, <2>8, <2>9, <2>10, <2>12, <2>13 DEF Fit, RunOf
<1> QED BY <1>2, <1>3 DEF ReadNoteNumber

LEMMA InsertNoteMoves ==
    ASSUME MonthInv, mixed => mixed', NEW r \in Call, InsertNote(r)
    PROVE  \E t : Fit(r, t) /\ Moves(r, t)
<1>1. work[r].pc = "note" /\ work[r].pc \in Phase /\ "run" \in Phase
  BY DEF InsertNote, Phase
<1>2. CASE EndWork(r, "rolledback") /\ NoRow
  BY <1>1, <1>2, Ended
<1>3. CASE Reach(r, "run")
  <2>1. PICK t : /\ t \in Work /\ t.pc = "run"
                 /\ t.op = work[r].op /\ t.auto = work[r].auto /\ t.month = work[r].month
                 /\ t.row = work[r].row /\ t.target = work[r].target /\ t.pay = work[r].pay
                 /\ t.plan = work[r].plan /\ t.written = work[r].written /\ t.no = work[r].no
                 /\ Moves(r, t) /\ (~mixed' => PlanDue(t))
    BY <1>1, <1>3, Reached
  <2>2. CallFormed(r, work[r]) /\ t.op \in CallKind
    BY <2>1 DEF MonthInv, Work
  <2>3. t.op \in {"PAYROLL", "DEPRECIATE"}
    BY <1>1, <2>1, <2>2 DEF CallFormed, CallKind
  <2>4. CallFormed(r, t)
    BY <1>1, <2>1, <2>2, <2>3 DEF CallFormed
  <2> QED BY <1>1, <2>1, <2>4 DEF Fit, RunOf
<1> QED BY <1>2, <1>3 DEF InsertNote

LEMMA InsertRunMoves ==
    ASSUME MonthInv, mixed => mixed', NEW r \in Call, InsertRun(r)
    PROVE  \E t : Fit(r, t) /\ Moves(r, t)
<1>1. /\ work[r].pc = "run" /\ work[r].op = "PAYROLL" /\ work[r].pc \in Phase /\ "answer" \in Phase
      /\ \A q \in Call \ {r} : HasRun(q) => work[q].month # work[r].month
  BY DEF InsertRun, Phase
<1>2. CASE EndWork(r, "rolledback") /\ NoRow
  BY <1>1, <1>2, Ended
<1>3. CASE Reach(r, "answer") /\ ~(\E p \in Payrolls : payroll[p].month = work[r].month)
  <2>1. PICK t : /\ t \in Work /\ t.pc = "answer"
                 /\ t.op = work[r].op /\ t.auto = work[r].auto /\ t.month = work[r].month
                 /\ t.row = work[r].row /\ t.target = work[r].target /\ t.pay = work[r].pay
                 /\ t.plan = work[r].plan /\ t.written = work[r].written /\ t.no = work[r].no
                 /\ Moves(r, t) /\ (~mixed' => PlanDue(t))
    BY <1>1, <1>3, Reached
  <2>2. CallFormed(r, work[r])
    BY DEF MonthInv
  <2>3. t.plan = {} /\ t.written = {}
    BY <1>1, <2>1, <2>2 DEF CallFormed
  <2>4. CallFormed(r, t)
    BY <1>1, <2>1, <2>2, <2>3, FS_EmptySet DEF CallFormed
  <2> QED BY <1>1, <1>3, <2>1, <2>4 DEF Fit
<1> QED BY <1>2, <1>3 DEF InsertRun

LEMMA InsertRecordMoves ==
    ASSUME MonthInv, mixed => mixed', NEW r \in Call, InsertRecord(r)
    PROVE  \E t : Fit(r, t) /\ Moves(r, t)
<1>1. /\ work[r].pc = "run" /\ work[r].op = "DEPRECIATE" /\ work[r].pc \in Phase /\ NoRow
      /\ work \in [Call -> Work] /\ work[r] \in Work /\ CallFormed(r, work[r])
  BY DEF InsertRecord, Phase, MonthInv, MonthTypeOK
<1>2. CASE EndWork(r, "rolledback")
  BY <1>1, <1>2, Ended
<1>3. ASSUME NEW p \in work[r].plan, NEW written, written = work[r].written \cup {p}, NEW next,
             next = IF written = work[r].plan THEN "answer" ELSE "run",
             work' = [work EXCEPT ![r].written = written, ![r].pc = next]
      PROVE  \E t : Fit(r, t) /\ Moves(r, t)
  <2>1. /\ next \in {"answer", "run"} /\ next \in Phase /\ (next = "answer" => written = work[r].plan)
    BY <1>3 DEF Phase
  <2>2. work[r].plan \in SUBSET RecordRow /\ written \subseteq work[r].plan
    BY <1>1, <1>3 DEF CallFormed, Work
  <2>3. PICK t : t = [work[r] EXCEPT !.written = written, !.pc = next]
    OBVIOUS
  <2>4. t \in Work
    <3>1. written \in SUBSET RecordRow
      BY <2>2
    <3> QED BY <1>1, <2>1, <2>3, <3>1 DEF Work
  <2>5. Moves(r, t)
    BY <1>1, <1>3, <2>3 DEF Moves, Work
  <2>6. /\ t.pc = next /\ t.op = "DEPRECIATE" /\ t.auto = work[r].auto /\ t.month = work[r].month
        /\ t.target = work[r].target /\ t.plan = work[r].plan /\ t.written = written /\ t.no = work[r].no
    BY <1>1, <2>3 DEF Work
  <2>7. CallFormed(r, t)
    BY <1>1, <2>1, <2>2, <2>6 DEF CallFormed
  <2>8. ~mixed' => PlanDue(t)
    BY <2>6 DEF MonthInv, PlanDue
  <2> QED BY <2>1, <2>4, <2>5, <2>6, <2>7, <2>8 DEF Fit, RunOf
<1>4. CASE ~EndWork(r, "rolledback")
  <2>1. PICK p \in work[r].plan \ work[r].written :
            work' = [work EXCEPT
                      ![r].written = work[r].written \cup {p},
                      ![r].pc = IF work[r].written \cup {p} = work[r].plan THEN "answer" ELSE "run"]
    BY <1>4 DEF InsertRecord
  <2> QED BY <1>3, <2>1
<1> QED BY <1>2, <1>4

-----------------------------------------------------------------------------
(* A commit. *)

Saves(r, label) ==
    /\ r \in AtWork /\ SaveWork(r) /\ EndWork(r, label)
    /\ label \in {"committed", "cut"} /\ (label = "committed" => work[r].pc = "answer")

(* The note of r, if r has one under way, has lines that balance. *)
LEMMA EntryWritten ==
    ASSUME MonthInv, NEW r \in Call, HasNote(r), NEW lines,
           lines = IF work[r].op = "PAYROLL" THEN PayrollLines(work[r].pay)
                   ELSE <<D(AmountOf(work[r].plan)), C(AmountOf(work[r].plan))>>
    PROVE  /\ work[r].op \in {"PAYROLL", "DEPRECIATE"} /\ work[r].month \in Month
           /\ lines \in Seq(Row) /\ DebitTotal(lines) = CreditTotal(lines)
           /\ work[r].op = "DEPRECIATE" => DebitTotal(lines) = AmountOf(work[r].plan)
<1>1. work[r] \in Work /\ CallFormed(r, work[r])
  BY DEF MonthInv, MonthTypeOK
<1>2. work[r].auto /\ work[r].pc \in {"run", "answer"} /\ work[r].pc \in Phase
  BY DEF HasNote, Phase
<1>3. work[r].op \in CallKind
  BY <1>1 DEF Work
<1>4. work[r].op \in {"PAYROLL", "DEPRECIATE"}
  BY <1>1, <1>2, <1>3 DEF CallFormed, CallKind
<1>5. work[r].month \in Month
  BY <1>1, <1>4 DEF CallFormed
<1>6. CASE work[r].op = "PAYROLL"
  <2>1. work[r].pay \in SUBSET PayRow /\ PaidOut(work[r].pay)
    BY <1>1, <1>2, <1>6 DEF CallFormed, Work
  <2> QED BY <1>4, <1>5, <1>6, <2>1, PayrollEntry
<1>7. CASE work[r].op = "DEPRECIATE"
  <2>1. PICK R : R = work[r].plan
    OBVIOUS
  <2>2. R \in SUBSET RecordRow /\ IsFiniteSet(R)
    BY <1>1, <2>1 DEF CallFormed, Work
  <2>3. PICK f : f = [d \in R |-> d.amount]
    OBVIOUS
  <2>4. \A d \in R : f[d] \in Int
    BY <2>2, <2>3 DEF RecordRow
  <2>5. SumFunctionOnSet(f, R) \in Int
    BY <2>2, <2>4, SumInt
  <2>6. AmountOf(R) = SumFunctionOnSet(f, R)
    BY <2>3 DEF AmountOf, SumFunction
  <2>7. PICK a \in Int : a = AmountOf(R)
    BY <2>5, <2>6
  <2>8. lines = <<D(a), C(a)>>
    BY <1>7, <2>1, <2>7
  <2> QED BY <1>4, <1>5, <2>1, <2>7, <2>8, DepreciationEntry
<1> QED BY <1>4, <1>6, <1>7

(* The rows a commit adds are those of its request. *)
LEMMA SavedRows ==
    ASSUME MonthInv, NEW r \in Call, NEW label, Saves(r, label)
    PROVE  /\ r \notin Notes \cup Payrolls \cup Assets
           /\ work'[r] = NewWork(label) /\ \A q \in Call \ {r} : work'[q] = work[q]
           /\ asset' \in [Call -> FixedAsset \cup {Nothing}]
           /\ Assets \subseteq Assets' /\ Assets' \subseteq Assets \cup {r}
           /\ \A a \in Assets : asset'[a] = asset[a]
           /\ r \in Assets' => asset'[r].residual < asset'[r].value
           /\ work[r].written \in SUBSET RecordRow /\ IsFiniteSet(work[r].written)
           /\ record' = record \cup work[r].written
           /\ \A d \in work[r].written : d.by = r /\ d.asset \in Assets
           /\ \A d \in record : d.by # r /\ d.by \in Call
<1>1. /\ work[r].pc \in Phase /\ work \in [Call -> Work] /\ work[r] \in Work /\ CallFormed(r, work[r])
      /\ asset \in [Call -> FixedAsset \cup {Nothing}] /\ record \in SUBSET RecordRow
  BY DEF Saves, AtWork, MonthInv, MonthTypeOK
<1>2. work[r].pc \notin {"committed", "cut"}
  BY <1>1 DEF Phase
<1>3. r \notin Notes \cup Payrolls \cup Assets /\ \A d \in record : d.by # r
  BY <1>2 DEF MonthInv, RowsAnswered
<1>4. work' = [work EXCEPT ![r] = NewWork(label)] /\ record' = record \cup work[r].written
  BY DEF Saves, EndWork, SaveWork
<1>5. PICK t : t = work[r]
  OBVIOUS
<1>6. asset' = IF t.pc = "answer" /\ t.target # Nothing /\ t.op = "ASSET" THEN [asset EXCEPT ![r] = t.row]
               ELSE asset
  BY <1>5 DEF Saves, SaveWork
<1>7. t.pc = "answer" /\ t.op = "ASSET" => t.row \in FixedAsset /\ t.row.residual < t.row.value
  BY <1>1, <1>5 DEF CallFormed
<1>8. asset' \in [Call -> FixedAsset \cup {Nothing}] /\ \A a \in Call \ {r} : asset'[a] = asset[a]
  BY <1>1, <1>6, <1>7
<1>9. r \in Assets' => asset'[r].residual < asset'[r].value
  <2>1. asset[r] = Nothing
    BY <1>3 DEF Assets
  <2> QED BY <1>1, <1>6, <1>7, <2>1 DEF Assets
<1>10. Assets \subseteq Assets' /\ Assets' \subseteq Assets \cup {r} /\ \A a \in Assets : asset'[a] = asset[a]
  BY <1>3, <1>8 DEF Assets
<1>11. work[r].written \in SUBSET RecordRow /\ IsFiniteSet(work[r].written)
  BY <1>1, FS_Subset DEF CallFormed, Work
<1>12. \A d \in work[r].written : d.by = r /\ d.asset \in Assets
  BY <1>1 DEF CallFormed
<1>13. \A d \in record : d.by \in Call
  BY <1>1 DEF RecordRow
<1> QED BY <1>1, <1>3, <1>4, <1>8, <1>9, <1>10, <1>11, <1>12, <1>13

(* A commit adds the note and the payroll of its request, if it has them. *)
LEMMA SavedEntries ==
    ASSUME MonthInv, NEW r \in Call, NEW label, Saves(r, label)
    PROVE  /\ note' \in [Call -> NoteRow \cup {Nothing}] /\ payroll' \in [Call -> PayrollRow \cup {Nothing}]
           /\ \A n \in Call \ {r} : note'[n] = note[n] /\ payroll'[n] = payroll[n]
           /\ r \in Notes' <=> HasNote(r)
           /\ r \in Payrolls' <=> HasRun(r)
           /\ HasNote(r) =>
                /\ note'[r].op = work[r].op /\ note'[r].month = work[r].month
                /\ note'[r].op \in {"PAYROLL", "DEPRECIATE"}
                /\ DebitTotal(note'[r].lines) = CreditTotal(note'[r].lines)
                /\ work[r].op = "PAYROLL" => note'[r].lines = PayrollLines(work[r].pay)
                /\ work[r].op = "DEPRECIATE" => DebitTotal(note'[r].lines) = AmountOf(work[r].plan)
           /\ HasRun(r) =>
                /\ payroll'[r].month = work[r].month /\ payroll'[r].pay = work[r].pay
                /\ payroll'[r].posted = work[r].auto
<1>1. /\ work[r] \in Work /\ CallFormed(r, work[r])
      /\ note \in [Call -> NoteRow \cup {Nothing}] /\ payroll \in [Call -> PayrollRow \cup {Nothing}]
  BY DEF MonthInv, MonthTypeOK
<1>2. note[r] = Nothing /\ payroll[r] = Nothing
  BY SavedRows DEF Notes, Payrolls
<1>3. PICK t : t = work[r]
  OBVIOUS
<1>4. PICK lines : lines = IF t.op = "PAYROLL" THEN PayrollLines(t.pay)
                           ELSE <<D(AmountOf(t.plan)), C(AmountOf(t.plan))>>
  OBVIOUS
<1>5. PICK e : e = [op |-> t.op, month |-> t.month, no |-> t.no, lines |-> lines]
  OBVIOUS
<1>6. PICK run : run = [month |-> t.month, pay |-> t.pay, posted |-> t.auto]
  OBVIOUS
<1>7. note' = IF ~HasNote(r) THEN note ELSE [note EXCEPT ![r] = e]
  BY <1>3, <1>4, <1>5 DEF Saves, SaveWork
<1>8. payroll' = IF HasRun(r) THEN [payroll EXCEPT ![r] = run] ELSE payroll
  BY <1>3, <1>6 DEF Saves, SaveWork
<1>9. ASSUME HasNote(r)
      PROVE  /\ e \in NoteRow /\ e.op \in {"PAYROLL", "DEPRECIATE"}
             /\ DebitTotal(lines) = CreditTotal(lines)
             /\ t.op = "DEPRECIATE" => DebitTotal(lines) = AmountOf(t.plan)
  <2>2. /\ t.op \in {"PAYROLL", "DEPRECIATE"} /\ t.month \in Month
        /\ lines \in Seq(Row) /\ DebitTotal(lines) = CreditTotal(lines)
        /\ t.op = "DEPRECIATE" => DebitTotal(lines) = AmountOf(t.plan)
    BY <1>3, <1>4, <1>9, EntryWritten
  <2>3. t.no \in Nat /\ t.op \in CallKind
    BY <1>1, <1>3 DEF Work
  <2>4. e \in NoteRow
    BY <1>5, <2>2, <2>3 DEF NoteRow, Row
  <2> QED BY <1>5, <2>2, <2>4
<1>10. HasRun(r) => run \in PayrollRow
  <2>1. t.op = "PAYROLL" => t.month \in Month
    BY <1>1, <1>3 DEF CallFormed
  <2>2. t.pay \in SUBSET PayRow /\ t.auto \in Truth
    BY <1>1, <1>3 DEF Work
  <2> QED BY <1>3, <1>6, <2>1, <2>2 DEF HasRun, PayrollRow, Truth
<1>11. /\ note' \in [Call -> NoteRow \cup {Nothing}] /\ \A n \in Call \ {r} : note'[n] = note[n]
       /\ note'[r] = IF HasNote(r) THEN e ELSE Nothing
  BY <1>1, <1>2, <1>7, <1>9
<1>12. /\ payroll' \in [Call -> PayrollRow \cup {Nothing}] /\ \A n \in Call \ {r} : payroll'[n] = payroll[n]
       /\ payroll'[r] = IF HasRun(r) THEN run ELSE Nothing
  BY <1>1, <1>2, <1>8, <1>10
<1>13. r \in Notes' <=> HasNote(r)
  BY <1>9, <1>11, NothingIsNoRow DEF Notes
<1>14. r \in Payrolls' <=> HasRun(r)
  BY <1>10, <1>12, NothingIsNoRow DEF Payrolls
<1>15. e.op = t.op /\ e.month = t.month /\ e.lines = lines
  BY <1>5
<1>16. run.month = t.month /\ run.pay = t.pay /\ run.posted = t.auto
  BY <1>6
<1>17. HasNote(r) =>
                /\ note'[r].op = work[r].op /\ note'[r].month = work[r].month
                /\ note'[r].op \in {"PAYROLL", "DEPRECIATE"}
                /\ DebitTotal(note'[r].lines) = CreditTotal(note'[r].lines)
                /\ work[r].op = "PAYROLL" => note'[r].lines = PayrollLines(work[r].pay)
                /\ work[r].op = "DEPRECIATE" => DebitTotal(note'[r].lines) = AmountOf(work[r].plan)
  BY <1>3, <1>4, <1>9, <1>11, <1>15
<1>18. HasRun(r) =>
                /\ payroll'[r].month = work[r].month /\ payroll'[r].pay = work[r].pay
                /\ payroll'[r].posted = work[r].auto
  BY <1>3, <1>12, <1>16
<1> QED BY <1>11, <1>12, <1>13, <1>14, <1>17, <1>18

(* A commit keeps the notes and payrolls in step. *)
LEMMA SavedApart ==
    ASSUME MonthInv, NEW r \in Call, NEW label, Saves(r, label)
    PROVE  RunsApart'
<1>1. /\ work'[r] = NewWork(label) /\ \A q \in Call \ {r} : work'[q] = work[q]
      /\ \A n \in Call \ {r} : payroll'[n] = payroll[n]
      /\ r \in Payrolls' <=> HasRun(r)
      /\ HasRun(r) => payroll'[r].month = work[r].month
      /\ r \notin Payrolls
  BY SavedRows, SavedEntries
<1>2. \A p \in Call \ {r} : p \in Payrolls' <=> p \in Payrolls
  BY <1>1 DEF Payrolls
<1>3. \A q \in Call : HasRun(q)' => q # r /\ HasRun(q) /\ work'[q].month = work[q].month
  <2>1. ~HasRun(r)'
    BY <1>1 DEF HasRun, NewWork
  <2> QED BY <1>1, <2>1 DEF HasRun
<1>4. Payrolls \subseteq Call /\ Payrolls' \subseteq Call
  BY DEF Payrolls
<1>5. /\ \A p, q \in Payrolls : payroll[p].month = payroll[q].month => p = q
      /\ \A s \in Call : HasRun(s) =>
          /\ \A p \in Payrolls : payroll[p].month # work[s].month
          /\ \A q \in Call : HasRun(q) /\ work[q].month = work[s].month => q = s
  BY DEF MonthInv, RunsApart
<1>6. \A p, q \in Payrolls' : payroll'[p].month = payroll'[q].month => p = q
  <2>1. ASSUME NEW p \in Payrolls', NEW q \in Payrolls', payroll'[p].month = payroll'[q].month, p # q
        PROVE  FALSE
    <3>1. CASE p # r /\ q # r
      BY <1>1, <1>2, <1>4, <1>5, <2>1, <3>1
    <3>2. CASE p = r
      BY <1>1, <1>2, <1>4, <1>5, <2>1, <3>2
    <3>3. CASE q = r
      BY <1>1, <1>2, <1>4, <1>5, <2>1, <3>3
    <3> QED BY <3>1, <3>2, <3>3
  <2> QED BY <2>1
<1>7. ASSUME NEW s \in Call, HasRun(s)'
      PROVE  /\ \A p \in Payrolls' : payroll'[p].month # work'[s].month
             /\ \A q \in Call : HasRun(q)' /\ work'[q].month = work'[s].month => q = s
  <2>1. s # r /\ HasRun(s) /\ work'[s].month = work[s].month
    BY <1>3, <1>7
  <2>2. \A q \in Call : HasRun(q)' /\ work'[q].month = work'[s].month => q = s
    BY <1>3, <1>5, <2>1
  <2>3. ASSUME NEW p \in Payrolls' PROVE payroll'[p].month # work'[s].month
    <3>1. CASE p = r
      BY <1>1, <1>5, <2>1, <2>3, <3>1
    <3>2. CASE p # r
      BY <1>1, <1>2, <1>4, <1>5, <2>1, <2>3, <3>2
    <3> QED BY <3>1, <3>2
  <2> QED BY <2>2, <2>3
<1> QED BY <1>6, <1>7 DEF RunsApart

LEMMA SavedSound ==
    ASSUME MonthInv, NEW r \in Call, NEW label, Saves(r, label)
    PROVE  EntriesSound'
<1>1. /\ work'[r] = NewWork(label) /\ \A q \in Call \ {r} : work'[q] = work[q]
      /\ r \notin Notes /\ r \notin Payrolls
      /\ record' = record \cup work[r].written
      /\ \A d \in work[r].written : d.by = r
      /\ \A d \in record : d.by # r
  BY SavedRows
<1>2. /\ \A n \in Call \ {r} : note'[n] = note[n] /\ payroll'[n] = payroll[n]
      /\ r \in Notes' <=> HasNote(r)
      /\ r \in Payrolls' <=> HasRun(r)
  BY SavedEntries
<1>3. HasNote(r) =>
                /\ note'[r].op = work[r].op /\ note'[r].month = work[r].month
                /\ note'[r].op \in {"PAYROLL", "DEPRECIATE"}
                /\ DebitTotal(note'[r].lines) = CreditTotal(note'[r].lines)
                /\ work[r].op = "PAYROLL" => note'[r].lines = PayrollLines(work[r].pay)
                /\ work[r].op = "DEPRECIATE" => DebitTotal(note'[r].lines) = AmountOf(work[r].plan)
  BY SavedEntries
<1>4. HasRun(r) =>
                /\ payroll'[r].month = work[r].month /\ payroll'[r].pay = work[r].pay
                /\ payroll'[r].posted = work[r].auto
  BY SavedEntries
<1>5. \A n \in Call \ {r} : (n \in Notes' <=> n \in Notes) /\ (n \in Payrolls' <=> n \in Payrolls)
  BY <1>2 DEF Notes, Payrolls
<1>6. Notes \subseteq Call /\ Payrolls \subseteq Call /\ Notes' \subseteq Call /\ Payrolls' \subseteq Call
  BY DEF Notes, Payrolls
<1>7. work[r] \in Work /\ CallFormed(r, work[r])
  BY DEF MonthInv, MonthTypeOK
<1>8. \A n \in Notes' : /\ note'[n].op \in {"PAYROLL", "DEPRECIATE"}
                        /\ DebitTotal(note'[n].lines) = CreditTotal(note'[n].lines)
  <2>1. \A n \in Notes : /\ note[n].op \in {"PAYROLL", "DEPRECIATE"}
                         /\ DebitTotal(note[n].lines) = CreditTotal(note[n].lines)
    BY DEF MonthInv, EntriesSound
  <2> QED BY <1>2, <1>3, <1>5, <1>6, <2>1
<1>9. \A p \in Payrolls' : payroll'[p].posted =>
          p \in Notes' /\ note'[p].lines = PayrollLines(payroll'[p].pay)
  <2>1. \A p \in Payrolls : payroll[p].posted =>
          p \in Notes /\ note[p].lines = PayrollLines(payroll[p].pay)
    BY DEF MonthInv, EntriesSound
  <2>2. ASSUME HasRun(r), work[r].auto
        PROVE  HasNote(r)
    <3>1. work[r].no > 0
      BY <1>7, <2>2 DEF HasRun, CallFormed
    <3> QED BY <2>2, <3>1 DEF HasNote, HasRun
  <2>3. HasRun(r) => work[r].op = "PAYROLL"
    BY DEF HasRun
  <2> QED BY <1>2, <1>3, <1>4, <1>5, <1>6, <2>1, <2>2, <2>3
<1>10. ASSUME NothingCut'
       PROVE  \A n \in Notes' :
              IF note'[n].op = "PAYROLL" THEN n \in Payrolls' /\ payroll'[n].month = note'[n].month
              ELSE DebitTotal(note'[n].lines) = AmountOf({d \in record' : d.by = n})
  <2>1. label # "cut" /\ work[r].pc \in Phase
    BY <1>1, <1>10 DEF NothingCut, NewWork, Saves, AtWork
  <2>2. work[r].pc = "answer"
    BY <2>1 DEF Saves
  <2>3. NothingCut
    BY <1>1, <1>10, <2>2 DEF NothingCut
  <2>4. \A n \in Notes :
              IF note[n].op = "PAYROLL" THEN n \in Payrolls /\ payroll[n].month = note[n].month
              ELSE DebitTotal(note[n].lines) = AmountOf({d \in record : d.by = n})
    BY <2>3 DEF MonthInv, EntriesSound
  <2>5. ASSUME NEW n \in Notes', n # r
        PROVE  IF note'[n].op = "PAYROLL" THEN n \in Payrolls' /\ payroll'[n].month = note'[n].month
               ELSE DebitTotal(note'[n].lines) = AmountOf({d \in record' : d.by = n})
    <3>1. {d \in record' : d.by = n} = {d \in record : d.by = n}
      BY <1>1, <2>5
    <3>2. n \in Notes /\ note'[n] = note[n] /\ payroll'[n] = payroll[n] /\ (n \in Payrolls => n \in Payrolls')
      BY <1>2, <1>5, <1>6, <2>5
    <3> QED BY <2>4, <3>1, <3>2
  <2>6. ASSUME HasNote(r)
        PROVE  IF note'[r].op = "PAYROLL" THEN r \in Payrolls' /\ payroll'[r].month = note'[r].month
               ELSE DebitTotal(note'[r].lines) = AmountOf({d \in record' : d.by = r})
    <3>1. CASE work[r].op = "PAYROLL"
      <4>1. HasRun(r)
        BY <2>2, <3>1 DEF HasRun
      <4> QED BY <1>2, <1>3, <1>4, <2>6, <3>1, <4>1
    <3>2. CASE work[r].op = "DEPRECIATE"
      <4>1. work[r].written = work[r].plan
        BY <1>7, <2>2 DEF CallFormed
      <4>2. {d \in record' : d.by = r} = work[r].plan
        BY <1>1, <4>1
      <4> QED BY <1>3, <2>6, <3>2, <4>2
    <3> QED BY <1>3, <2>6, <3>1, <3>2
  <2> QED BY <1>2, <2>5, <2>6
<1> QED BY <1>8, <1>9, <1>10 DEF EntriesSound

(* A run that is alone books what its assets are due. *)
LEMMA SavedPace ==
    ASSUME MonthInv, ~mixed, NEW r \in Call, NEW label, Saves(r, label)
    PROVE  DepreciationSound' /\ \A a \in Assets' : LinearPace(asset'[a], RecordsOf(a)')
<1>1. /\ r \notin Assets /\ asset' \in [Call -> FixedAsset \cup {Nothing}]
      /\ Assets' \subseteq Assets \cup {r} /\ \A a \in Assets : asset'[a] = asset[a]
      /\ r \in Assets' => asset'[r].residual < asset'[r].value
  BY SavedRows
<1>2. PICK written \in SUBSET RecordRow : written = work[r].written
  BY SavedRows
<1>3. record' = record \cup written /\ \A d \in written : d.asset \in Assets
  BY <1>2, SavedRows
<1>4. \A a : RecordsOf(a)' = RecordsOf(a) \cup {d \in written : d.asset = a}
  BY <1>3 DEF RecordsOf
<1>5. \A d \in record : d.asset \in Assets
  BY DEF MonthInv, RowsAnswered
<1>6. CallFormed(r, work[r]) /\ PlanDue(work[r])
  BY DEF MonthInv
<1>7. /\ \A p \in written : /\ p.amount > 0 /\ \A d \in RecordsOf(p.asset) : d.month # p.month
                            /\ p.amount = computeDepreciation(asset[p.asset], p.month - asset[p.asset].start,
                                                              Booked(p.asset))
      /\ \A p, q \in written : p.asset = q.asset => p = q
  BY <1>2, <1>6 DEF CallFormed, PlanDue
<1>8. ASSUME NEW a \in Assets'
      PROVE  DepreciatedWell(asset'[a], RecordsOf(a)') /\ LinearPace(asset'[a], RecordsOf(a)')
  <2>1. PICK x : x = asset'[a]
    OBVIOUS
  <2>2. x \in FixedAsset
    BY <1>1, <2>1 DEF Assets
  <2>3. CASE a = r
    <3>1. RecordsOf(a)' = {}
      BY <1>1, <1>3, <1>4, <1>5, <2>3 DEF RecordsOf
    <3> QED BY <1>1, <2>1, <2>2, <2>3, <3>1, NoneYet
  <2>4. CASE a \in Assets
    <3>1. PICK R \in SUBSET RecordRow : R = RecordsOf(a)
      BY BookedInt
    <3>2. IsFiniteSet(R) /\ Booked(a) = AmountOf(R) /\ x = asset[a]
      BY <1>1, <2>1, <2>4, <3>1, BookedInt DEF Booked
    <3>3. DepreciatedWell(x, R) /\ LinearPace(x, R)
      BY <2>4, <3>1, <3>2 DEF MonthInv, DepreciationSound
    <3>4. CASE {d \in written : d.asset = a} = {}
      BY <1>4, <2>1, <3>1, <3>3, <3>4
    <3>5. CASE {d \in written : d.asset = a} # {}
      <4>1. PICK p \in written : p.asset = a
        BY <3>5
      <4>2. RecordsOf(a)' = R \cup {p}
        BY <1>4, <1>7, <3>1, <4>1
      <4>3. p \in RecordRow /\ p \notin R
        BY <1>7, <3>1, <4>1
      <4>4. p.amount > 0 /\ p.amount = computeDepreciation(x, p.month - x.start, AmountOf(R))
        BY <1>7, <3>2, <4>1
      <4> QED BY <2>1, <2>2, <3>2, <3>3, <4>2, <4>3, <4>4, OneMore
    <3> QED BY <3>4, <3>5
  <2> QED BY <1>1, <2>3, <2>4
<1> QED BY <1>8 DEF DepreciationSound

LEMMA CommitKeeps ==
    ASSUME MonthInv, mixed' = (mixed \/ Cardinality(AtWork') > 1),
           NEW r \in Call, NEW label, Saves(r, label)
    PROVE  MonthInv'
<1>1. /\ work'[r] = NewWork(label) /\ \A q \in Call \ {r} : work'[q] = work[q]
      /\ asset' \in [Call -> FixedAsset \cup {Nothing}]
      /\ Assets \subseteq Assets' /\ Assets' \subseteq Assets \cup {r}
  BY SavedRows
<1>2. /\ work[r].written \in SUBSET RecordRow /\ IsFiniteSet(work[r].written)
      /\ record' = record \cup work[r].written
      /\ \A d \in work[r].written : d.by = r /\ d.asset \in Assets
  BY SavedRows
<1>3. /\ note' \in [Call -> NoteRow \cup {Nothing}] /\ payroll' \in [Call -> PayrollRow \cup {Nothing}]
      /\ \A n \in Call \ {r} : note'[n] = note[n] /\ payroll'[n] = payroll[n]
  BY SavedEntries
<1>4. /\ employee \in [Call -> Salary \cup {Nothing}] /\ record \in SUBSET RecordRow
      /\ work \in [Call -> Work] /\ work[r] \in Work /\ work[r].pc \in Phase
  BY DEF MonthInv, MonthTypeOK, Saves, AtWork
<1>5. label \in {"committed", "cut"} /\ label \in Answered /\ label \notin Phase
  BY DEF Saves, Answered, Phase
<1>6. NewWork(label) \in Work /\ NewWork(label).pc = label /\ CallFormed(r, NewWork(label))
  BY <1>5, NewWorkFormed
<1>7. work' = [work EXCEPT ![r] = NewWork(label)]
  BY DEF Saves, EndWork
<1>8. /\ employee' \in [Call -> Salary \cup {Nothing}]
      /\ Employees' \subseteq Employees \cup {work[r].target}
  <2>1. PICK t : t = work[r]
    OBVIOUS
  <2>2. employee' = IF t.pc = "answer" /\ t.target # Nothing /\ t.op = "EMPLOYEE"
                    THEN [employee EXCEPT ![t.target] = t.row] ELSE employee
    BY <2>1 DEF Saves, SaveWork
  <2>3. t.pc = "answer" /\ t.op = "EMPLOYEE" => t.row \in Salary /\ t.target \in Call
    BY <1>4, <2>1 DEF MonthInv, CallFormed
  <2> QED BY <1>4, <2>1, <2>2, <2>3 DEF Employees
<1>9. MonthTypeOK'
  BY <1>1, <1>2, <1>3, <1>4, <1>6, <1>7, <1>8 DEF MonthTypeOK
<1>10. RowsFinite'
  <2>1. AtWork' \subseteq AtWork
    BY <1>1, <1>5, <1>6 DEF AtWork
  <2>2. Notes' \subseteq Notes \cup {r}
    BY <1>3 DEF Notes
  <2>3. /\ IsFiniteSet(Employees) /\ IsFiniteSet(Assets) /\ IsFiniteSet(Notes)
        /\ IsFiniteSet(record) /\ IsFiniteSet(AtWork)
    BY DEF MonthInv, RowsFinite
  <2>4. IsFiniteSet(Employees')
    BY <1>8, <2>3, FS_AddElement, FS_Subset
  <2>5. IsFiniteSet(Assets')
    BY <1>1, <2>3, FS_AddElement, FS_Subset
  <2>6. IsFiniteSet(Notes')
    BY <2>2, <2>3, FS_AddElement, FS_Subset
  <2>7. IsFiniteSet(record') /\ IsFiniteSet(AtWork')
    BY <1>2, <2>1, <2>3, FS_Union, FS_Subset
  <2> QED BY <2>4, <2>5, <2>6, <2>7 DEF RowsFinite
<1>11. \A q \in Call : CallFormed(q, work[q])'
  <2>1. ASSUME NEW q, NEW u, CallFormed(q, u) PROVE CallFormed(q, u)'
    BY <1>1, <2>1 DEF CallFormed
  <2>2. CallFormed(r, NewWork(label))'
    BY <1>6, <2>1
  <2>3. \A q \in Call : CallFormed(q, work[q])
    BY DEF MonthInv
  <2>4. ASSUME NEW q \in Call, NEW u, u = work'[q] PROVE CallFormed(q, u)'
    BY <1>1, <1>6, <2>1, <2>3, <2>4
  <2> QED BY <2>4 DEF CallFormed
<1>12. RowsAnswered'
  <2>1. \A n \in Call : work[n].pc \in {"committed", "cut"} => work'[n].pc \in {"committed", "cut"}
    BY <1>1, <1>5, <1>6
  <2>2. \A n \in Notes' \cup Payrolls' \cup Assets' : n = r \/ n \in Notes \cup Payrolls \cup Assets
    BY <1>1, <1>3 DEF Notes, Payrolls
  <2>3. \A n \in Notes \cup Payrolls \cup Assets : n \in Call /\ work[n].pc \in {"committed", "cut"}
    BY DEF MonthInv, RowsAnswered, Notes, Payrolls, Assets
  <2>4. \A d \in record : d.asset \in Assets /\ d.by \in Call /\ work[d.by].pc \in {"committed", "cut"}
    BY <1>4 DEF MonthInv, RowsAnswered, RecordRow
  <2>5. work'[r].pc \in {"committed", "cut"}
    BY <1>1, <1>5, <1>6
  <2> QED BY <1>1, <1>2, <2>1, <2>2, <2>3, <2>4, <2>5 DEF RowsAnswered
<1>13. RunsApart' /\ EntriesSound'
  BY SavedApart, SavedSound
<1>14. ASSUME ~mixed'
       PROVE  /\ \A p, q \in AtWork' : p = q
              /\ DepreciationSound' /\ \A a \in Assets' : LinearPace(asset'[a], RecordsOf(a)')
              /\ \A q \in Call : PlanDue(work[q])'
  <2>1. ~mixed /\ \A p, q \in AtWork : p = q
    BY <1>14 DEF MonthInv
  <2>2. \A p, q \in AtWork' : p = q
    BY <1>1, <1>5, <1>6, <2>1 DEF AtWork
  <2>3. \A q \in Call : work'[q].plan = {}
    <3>1. ASSUME NEW q \in Call, q # r PROVE work[q] = NewWork(work[q].pc)
      <4>1. work[q].pc \notin Phase
        BY <1>4, <2>1, <3>1 DEF AtWork
      <4> QED BY <4>1 DEF MonthInv, CallFormed
    <3>2. \A l : NewWork(l).plan = {}
      BY DEF NewWork
    <3>3. ASSUME NEW q \in Call PROVE work'[q].plan = {}
      <4>1. work'[q] = NewWork(work[q].pc) \/ work'[q] = NewWork(label)
        BY <1>1, <3>1
      <4> QED BY <3>2, <4>1
    <3> QED BY <3>3
  <2>4. \A q \in Call : PlanDue(work[q])'
    BY <2>3 DEF PlanDue
  <2> QED BY <2>1, <2>2, <2>4, SavedPace
<1> QED BY <1>9, <1>10, <1>11, <1>12, <1>13, <1>14 DEF MonthInv

-----------------------------------------------------------------------------
(* Every step of the monthly runs. *)

LEMMA MonthStart == MonthHistoryInit => MonthInv
<1> SUFFICES ASSUME MonthHistoryInit PROVE MonthInv
  OBVIOUS
<1>1. /\ employee = [r \in Call |-> Nothing] /\ asset = [r \in Call |-> Nothing]
      /\ payroll = [r \in Call |-> Nothing] /\ note = [r \in Call |-> Nothing]
      /\ record = {} /\ work = [r \in Call |-> NewWork("idle")] /\ mixed = FALSE
  BY DEF MonthHistoryInit, MonthInit
<1>2. \A r \in Call : /\ NewWork("idle") \in Work /\ CallFormed(r, NewWork("idle")) /\ PlanDue(NewWork("idle"))
                      /\ NewWork("idle").pc = "idle" /\ NewWork("idle").op = "EMPLOYEE"
  BY NewWorkFormed
<1>3. Employees = {} /\ Assets = {} /\ Payrolls = {} /\ Notes = {} /\ AtWork = {}
  BY <1>1, <1>2 DEF Employees, Assets, Payrolls, Notes, AtWork, Phase
<1>4. MonthTypeOK
  BY <1>1, <1>2 DEF MonthTypeOK
<1>5. RowsFinite
  BY <1>1, <1>3, FS_EmptySet DEF RowsFinite
<1>6. \A r \in Call : work[r] = NewWork("idle")
  BY <1>1
<1>7. RowsAnswered /\ EntriesSound
  BY <1>1, <1>3 DEF RowsAnswered, EntriesSound
<1>8. RunsApart
  BY <1>2, <1>3, <1>6 DEF RunsApart, HasRun
<1>9. DepreciationSound
  BY <1>3 DEF DepreciationSound
<1> QED BY <1>1, <1>2, <1>3, <1>4, <1>5, <1>6, <1>7, <1>8, <1>9 DEF MonthInv

LEMMA MonthStutter ==
    ASSUME MonthInv, UNCHANGED monthVars, mixed' = mixed
    PROVE  MonthInv'
<1>1. UNCHANGED <<employee, asset, payroll, record, note, work>>
  BY DEF monthVars
<1>2. /\ Employees' = Employees /\ Assets' = Assets /\ Payrolls' = Payrolls /\ Notes' = Notes
      /\ AtWork' = AtWork
  BY <1>1 DEF Employees, Assets, Payrolls, Notes, AtWork
<1>3. MonthTypeOK' /\ RowsFinite'
  BY <1>1, <1>2 DEF MonthInv, MonthTypeOK, RowsFinite
<1>4. RowsAnswered' /\ RunsApart' /\ EntriesSound'
  BY <1>1, <1>2 DEF MonthInv, RowsAnswered, RunsApart, HasRun, EntriesSound, NothingCut
<1>5. \A a : RecordsOf(a)' = RecordsOf(a) /\ Booked(a)' = Booked(a)
  BY <1>1 DEF RecordsOf, Booked
<1>6. ASSUME NEW r \in Call PROVE CallFormed(r, work[r])'
  BY <1>1, <1>2 DEF MonthInv, CallFormed
<1>7. ASSUME ~mixed'
      PROVE  /\ \A p, q \in AtWork' : p = q
             /\ DepreciationSound' /\ \A a \in Assets' : LinearPace(asset'[a], RecordsOf(a)')
             /\ \A r \in Call : PlanDue(work[r])'
  BY <1>1, <1>2, <1>5, <1>7 DEF MonthInv, DepreciationSound, PlanDue
<1>8. mixed' \in BOOLEAN
  BY DEF MonthInv
<1> QED BY <1>3, <1>4, <1>6, <1>7, <1>8 DEF MonthInv

LEMMA MonthStep ==
    ASSUME MonthInv, [MonthHistoryNext]_<<monthVars, mixed>>
    PROVE  MonthInv'
<1>1. CASE UNCHANGED <<monthVars, mixed>>
  BY <1>1, MonthStutter
<1>2. ASSUME MonthHistoryNext PROVE MonthInv'
  <2>1. mixed' = (mixed \/ Cardinality(AtWork') > 1) /\ mixed \in BOOLEAN /\ MonthNext
    BY <1>2 DEF MonthHistoryNext, MonthInv
  <2>2. mixed => mixed'
    BY <2>1
  <2>3. ASSUME NEW r \in Call, \E t : Fit(r, t) /\ Moves(r, t) PROVE MonthInv'
    BY <2>1, <2>3, MoveKeeps
  <2>4. ASSUME NEW r \in Call, Lodge(r) PROVE MonthInv'
    BY <2>3, <2>4, LodgeMoves
  <2>5. ASSUME NEW r \in Call, Proceed(r) PROVE MonthInv'
    <3>1. CASE \/ WriteRow(r) \/ CheckMonth(r) \/ ReadEmployees(r) \/ ReadAssets(r)
               \/ ReadNoteNumber(r) \/ InsertNote(r) \/ InsertRun(r) \/ InsertRecord(r)
      BY <2>2, <2>3, <3>1, WriteRowMoves, CheckMonthMoves, ReadEmployeesMoves, ReadAssetsMoves,
         ReadNumberMoves, InsertNoteMoves, InsertRunMoves, InsertRecordMoves
    <3>2. CASE CommitWork(r)
      <4>1. Saves(r, "committed")
        BY <3>2 DEF CommitWork, Saves, AtWork, Phase
      <4> QED BY <2>1, <4>1, CommitKeeps
    <3> QED BY <2>5, <3>1, <3>2 DEF Proceed
  <2>6. ASSUME NEW r \in Call, BreakOff(r) PROVE MonthInv'
    <3>1. CASE DropCall(r)
      <4>1. Saves(r, "cut")
        BY <3>1 DEF DropCall, Saves
      <4> QED BY <2>1, <4>1, CommitKeeps
    <3>2. CASE UndoWork(r)
      <4>1. \E t : Fit(r, t) /\ Moves(r, t)
        BY <3>2, Ended DEF UndoWork, AtWork
      <4> QED BY <2>3, <4>1
    <3> QED BY <2>6, <3>1, <3>2 DEF BreakOff
  <2>7. CASE AllServed
    <3>1. UNCHANGED monthVars /\ \A r \in Call : work[r].pc \in Answered
      BY <2>7 DEF AllServed
    <3>2. AtWork' = {}
      BY <3>1 DEF AtWork, monthVars, Phase, Answered
    <3>3. mixed' = mixed
      BY <2>1, <3>2, FS_EmptySet
    <3> QED BY <3>1, <3>3, MonthStutter
  <2> QED BY <2>1, <2>4, <2>5, <2>6, <2>7 DEF MonthNext
<1> QED BY <1>1, <1>2

(* What the monthly runs rest on, at every moment: each request has read and
   planned what its handler computed, there is one payroll a month, notes
   balance, and runs that were alone have left every asset depreciated as it
   should be. *)
THEOREM MonthInvariance == MonthHistorySpec => []MonthInv
<1>1. MonthHistoryInit => MonthInv
  BY MonthStart
<1>2. MonthInv /\ [MonthHistoryNext]_<<monthVars, mixed>> => MonthInv'
  BY MonthStep
<1> QED BY <1>1, <1>2, PTL DEF MonthHistorySpec

(* runDepreciation, while no two requests overlap: no asset is ever depreciated
   by more than its depreciable value, a last month leaves the residual value,
   and equal shares over a full life leave less than half a cent a month, for
   any assets, any order of months and any dropped connections. *)
THEOREM DepreciationIsExact == MonthHistorySpec => []SerialDepreciation
<1>1. MonthInv => SerialDepreciation
  BY DEF MonthInv, SerialDepreciation
<1> QED BY <1>1, MonthInvariance, PTL

(* generatePayroll and runDepreciation: unless a connection is dropped, there is
   one payroll note a month, every note balances, a posted payroll has its note
   with its amounts, and a depreciation note is the sum of its records, however
   the runs race and whatever the salaries and assets. *)
THEOREM MonthsArePosted == MonthHistorySpec => []UncutMonthPosted
<1>1. ASSUME MonthInv, NothingCut PROVE MonthPosted
  <2>1. \A m, n \in Notes : m # n /\ note[m].op = "PAYROLL" /\ note[n].op = "PAYROLL"
                             => note[m].month # note[n].month
    <3>1. ASSUME NEW m \in Notes, NEW n \in Notes, m # n,
                 note[m].op = "PAYROLL", note[n].op = "PAYROLL"
          PROVE  note[m].month # note[n].month
      <4>1. \A k \in {m, n} : k \in Payrolls /\ payroll[k].month = note[k].month
        BY <1>1, <3>1 DEF MonthInv, EntriesSound
      <4>2. \A p, q \in Payrolls : payroll[p].month = payroll[q].month => p = q
        BY <1>1 DEF MonthInv, RunsApart
      <4>3. m \in Payrolls /\ n \in Payrolls /\ payroll[m].month # payroll[n].month
        BY <3>1, <4>1, <4>2
      <4> QED BY <4>1, <4>3
    <3> QED BY <3>1
  <2>2. /\ \A n \in Notes : DebitTotal(note[n].lines) = CreditTotal(note[n].lines)
        /\ \A p \in Payrolls : payroll[p].posted =>
             p \in Notes /\ note[p].lines = PayrollLines(payroll[p].pay)
        /\ \A n \in Notes : IF note[n].op = "PAYROLL" THEN n \in Payrolls
                            ELSE DebitTotal(note[n].lines) = AmountOf({d \in record : d.by = n})
    BY <1>1 DEF MonthInv, EntriesSound
  <2> QED BY <2>1, <2>2 DEF MonthPosted
<1>2. MonthInv => UncutMonthPosted
  BY <1>1 DEF UncutMonthPosted
<1> QED BY <1>2, MonthInvariance, PTL
=============================================================================
