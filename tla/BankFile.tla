------------------------------ MODULE BankFile ------------------------------
(***************************************************************************)
(* What parseBankStatementFile makes of an uploaded statement.             *)
(*                                                                         *)
(* A file is a record: the format the user chose, what its name, its MIME  *)
(* type and its content suggest, and the items of its content in order.    *)
(* An item is a tag of MT940 (balances "60" and "62", a movement "61", its *)
(* description "86"), or a Ntry of CAMT.053 or a row of a CSV (both "61"). *)
(* A number is a sequence of digits and separators with its sign; amounts  *)
(* are whole cents after round2.  Texts other than numbers are values.     *)
(***************************************************************************)
EXTENDS Integers, Sequences, SequencesExt

CONSTANTS
    Absent,   \* an optional field that is not there
    MaxLines  \* MAX_LINES

Comma == -1
Dot   == -2

Refused == [lines |-> <<>>, day |-> Absent]

-----------------------------------------------------------------------------
(* Numbers. *)

Without(text, mark) == SelectSeq(text, LAMBDA c : c # mark)

(* The place of the last, or of the first, mark in a text, or 0. *)
LastOf(text, mark)  == SelectLastInSeq(text, LAMBDA c : c = mark)
FirstOf(text, mark) == SelectInSeq(text, LAMBDA c : c = mark)

(* String.replace of one comma: only the first becomes a dot. *)
FirstCommaToDot(text) ==
    IF FirstOf(text, Comma) = 0 THEN text ELSE [text EXCEPT ![FirstOf(text, Comma)] = Dot]

(* Fault: a comma is always taken for a separator of thousands. *)
FaultyNormalized(text) == Without(text, Comma)

(* The separators of a number: of comma and dot the one that comes last is
   the decimal one, and a lone comma is when one to three digits follow. *)
Normalized(text) ==
    LET comma == LastOf(text, Comma)
        dot   == LastOf(text, Dot)
    IN  IF comma > 0 /\ (IF dot > 0 THEN comma > dot ELSE Len(text) - comma \in 1..3)
        THEN FirstCommaToDot(Without(text, Dot))
        ELSE Without(text, Comma)

(* Number(normalized) is finite: digits with at most one dot among them, or
   nothing at all, which is zero. *)
IsNumber(text) ==
    /\ \A k \in DOMAIN text : text[k] # Comma
    /\ Len(text) - Len(Without(text, Dot)) <= 1
    /\ text # <<Dot>>

DigitsValue(text) == FoldLeft(LAMBDA n, d : 10 * n + d, 0, Without(text, Dot))

(* round2 of a normalized number, in cents. *)
InCents(text) ==
    LET decimals == IF FirstOf(text, Dot) = 0 THEN 0 ELSE Len(text) - FirstOf(text, Dot)
        unit == 10 ^ decimals
    IN  (200 * DigitsValue(text) + unit) \div (2 * unit)

(* parseDecimal: parentheses and a minus sign each turn the sign around. *)
parseDecimal(n) ==
    LET cents == InCents(Normalized(n.text))
    IN  IF n.paren # n.minus THEN -cents ELSE cents

Valid(n) == IsNumber(Normalized(n.text))

Magnitude(n) == InCents(Normalized(n.text))

-----------------------------------------------------------------------------
(* The three formats. *)

(* parseMt61Line: C or D, turned around by R. *)
Mt61Amount(e) ==
    IF (e.mark = "D") # e.reversal THEN -Magnitude(e.number) ELSE Magnitude(e.number)

CamtAmount(e) == IF e.mark = "D" THEN -Magnitude(e.number) ELSE Magnitude(e.number)

AmountIn(format, e) ==
    CASE format = "MT940"   -> Mt61Amount(e)
      [] format = "CAMT053" -> CamtAmount(e)
      [] format = "CSV"     -> parseDecimal(e.number)

(* The description of the movement at place k: an :86: counts for the :61:
   right before it. *)
Description(format, items, k) ==
    IF format # "MT940" THEN items[k].info
    ELSE IF k < Len(items) /\ items[k + 1].tag = "86" THEN items[k + 1].info ELSE Absent

Movements(items) == {k \in DOMAIN items : items[k].tag = "61"}

LinesOf(format, items) ==
    LET places == SetToSortSeq(Movements(items), <)
        line(k) == [amount |-> AmountIn(format, items[k]), day |-> items[k].day,
                    info |-> Description(format, items, k)]
        lines == [n \in DOMAIN places |-> line(places[n])]
    IN  IF format = "MT940" THEN lines ELSE SelectSeq(lines, LAMBDA l : l.amount # 0)

(* statementDate: of the last closing balance, else of the first opening one,
   else the last day of a movement. *)
StatementDay(format, items, lines) ==
    LET dated(tag) == {k \in DOMAIN items : format = "MT940" /\ items[k].tag = tag}
    IN  IF dated("62") # {} THEN items[Max(dated("62"))].day
        ELSE IF dated("60") # {} THEN items[Min(dated("60"))].day
        ELSE Max({lines[n].day : n \in DOMAIN lines})

-----------------------------------------------------------------------------
(* The choice of the format, the most explicit evidence first. *)
resolveFormat(f) ==
    IF f.format # "AUTO" THEN f.format
    ELSE IF f.ext # Absent THEN f.ext
    ELSE IF f.mime \in {"CAMT053", "CSV"} THEN f.mime
    ELSE IF f.content \in {"CAMT053", "MT940"} THEN f.content
    ELSE "CSV"

(* sanitizeLines refuses a file with no line, too many, or a zero amount. *)
Sane(lines) == Len(lines) \in 1..MaxLines /\ \A n \in DOMAIN lines : lines[n].amount # 0

(* A parser that is given another format's text finds no tag, no Stmt node or
   no header, and throws. *)
parseBankStatementFile(f) ==
    LET format == resolveFormat(f)
        lines  == LinesOf(format, f.items)
    IN  IF /\ format = f.content
           /\ \A k \in Movements(f.items) : Valid(f.items[k].number)
           /\ Sane(lines)
        THEN [lines |-> lines, day |-> StatementDay(format, f.items, lines)]
        ELSE Refused
=============================================================================
