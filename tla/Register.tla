------------------------------ MODULE Register ------------------------------
(***************************************************************************)
(* What the journal promises its users: one numbered register per year, in *)
(* which notes are entered one at a time under the next number, a posted   *)
(* note is reversed at most once, and nothing of a note ever changes but   *)
(* its status.  There are no requests, no transactions and no failures     *)
(* here; Ledger is shown to implement this specification.                  *)
(***************************************************************************)
EXTENDS DoubleEntry

CONSTANTS Period, Year, None

VARIABLE book   \* the notes entered so far

(* A note is known by its year and number; a storno names the note it
   reverses. *)
Note == [year : Year, num : Nat \ {0}, per : Period, lines : Seq(Line),
         rev : (Year \X Nat) \cup {None}, st : {"DRAFT", "VALIDATED", "CLOSED"}]

Key(n) == <<n.year, n.num>>

Init == book = {}

(* n reverses a posted note that is no storno and has none yet. *)
Reverses(n) ==
    \E s \in book : /\ n.rev = Key(s)
                    /\ s.st # "DRAFT" /\ s.rev = None
                    /\ n.lines = Reversed(s.lines)
                    /\ n.st # "DRAFT"
                    /\ \A m \in book : m.rev # n.rev

(* One note is entered under the first free number of its year. *)
Enter ==
    \E n \in book' \ book :
        /\ n \in Note
        /\ \A m \in book : Key(m) # Key(n)
        /\ \A k \in 1 .. (n.num - 1) : \E m \in book : Key(m) = <<n.year, k>>
        /\ n.rev # None => Reverses(n)
        /\ book' = book \cup {n}

(* Notes change status: a draft is posted on its own, posted notes are
   closed and reopened together, and none becomes a draft again. *)
Stamp ==
    \E S \in SUBSET book, st \in {"VALIDATED", "CLOSED"} :
        /\ \A n \in S : n.st = "DRAFT" => S = {n} /\ st = "VALIDATED"
        /\ book' = (book \ S) \cup {[n EXCEPT !.st = st] : n \in S}

Next == Enter \/ Stamp

Spec == Init /\ [][Next]_book
=============================================================================
